----------------------------- MODULE SetupProofs -----------------------------
(***************************************************************************)
(* What the programs make of a configuration file, for every file of the   *)
(* right form, any number of banks, servers and clients and any random     *)
(* numbers.                                                                *)
(***************************************************************************)
EXTENDS Setup, FiniteSetTheorems, SequenceTheorems, TLAPS

MasterAt == Place(file, "//Master")
ServerAt == Place(file, "//Server")
ConfigAt == Place(file, "//Client ")
ClientAt == Place(file, "//Client:")
RequestAt == Place(file, "//Request")

\* The numbers of line i.
Row(i) == file[i].f

\* The file asks for random requests.
Random == Field(Row(ConfigAt + 1), 4) # 0

FileInv ==
    /\ file \in Files /\ draws \in Draws
    /\ above \subseteq {Deposit, Withdraw}
    /\ line \in 1..(Len(file) + 1)

Chains == [Bank -> Seq(Nat)]

Masters == [master: BOOLEAN, server: BOOLEAN, client: BOOLEAN, over: BOOLEAN,
            chain: Chains, clients: Chains]

\* The flags of the master before line l say where it is in the file.
MasterFlags(m, l) ==
    /\ m.master <=> l = MasterAt + 1
    /\ m.server <=> ServerAt < l /\ l <= ConfigAt
    /\ m.client <=> ClientAt < l
    /\ m.over <=> RequestAt < l

MasterInv == ms \in Masters /\ MasterFlags(ms, line)

CliRec == [acct: Nat, port: Nat, reqs: Seq(Request)]

CliLists == [Bank -> Seq(CliRec)]

Clis == [master: BOOLEAN, server: BOOLEAN, config: BOOLEAN, client: BOOLEAN,
         request: BOOLEAN, over: BOOLEAN, ready: BOOLEAN,
         settings: [1..5 -> Nat], random: [1..6 -> Nat], chain: Chains,
         clients: CliLists]

\* So do those of the client.
ClientFlags(c, l) ==
    /\ c.master <=> l = MasterAt + 1
    /\ c.server <=> ServerAt < l /\ l <= ConfigAt
    /\ c.config <=> l = ConfigAt + 1
    /\ c.client <=> ClientAt < l /\ l <= RequestAt
    /\ c.request <=> RequestAt < l
    /\ c.over <=> RequestAt + 1 < l /\ Random

\* What it has read of the settings and of the random requests.
ClientRead(c, l) ==
    /\ ConfigAt + 1 < l => c.settings = ParseConfig(Row(ConfigAt + 1))
    /\ Random => (RequestAt + 1 < l => c.random = ParseRandomizedReq(Row(RequestAt + 1)))

\* The requests that are generated for client i of bank b with account a.
Generated(q, b, i, a) ==
    [k \in 1..q[2] |->
        NewRequest(Drawn(q, draws[k]), b, i, k, a,
                   IF Drawn(q, draws[k]) = Query THEN 0 ELSE 10 * draws[k])]

ClientInv ==
    /\ cl \in Clis
    /\ ClientFlags(cl, line)
    /\ ClientRead(cl, line)
    /\ cl.ready => line > Len(file)
    /\ cl.ready /\ Random =>
          \A b \in Bank : \A i \in DOMAIN cl.clients[b] :
              cl.clients[b][i].reqs
                  = Generated(cl.random, b, i, cl.clients[b][i].acct)

SameInv == cl.chain = ms.chain

-----------------------------------------------------------------------------
\* The lines of the servers.
ServerLines == (ServerAt + 1)..(ConfigAt - 1)

\* Line i is a server of bank b that is there from the start, and is before line l.
Plain(i, b, l) ==
    i \in ServerLines /\ i < l /\ Row(i)[1] = b /\ Row(i)[3] = 0

\* The chain c of a bank is made of its servers in the order of their lines.
ChainOf(c, b, l) ==
    /\ \A n \in DOMAIN c : \E i \in ServerLines : Plain(i, b, l) /\ c[n] = Row(i)[2]
    /\ \A i \in ServerLines : Plain(i, b, l) => \E n \in DOMAIN c : c[n] = Row(i)[2]
    /\ \A m, n \in DOMAIN c : m < n =>
          \A i, j \in ServerLines : c[m] = Row(i)[2] /\ c[n] = Row(j)[2] => i < j

ChainInv == \A b \in Bank : ChainOf(ms.chain[b], b, line)

\* The line of the server that was started with number k.
Own(k) == ServerAt + k

\* Before line l server k has read its own line, and the one after it.
Found(k, l) == Own(k) < l /\ Own(k) < ConfigAt
Passed(k, l) == Own(k) + 1 < l /\ Own(k) + 1 < ConfigAt

Servs == [master: BOOLEAN, server: BOOLEAN, after: BOOLEAN, over: BOOLEAN,
          i: Nat, bank: Bank \cup {0}, port: Nat \cup {NoServer}, delay: Nat,
          next: Nat \cup {NoServer}]

\* What the flags and the index of server k say before line l.
ServerFlags(s, k, l) ==
    /\ s.over <=> ConfigAt < l \/ Passed(k, l)
    /\ s.master <=> l = MasterAt + 1
    /\ ~s.over => (s.server <=> ServerAt < l /\ l <= Own(k))
    /\ ~s.over => (s.after <=> l = Own(k) + 1)
    /\ ~s.over => (l <= ServerAt => s.i = 0)
    /\ ~s.over => (ServerAt < l /\ l <= Own(k) => s.i = l - 1 - ServerAt)
    /\ s.i <= k

\* What server k knows of itself and of its next server.
ServerKnows(s, k, l) ==
    /\ Found(k, l) => s.port = Row(Own(k))[2] /\ s.bank = Row(Own(k))[1]
    /\ ~Found(k, l) => s.port = NoServer
    /\ Passed(k, l) => s.next = NextOf(s, Row(Own(k) + 1))
    /\ ~Passed(k, l) => s.next = NoServer

ServersInv ==
    /\ srv \in [Started -> Servs]
    /\ \A k \in Started : ServerFlags(srv[k], k, line) /\ ServerKnows(srv[k], k, line)

SetupInv == FileInv /\ MasterInv /\ ClientInv /\ SameInv /\ ChainInv /\ ServersInv

-----------------------------------------------------------------------------
(* The layout of the file.                                                 *)

Lines == 1..Len(file)

LEMMA Layout ==
  ASSUME file \in Files
  PROVE  /\ Len(file) \in Nat /\ DOMAIN file = Lines
         /\ \A head \in Headings : Place(file, head) \in Lines
         /\ \A head \in Headings : file[Place(file, head)].head = head
         /\ \A i \in Lines : file[i].head # "" =>
               i \in {MasterAt, ServerAt, ConfigAt, ClientAt, RequestAt}
  <1>1. WellFormed(file)
    BY SetupAssumption
  <1>2. /\ Len(file) \in Nat /\ DOMAIN file = Lines
        /\ \A head \in Headings : \E i \in DOMAIN file : file[i].head = head
    BY <1>1 DEF WellFormed, Lines
  <1>3. \A i \in DOMAIN file : file[i].head # "" =>
           i \in {MasterAt, ServerAt, ConfigAt, ClientAt, RequestAt}
    BY <1>1 DEF WellFormed, MasterAt, ServerAt, ConfigAt, ClientAt, RequestAt
  <1>4. \A head \in Headings :
           Place(file, head) \in DOMAIN file /\ file[Place(file, head)].head = head
    BY <1>2 DEF Place
  <1> QED BY <1>2, <1>3, <1>4

\* The places of the headings are numbers, in order.
LEMMA Places ==
  ASSUME file \in Files
  PROVE  /\ MasterAt \in Nat /\ ServerAt \in Nat /\ ConfigAt \in Nat
         /\ ClientAt \in Nat /\ RequestAt \in Nat /\ Len(file) \in Nat
         /\ 1 <= MasterAt /\ MasterAt + 1 < ServerAt /\ ServerAt < ConfigAt
         /\ ConfigAt + 1 < ClientAt /\ ClientAt < RequestAt /\ RequestAt <= Len(file)
  <1>1. /\ Len(file) \in Nat
        /\ MasterAt \in 1..Len(file) /\ ServerAt \in 1..Len(file)
        /\ ConfigAt \in 1..Len(file) /\ ClientAt \in 1..Len(file)
        /\ RequestAt \in 1..Len(file)
    BY Layout DEF Headings, Lines, MasterAt, ServerAt, ConfigAt, ClientAt, RequestAt
  <1>2. WellFormed(file)
    BY SetupAssumption
  <1>3. /\ MasterAt + 1 < ServerAt /\ ServerAt < ConfigAt
        /\ ConfigAt + 1 < ClientAt /\ ClientAt < RequestAt
    BY <1>2 DEF WellFormed, MasterAt, ServerAt, ConfigAt, ClientAt, RequestAt
  <1> QED BY <1>1, <1>3

\* What the lines below the headings are.
LEMMA RowTypes ==
  ASSUME file \in Files
  PROVE  /\ \A i \in (ServerAt + 1)..(ConfigAt - 1) :
               Row(i) \in Seq(Nat) /\ Len(Row(i)) >= 3 /\ Row(i)[1] \in Bank
         /\ \A i, j \in (ServerAt + 1)..(ConfigAt - 1) :
               Row(i)[2] = Row(j)[2] => i = j
         /\ \A i \in (ClientAt + 1)..(RequestAt - 1) :
               Row(i) \in Seq(Nat) /\ Len(Row(i)) >= 3 /\ Row(i)[1] \in Bank
         /\ Row(ConfigAt + 1) \in Seq(Nat)
         /\ Random => LET q == Row(RequestAt + 1)
                      IN  /\ RequestAt < Len(file) /\ q \in Seq(Nat) /\ Len(q) = 6
                          /\ q[3] + q[4] + q[5] + q[6] = 100
                          /\ \A d \in Draws : q[2] <= Len(d)
         /\ ~Random => \A i \in (RequestAt + 1)..Len(file) :
                          /\ Row(i)[1] \in ReqType /\ Row(i)[2] \in Nat \X Nat \X Nat
                          /\ Row(i)[3] \in Nat /\ Field(Row(i), 4) \in Nat
  <1>1. WellFormed(file)
    BY SetupAssumption
  <1> QED BY <1>1 DEF WellFormed, Listed, Random, Row, MasterAt, ServerAt, ConfigAt,
                      ClientAt, RequestAt

\* The first three numbers of a server or a client.
LEMMA RowFields ==
  ASSUME file \in Files,
         NEW i \in ((ServerAt + 1)..(ConfigAt - 1)) \cup ((ClientAt + 1)..(RequestAt - 1))
  PROVE  Row(i)[1] \in Bank /\ Row(i)[2] \in Nat /\ Row(i)[3] \in Nat
  <1>1. Row(i) \in Seq(Nat) /\ Len(Row(i)) >= 3 /\ Row(i)[1] \in Bank
    BY RowTypes
  <1> QED BY <1>1

\* Nothing the programs read changes the file.
LEMMA SameFile ==
  ASSUME file' = file
  PROVE  /\ MasterAt' = MasterAt /\ ServerAt' = ServerAt /\ ConfigAt' = ConfigAt
         /\ ClientAt' = ClientAt /\ RequestAt' = RequestAt
         /\ Random' = Random /\ Lines' = Lines
         /\ \A i : Row(i)' = Row(i)
         /\ \A k : Own(k)' = Own(k)
         /\ ServerLines' = ServerLines
  BY DEF MasterAt, ServerAt, ConfigAt, ClientAt, RequestAt, Random, Row, Own, Lines,
         ServerLines

\* What reading a line does to each program.
LEMMA Reading ==
  ASSUME FileInv, ReadHeading \/ ReadData
  PROVE  /\ line \in Lines /\ line' = line + 1 /\ line \in Nat
         /\ file' = file /\ draws' = draws /\ above' = above /\ file \in Files
  <1>1. Len(file) \in Nat
    BY Layout DEF FileInv
  <1>2. line <= Len(file) /\ line' = line + 1 /\ UNCHANGED <<file, draws, above>>
    BY DEF ReadHeading, ReadData
  <1>3. line \in 1..(Len(file) + 1) /\ file \in Files
    BY DEF FileInv
  <1> QED BY <1>1, <1>2, <1>3 DEF Lines

\* A heading is one of the five, in its place.
LEMMA AtHeading ==
  ASSUME FileInv, ReadHeading
  PROVE  \/ line = MasterAt /\ file[line].head = "//Master"
         \/ line = ServerAt /\ file[line].head = "//Server"
         \/ line = ConfigAt /\ file[line].head = "//Client "
         \/ line = ClientAt /\ file[line].head = "//Client:"
         \/ line = RequestAt /\ file[line].head = "//Request"
  <1>1. line \in Lines /\ file \in Files
    BY Reading
  <1>2. file[line].head # ""
    BY DEF ReadHeading
  <1> QED BY <1>1, <1>2, Layout
          DEF Headings, MasterAt, ServerAt, ConfigAt, ClientAt, RequestAt

\* The other lines are data.
LEMMA AtData ==
  ASSUME FileInv, ReadData
  PROVE  \A p \in {MasterAt, ServerAt, ConfigAt, ClientAt, RequestAt} : p # line
  <1>1. file \in Files
    BY DEF FileInv
  <1>2. file[line].head = ""
    BY DEF ReadData
  <1> QED BY <1>1, <1>2, Layout
          DEF Headings, MasterAt, ServerAt, ConfigAt, ClientAt, RequestAt

LEMMA FileNext ==
  ASSUME FileInv, [Next]_vars
  PROVE  FileInv' /\ file' = file
  <1>1. UNCHANGED <<file, draws, above>> /\ line' \in {line, line + 1}
        /\ (line' = line \/ line <= Len(file))
    BY DEF Next, ReadHeading, ReadData, Prepare, vars
  <1> QED BY <1>1, Places DEF FileInv

-----------------------------------------------------------------------------
(* The master.                                                             *)

\* A server goes to the chain of its bank unless it is delayed (Addserver).
LEMMA AddType ==
  ASSUME NEW S, NEW chains \in [Bank -> Seq(S)], NEW b \in Bank, NEW x \in S
  PROVE  /\ AddTo(chains, b, x) \in [Bank -> Seq(S)]
         /\ AddTo(chains, b, x)[b] = Append(chains[b], x)
         /\ \A d \in Bank \ {b} : AddTo(chains, b, x)[d] = chains[d]
  BY DEF AddTo

LEMMA AddserverType ==
  ASSUME FileInv, NEW chains \in Chains, NEW i \in (ServerAt + 1)..(ConfigAt - 1)
  PROVE  /\ Addserver(chains, Row(i)) \in Chains
         /\ Addserver(chains, Row(i))
               = IF Row(i)[3] = 0 THEN AddTo(chains, Row(i)[1], Row(i)[2]) ELSE chains
  <1>1. Row(i)[1] \in Bank /\ Row(i)[2] \in Nat /\ Row(i)[3] \in Nat
    BY RowFields DEF FileInv
  <1> QED BY <1>1, AddType DEF Addserver, InitServ, Chains

LEMMA MasterHeads ==
  ASSUME FileInv, MasterInv, ReadHeading
  PROVE  MasterInv'
  <1>1. line' = line + 1 /\ line \in Nat /\ file' = file /\ file \in Files
    BY Reading
  <1>2. ms' = IF ms.over THEN ms ELSE MasterHeading(ms, file[line].head)
    BY DEF ReadHeading
  <1>3. ms \in Masters
    BY DEF MasterInv
  <1>4. SUFFICES ms' \in Masters /\ MasterFlags(ms', line + 1)
    BY <1>1, SameFile DEF MasterInv, MasterFlags
  <1>5. MasterFlags(ms, line)
    BY DEF MasterInv, MasterFlags
  <1>6. CASE line = MasterAt /\ file[line].head = "//Master"
    <2>1. ~ms.over
      BY <1>1, <1>5, <1>6, Places DEF MasterFlags
    <2>2. ms' = [ms EXCEPT !.master = TRUE]
      BY <1>2, <1>6, <2>1 DEF MasterHeading
    <2>3. ms' \in Masters
      BY <1>3, <2>2 DEF Masters
    <2> QED BY <1>1, <1>3, <1>5, <1>6, <2>2, <2>3, Places DEF Masters, MasterFlags
  <1>7. CASE line = ServerAt /\ file[line].head = "//Server"
    <2>1. ~ms.over
      BY <1>1, <1>5, <1>7, Places DEF MasterFlags
    <2>2. ms' = [ms EXCEPT !.server = TRUE]
      BY <1>2, <1>7, <2>1 DEF MasterHeading
    <2>3. ms' \in Masters
      BY <1>3, <2>2 DEF Masters
    <2> QED BY <1>1, <1>3, <1>5, <1>7, <2>2, <2>3, Places DEF Masters, MasterFlags
  <1>8. CASE line = ConfigAt /\ file[line].head = "//Client "
    <2>1. line = ConfigAt
      BY <1>8
    <2>2. ~ms.over
      BY <1>1, <1>5, <2>1, Places DEF MasterFlags
    <2>3. ms' = [ms EXCEPT !.server = FALSE]
      BY <1>2, <1>8, <2>2 DEF MasterHeading
    <2>4. ms' \in Masters
      BY <1>3, <2>3 DEF Masters
    <2> QED BY <1>1, <1>3, <1>5, <2>1, <2>3, <2>4, Places DEF Masters, MasterFlags
  <1>9. CASE line = ClientAt /\ file[line].head = "//Client:"
    <2>1. ~ms.over
      BY <1>1, <1>5, <1>9, Places DEF MasterFlags
    <2>2. ms' = [ms EXCEPT !.client = TRUE]
      BY <1>2, <1>9, <2>1 DEF MasterHeading
    <2>3. ms' \in Masters
      BY <1>3, <2>2 DEF Masters
    <2> QED BY <1>1, <1>3, <1>5, <1>9, <2>2, <2>3, Places DEF Masters, MasterFlags
  <1>10. CASE line = RequestAt /\ file[line].head = "//Request"
    <2>1. ~ms.over
      BY <1>1, <1>5, <1>10, Places DEF MasterFlags
    <2>2. ms' = [ms EXCEPT !.over = TRUE]
      BY <1>2, <1>10, <2>1 DEF MasterHeading
    <2>3. ms' \in Masters
      BY <1>3, <2>2 DEF Masters
    <2> QED BY <1>1, <1>3, <1>5, <1>10, <2>2, <2>3, Places DEF Masters, MasterFlags
  <1> QED BY <1>6, <1>7, <1>8, <1>9, <1>10, AtHeading

LEMMA MasterDatas ==
  ASSUME FileInv, MasterInv, ReadData
  PROVE  MasterInv'
  <1>1. line' = line + 1 /\ line \in Nat /\ file' = file /\ file \in Files
    BY Reading
  <1>2. ms' = IF ms.over THEN ms ELSE MasterData(ms, Row(line))
    BY DEF ReadData, Row
  <1>3. ms \in Masters
    BY DEF MasterInv
  <1>4. SUFFICES ms' \in Masters /\ MasterFlags(ms', line + 1)
    BY <1>1, SameFile DEF MasterInv, MasterFlags
  <1>5. MasterFlags(ms, line)
    BY DEF MasterInv, MasterFlags
  <1>6. /\ line # MasterAt /\ line # ServerAt /\ line # ConfigAt /\ line # ClientAt
        /\ line # RequestAt
    BY AtData
  <1>7. CASE ms.over
    BY <1>1, <1>2, <1>3, <1>5, <1>6, <1>7, Places DEF MasterFlags
  <1>8. CASE ~ms.over /\ ms.master
    <2>1. ms' = [ms EXCEPT !.master = FALSE]
      BY <1>2, <1>8 DEF MasterData
    <2>2. ms' \in Masters
      BY <1>3, <2>1 DEF Masters
    <2> QED BY <1>1, <1>3, <1>5, <1>6, <1>8, <2>1, <2>2, Places DEF Masters, MasterFlags
  <1>9. CASE ~ms.over /\ ~ms.master
    <2> DEFINE chain == IF ms.server THEN Addserver(ms.chain, Row(line)) ELSE ms.chain
               clients == IF ms.client
                          THEN AddTo(ms.clients, Row(line)[1], Row(line)[3])
                          ELSE ms.clients
    <2>1. ms.chain \in Chains /\ ms.clients \in Chains
      BY <1>3 DEF Masters
    <2>2. chain \in Chains
      <3> SUFFICES ASSUME ms.server PROVE Addserver(ms.chain, Row(line)) \in Chains
        BY <2>1
      <3>1. line \in (ServerAt + 1)..(ConfigAt - 1)
        BY <1>1, <1>5, <1>6, Places DEF MasterFlags
      <3> QED BY <2>1, <3>1, AddserverType
    <2>3. clients \in Chains
      <3> SUFFICES ASSUME ms.client
                   PROVE  AddTo(ms.clients, Row(line)[1], Row(line)[3]) \in Chains
        BY <2>1
      <3>1. line \in (ClientAt + 1)..(RequestAt - 1)
        BY <1>1, <1>5, <1>6, <1>9, Places DEF MasterFlags
      <3>2. Row(line)[1] \in Bank /\ Row(line)[3] \in Nat
        BY <1>1, <3>1, RowFields
      <3> QED BY <2>1, <3>2, AddType DEF Chains
    <2>4. ms' = [ms EXCEPT !.chain = chain, !.clients = clients]
      BY <1>2, <1>9 DEF MasterData
    <2> HIDE DEF chain, clients
    <2>5. ms' \in Masters
      BY <1>3, <2>2, <2>3, <2>4 DEF Masters
    <2>6. /\ ms'.master = ms.master /\ ms'.server = ms.server
          /\ ms'.client = ms.client /\ ms'.over = ms.over
      BY <1>3, <2>4 DEF Masters
    <2> QED BY <1>1, <1>5, <1>6, <1>9, <2>5, <2>6, Places DEF MasterFlags
  <1> QED BY <1>7, <1>8, <1>9
-----------------------------------------------------------------------------
(* The client.                                                             *)

LEMMA ClientHeads ==
  ASSUME FileInv, ClientInv, ReadHeading
  PROVE  ClientInv'
  <1>1. /\ line' = line + 1 /\ line \in Nat /\ file' = file /\ file \in Files
        /\ line <= Len(file) /\ Len(file) \in Nat
    BY Reading, Places DEF ReadHeading
  <1>2. cl' = IF cl.over THEN cl ELSE ClientHeading(cl, file[line].head)
    BY DEF ReadHeading
  <1>3. cl \in Clis /\ ClientFlags(cl, line) /\ ClientRead(cl, line)
    BY DEF ClientInv
  <1>4. ~cl.ready
    BY <1>1 DEF ClientInv
  <1>5. SUFFICES /\ cl' \in Clis /\ ClientFlags(cl', line + 1)
                 /\ ClientRead(cl', line + 1) /\ ~cl'.ready
    BY <1>1, SameFile DEF ClientInv, ClientFlags, ClientRead
  <1>6. CASE line = MasterAt /\ file[line].head = "//Master"
    <2>1. line = MasterAt
      BY <1>6
    <2>2. ~cl.over
      BY <1>1, <1>3, <2>1, Places DEF ClientFlags
    <2>3. cl' = [cl EXCEPT !.master = TRUE]
      BY <1>2, <1>6, <2>2 DEF ClientHeading
    <2>4. cl' \in Clis
      BY <1>3, <2>3 DEF Clis
    <2>5. /\ cl'.master = TRUE /\ cl'.server = cl.server /\ cl'.config = cl.config
          /\ cl'.client = cl.client /\ cl'.request = cl.request /\ cl'.over = cl.over
          /\ cl'.ready = cl.ready /\ cl'.settings = cl.settings /\ cl'.random = cl.random
      BY <1>3, <2>3 DEF Clis
    <2>6. ClientFlags(cl', line + 1)
      BY <1>1, <1>3, <2>1, <2>5, Places DEF ClientFlags
    <2> QED BY <1>1, <1>3, <1>4, <2>1, <2>4, <2>5, <2>6, Places DEF ClientRead
  <1>7. CASE line = ServerAt /\ file[line].head = "//Server"
    <2>1. line = ServerAt
      BY <1>7
    <2>2. ~cl.over
      BY <1>1, <1>3, <2>1, Places DEF ClientFlags
    <2>3. cl' = [cl EXCEPT !.master = FALSE, !.server = TRUE]
      BY <1>2, <1>7, <2>2 DEF ClientHeading
    <2>4. cl' \in Clis
      BY <1>3, <2>3 DEF Clis
    <2>5. /\ cl'.master = FALSE /\ cl'.server = TRUE /\ cl'.config = cl.config
          /\ cl'.client = cl.client /\ cl'.request = cl.request /\ cl'.over = cl.over
          /\ cl'.ready = cl.ready /\ cl'.settings = cl.settings /\ cl'.random = cl.random
      BY <1>3, <2>3 DEF Clis
    <2>6. ClientFlags(cl', line + 1)
      BY <1>1, <1>3, <2>1, <2>5, Places DEF ClientFlags
    <2> QED BY <1>1, <1>3, <1>4, <2>1, <2>4, <2>5, <2>6, Places DEF ClientRead
  <1>8. CASE line = ConfigAt /\ file[line].head = "//Client "
    <2>1. line = ConfigAt
      BY <1>8
    <2>2. ~cl.over
      BY <1>1, <1>3, <2>1, Places DEF ClientFlags
    <2>3. cl' = [cl EXCEPT !.server = FALSE, !.config = TRUE]
      BY <1>2, <1>8, <2>2 DEF ClientHeading
    <2>4. cl' \in Clis
      BY <1>3, <2>3 DEF Clis
    <2>5. /\ cl'.master = cl.master /\ cl'.server = FALSE /\ cl'.config = TRUE
          /\ cl'.client = cl.client /\ cl'.request = cl.request /\ cl'.over = cl.over
          /\ cl'.ready = cl.ready /\ cl'.settings = cl.settings /\ cl'.random = cl.random
      BY <1>3, <2>3 DEF Clis
    <2>6. ClientFlags(cl', line + 1)
      BY <1>1, <1>3, <2>1, <2>5, Places DEF ClientFlags
    <2> QED BY <1>1, <1>3, <1>4, <2>1, <2>4, <2>5, <2>6, Places DEF ClientRead
  <1>9. CASE line = ClientAt /\ file[line].head = "//Client:"
    <2>1. line = ClientAt
      BY <1>9
    <2>2. ~cl.over
      BY <1>1, <1>3, <2>1, Places DEF ClientFlags
    <2>3. cl' = [cl EXCEPT !.client = TRUE]
      BY <1>2, <1>9, <2>2 DEF ClientHeading
    <2>4. cl' \in Clis
      BY <1>3, <2>3 DEF Clis
    <2>5. /\ cl'.master = cl.master /\ cl'.server = cl.server /\ cl'.config = cl.config
          /\ cl'.client = TRUE /\ cl'.request = cl.request /\ cl'.over = cl.over
          /\ cl'.ready = cl.ready /\ cl'.settings = cl.settings /\ cl'.random = cl.random
      BY <1>3, <2>3 DEF Clis
    <2>6. ClientFlags(cl', line + 1)
      BY <1>1, <1>3, <2>1, <2>5, Places DEF ClientFlags
    <2> QED BY <1>1, <1>3, <1>4, <2>1, <2>4, <2>5, <2>6, Places DEF ClientRead
  <1>10. CASE line = RequestAt /\ file[line].head = "//Request"
    <2>1. line = RequestAt
      BY <1>10
    <2>2. ~cl.over
      BY <1>1, <1>3, <2>1, Places DEF ClientFlags
    <2>3. cl' = [cl EXCEPT !.request = TRUE, !.client = FALSE]
      BY <1>2, <1>10, <2>2 DEF ClientHeading
    <2>4. cl' \in Clis
      BY <1>3, <2>3 DEF Clis
    <2>5. /\ cl'.master = cl.master /\ cl'.server = cl.server /\ cl'.config = cl.config
          /\ cl'.client = FALSE /\ cl'.request = TRUE /\ cl'.over = cl.over
          /\ cl'.ready = cl.ready /\ cl'.settings = cl.settings /\ cl'.random = cl.random
      BY <1>3, <2>3 DEF Clis
    <2>6. ClientFlags(cl', line + 1)
      BY <1>1, <1>3, <2>1, <2>5, Places DEF ClientFlags
    <2> QED BY <1>1, <1>3, <1>4, <2>1, <2>4, <2>5, <2>6, Places DEF ClientRead
  <1> QED BY <1>6, <1>7, <1>8, <1>9, <1>10, AtHeading

LEMMA FieldType ==
  ASSUME NEW f \in Seq(Nat)
  PROVE  ParseConfig(f) \in [1..5 -> Nat] /\ ParseRandomizedReq(f) \in [1..6 -> Nat]
  <1>1. \A i \in Nat : Field(f, i) \in Nat
    BY DEF Field
  <1> QED BY <1>1 DEF ParseConfig, ParseRandomizedReq

\* The first digit of a number of two digits is a number.
LEMMA DigitType ==
  ASSUME NEW n \in Nat
  PROVE  FirstDigit(n) \in Nat
  BY DEF FirstDigit

\* A line that asks for a request becomes one.
LEMMA RequestType ==
  ASSUME file \in Files, ~Random, NEW i \in (RequestAt + 1)..Len(file)
  PROVE  ParseRequest(Row(i)) \in Request
  <1>1. /\ Row(i)[1] \in ReqType /\ Row(i)[2] \in Nat \X Nat \X Nat
        /\ Row(i)[3] \in Nat /\ Field(Row(i), 4) \in Nat
    BY RowTypes
  <1>2. Row(i)[2][1] \in Nat
    BY <1>1
  <1>3. FirstDigit(Row(i)[2][1]) \in Nat
    BY <1>2, DigitType
  <1> HIDE DEF ReqType
  <1> QED BY <1>1, <1>3 DEF ParseRequest, Request

\* Who has the account of a request gets it, and nothing else changes (Addrequest).
LEMMA AddrequestType ==
  ASSUME NEW clients \in CliLists, NEW r \in Request
  PROVE  Addrequest(clients, r) \in CliLists
  <1> SUFFICES ASSUME NEW b \in Bank PROVE Addrequest(clients, r)[b] \in Seq(CliRec)
    BY DEF Addrequest, CliLists
  <1>1. clients[b] \in Seq(CliRec)
    BY DEF CliLists
  <1>2. \A i \in DOMAIN clients[b] :
           /\ clients[b][i] \in CliRec
           /\ [clients[b][i] EXCEPT !.reqs = Append(clients[b][i].reqs, r)] \in CliRec
    <2> SUFFICES ASSUME NEW i \in DOMAIN clients[b]
                 PROVE  /\ clients[b][i] \in CliRec
                        /\ [clients[b][i] EXCEPT !.reqs = Append(clients[b][i].reqs, r)]
                              \in CliRec
      OBVIOUS
    <2>1. clients[b][i] \in CliRec
      BY <1>1
    <2>2. Append(clients[b][i].reqs, r) \in Seq(Request)
      BY <2>1 DEF CliRec
    <2> QED BY <2>1, <2>2 DEF CliRec
  <1>3. DOMAIN clients[b] = 1..Len(clients[b]) /\ Len(clients[b]) \in Nat
    BY <1>1
  <1>4. Addrequest(clients, r)[b] \in [1..Len(clients[b]) -> CliRec]
    BY <1>2, <1>3 DEF Addrequest
  <1> QED BY <1>3, <1>4, SeqDef

\* A client is added to the list of its bank.
LEMMA InitCliType ==
  ASSUME file \in Files, NEW clients \in CliLists, NEW i \in (ClientAt + 1)..(RequestAt - 1)
  PROVE  AddTo(clients, Row(i)[1], InitCli(Row(i))) \in CliLists
  <1>1. Row(i)[1] \in Bank /\ Row(i)[2] \in Nat /\ Row(i)[3] \in Nat
    BY RowFields
  <1>2. <<>> \in Seq(Request)
    OBVIOUS
  <1>3. InitCli(Row(i)) \in CliRec
    BY <1>1, <1>2 DEF InitCli, CliRec
  <1> QED BY <1>1, <1>3, AddType DEF CliLists

LEMMA ClientDatas ==
  ASSUME FileInv, ClientInv, ReadData
  PROVE  ClientInv'
  <1>1. /\ line' = line + 1 /\ line \in Nat /\ file' = file /\ file \in Files
        /\ line <= Len(file) /\ Len(file) \in Nat
    BY Reading, Places DEF ReadData
  <1>2. cl' = IF cl.over THEN cl ELSE ClientData(cl, Row(line))
    BY DEF ReadData, Row
  <1>3. cl \in Clis /\ ClientFlags(cl, line) /\ ClientRead(cl, line)
    BY DEF ClientInv
  <1>4. ~cl.ready
    BY <1>1 DEF ClientInv
  <1>5. SUFFICES /\ cl' \in Clis /\ ClientFlags(cl', line + 1)
                 /\ ClientRead(cl', line + 1) /\ ~cl'.ready
    BY <1>1, SameFile DEF ClientInv, ClientFlags, ClientRead
  <1>6. /\ line # MasterAt /\ line # ServerAt /\ line # ConfigAt /\ line # ClientAt
        /\ line # RequestAt
    BY AtData
  <1>7. CASE cl' = cl /\ (cl.over \/ ~(cl.master \/ cl.server \/ cl.config \/ cl.client
                                        \/ cl.request))
    <2>1. ClientFlags(cl, line + 1)
      BY <1>1, <1>3, <1>6, <1>7, Places DEF ClientFlags
    <2>2. ClientRead(cl, line + 1)
      BY <1>1, <1>3, <1>6, <1>7, Places DEF ClientFlags, ClientRead
    <2> QED BY <1>3, <1>4, <1>7, <2>1, <2>2
  <1>8. CASE ~cl.over /\ cl.master
    <2>1. cl' = [cl EXCEPT !.master = FALSE]
      BY <1>2, <1>8 DEF ClientData
    <2>2. cl' \in Clis
      BY <1>3, <2>1 DEF Clis
    <2>3. /\ cl'.master = FALSE /\ cl'.server = cl.server /\ cl'.config = cl.config
          /\ cl'.client = cl.client /\ cl'.request = cl.request /\ cl'.over = cl.over
          /\ cl'.ready = cl.ready
          /\ cl'.settings = cl.settings /\ cl'.random = cl.random
      BY <1>3, <2>1 DEF Clis
    <2>4. line = MasterAt + 1
      BY <1>3, <1>8 DEF ClientFlags
    <2>5. ClientFlags(cl', line + 1)
      BY <1>1, <1>3, <1>6, <2>3, <2>4, Places DEF ClientFlags
    <2> QED BY <1>1, <1>3, <1>4, <2>2, <2>3, <2>4, <2>5, Places DEF ClientRead
  <1>9. CASE ~cl.over /\ ~cl.master /\ cl.server
    <2>1. cl' = [cl EXCEPT !.chain = Addserver(cl.chain, Row(line))]
      BY <1>2, <1>9 DEF ClientData
    <2>2. line \in (ServerAt + 1)..(ConfigAt - 1)
      BY <1>1, <1>3, <1>6, <1>9, Places DEF ClientFlags
    <2>3. cl.chain \in Chains
      BY <1>3 DEF Clis
    <2>4. Addserver(cl.chain, Row(line)) \in Chains
      BY <2>2, <2>3, AddserverType
    <2>5. cl' \in Clis
      BY <1>3, <2>1, <2>4 DEF Clis
    <2>6. /\ cl'.master = cl.master /\ cl'.server = cl.server /\ cl'.config = cl.config
          /\ cl'.client = cl.client /\ cl'.request = cl.request /\ cl'.over = cl.over
          /\ cl'.ready = cl.ready
          /\ cl'.settings = cl.settings /\ cl'.random = cl.random
      BY <1>3, <2>1 DEF Clis
    <2>7. ClientFlags(cl', line + 1)
      BY <1>1, <1>3, <1>6, <1>9, <2>2, <2>6, Places DEF ClientFlags
    <2> QED BY <1>1, <1>3, <1>4, <2>2, <2>5, <2>6, <2>7, Places DEF ClientRead
  <1>10. CASE ~cl.over /\ ~cl.master /\ ~cl.server /\ cl.config
    <2>1. cl' = [cl EXCEPT !.config = FALSE, !.settings = ParseConfig(Row(line))]
      BY <1>2, <1>10 DEF ClientData
    <2>2. line = ConfigAt + 1
      BY <1>3, <1>10 DEF ClientFlags
    <2>3. ParseConfig(Row(line)) \in [1..5 -> Nat]
      BY <1>1, <2>2, RowTypes, FieldType
    <2>4. cl' \in Clis
      BY <1>3, <2>1, <2>3 DEF Clis
    <2>5. /\ cl'.master = cl.master /\ cl'.server = cl.server /\ cl'.config = FALSE
          /\ cl'.client = cl.client /\ cl'.request = cl.request /\ cl'.over = cl.over
          /\ cl'.ready = cl.ready
          /\ cl'.settings = ParseConfig(Row(line)) /\ cl'.random = cl.random
      BY <1>3, <2>1 DEF Clis
    <2>6. ClientFlags(cl', line + 1)
      BY <1>1, <1>3, <1>6, <1>10, <2>2, <2>5, Places DEF ClientFlags
    <2> QED BY <1>1, <1>3, <1>4, <2>2, <2>4, <2>5, <2>6, Places DEF ClientRead
  <1>11. CASE ~cl.over /\ ~cl.master /\ ~cl.server /\ ~cl.config /\ cl.client
    <2>1. cl' = [cl EXCEPT !.clients = AddTo(cl.clients, Row(line)[1], InitCli(Row(line)))]
      BY <1>2, <1>11 DEF ClientData
    <2>2. line \in (ClientAt + 1)..(RequestAt - 1)
      BY <1>1, <1>3, <1>6, <1>11, Places DEF ClientFlags
    <2>3. cl.clients \in CliLists
      BY <1>3 DEF Clis
    <2>4. AddTo(cl.clients, Row(line)[1], InitCli(Row(line))) \in CliLists
      BY <1>1, <2>2, <2>3, InitCliType
    <2>5. cl' \in Clis
      BY <1>3, <2>1, <2>4 DEF Clis
    <2>6. /\ cl'.master = cl.master /\ cl'.server = cl.server /\ cl'.config = cl.config
          /\ cl'.client = cl.client /\ cl'.request = cl.request /\ cl'.over = cl.over
          /\ cl'.ready = cl.ready
          /\ cl'.settings = cl.settings /\ cl'.random = cl.random
      BY <1>3, <2>1 DEF Clis
    <2>7. ClientFlags(cl', line + 1)
      BY <1>1, <1>3, <1>6, <1>11, <2>2, <2>6, Places DEF ClientFlags
    <2> QED BY <1>1, <1>3, <1>4, <2>2, <2>5, <2>6, <2>7, Places DEF ClientRead
  <1>12. CASE /\ ~cl.over /\ ~cl.master /\ ~cl.server /\ ~cl.config /\ ~cl.client
              /\ cl.request
    <2>1. RequestAt < line
      BY <1>3, <1>12 DEF ClientFlags
    <2>2. cl.settings = ParseConfig(Row(ConfigAt + 1))
      BY <1>1, <1>3, <2>1, Places DEF ClientRead
    <2>3. RandomRequests(cl) <=> Random
      BY <2>2 DEF RandomRequests, Random, ParseConfig
    <2>4. CASE Random
      <3>1. cl' = [cl EXCEPT !.random = ParseRandomizedReq(Row(line)), !.over = TRUE]
        BY <1>2, <1>12, <2>3, <2>4 DEF ClientData
      <3>2. line = RequestAt + 1
        BY <1>1, <1>3, <1>12, <2>1, <2>4, Places DEF ClientFlags
      <3>3. ParseRandomizedReq(Row(line)) \in [1..6 -> Nat]
        BY <1>1, <2>4, <3>2, RowTypes, FieldType
      <3>4. cl' \in Clis
        BY <1>3, <3>1, <3>3 DEF Clis
      <3>5. /\ cl'.master = cl.master /\ cl'.server = cl.server /\ cl'.config = cl.config
            /\ cl'.client = cl.client /\ cl'.request = cl.request /\ cl'.over = TRUE
            /\ cl'.ready = cl.ready
            /\ cl'.settings = cl.settings /\ cl'.random = ParseRandomizedReq(Row(line))
        BY <1>3, <3>1 DEF Clis
      <3>6. ClientFlags(cl', line + 1)
        BY <1>1, <1>3, <1>6, <1>12, <2>4, <3>2, <3>5, Places DEF ClientFlags
      <3> QED BY <1>1, <1>3, <1>4, <3>2, <3>4, <3>5, <3>6, Places DEF ClientRead
    <2>5. CASE ~Random
      <3>1. cl' = [cl EXCEPT !.clients = Addrequest(cl.clients, ParseRequest(Row(line)))]
        BY <1>2, <1>12, <2>3, <2>5 DEF ClientData
      <3>2. ParseRequest(Row(line)) \in Request
        BY <1>1, <2>1, <2>5, Places, RequestType
      <3>3. Addrequest(cl.clients, ParseRequest(Row(line))) \in CliLists
        BY <1>3, <3>2, AddrequestType DEF Clis
      <3>4. cl' \in Clis
        BY <1>3, <3>1, <3>3 DEF Clis
      <3>5. /\ cl'.master = cl.master /\ cl'.server = cl.server /\ cl'.config = cl.config
            /\ cl'.client = cl.client /\ cl'.request = cl.request /\ cl'.over = cl.over
            /\ cl'.ready = cl.ready
            /\ cl'.settings = cl.settings /\ cl'.random = cl.random
        BY <1>3, <3>1 DEF Clis
      <3>6. ClientFlags(cl', line + 1)
        BY <1>1, <1>3, <1>6, <1>12, <2>1, <2>5, <3>5, Places DEF ClientFlags
      <3> QED BY <1>1, <1>3, <1>4, <2>1, <2>5, <3>4, <3>5, <3>6, Places DEF ClientRead
    <2> QED BY <2>4, <2>5
  <1>13. CASE /\ ~cl.over /\ ~cl.master /\ ~cl.server /\ ~cl.config /\ ~cl.client
              /\ ~cl.request
    BY <1>2, <1>7, <1>13 DEF ClientData
  <1>14. CASE cl.over
    BY <1>2, <1>7, <1>14
  <1> QED BY <1>8, <1>9, <1>10, <1>11, <1>12, <1>13, <1>14

\* The row with the numbers for random requests, as it is read.
LEMMA RandomRow ==
  ASSUME FileInv, Random, NEW q, q = ParseRandomizedReq(Row(RequestAt + 1))
  PROVE  /\ \A i \in 1..6 : q[i] \in Nat
         /\ q[3] + q[4] + q[5] + q[6] = 100
         /\ q[2] <= Len(draws)
  <1> DEFINE r == Row(RequestAt + 1)
  <1>1. /\ r \in Seq(Nat) /\ Len(r) = 6 /\ r[3] + r[4] + r[5] + r[6] = 100
        /\ r[2] <= Len(draws)
    BY RowTypes DEF FileInv
  <1>2. DOMAIN r = 1..6 /\ \A i \in 1..6 : r[i] \in Nat
    <2>1. r \in Seq(Nat) /\ Len(r) = 6
      BY <1>1
    <2> HIDE DEF r
    <2>2. DOMAIN r = 1..Len(r)
      BY <2>1
    <2>3. \A i \in 1..Len(r) : r[i] \in Nat
      BY <2>1, ElementOfSeq
    <2> QED BY <2>1, <2>2, <2>3
  <1>3. q = ParseRandomizedReq(r)
    OBVIOUS
  <1> HIDE DEF r
  <1>4. \A i \in 1..6 : q[i] = r[i] /\ r[i] \in Nat
    <2>1. \A i \in 1..6 : q[i] = Field(r, i)
      BY <1>3 DEF ParseRandomizedReq
    <2> QED BY <1>2, <2>1 DEF Field
  <1>5. q[2] = r[2] /\ q[3] = r[3] /\ q[4] = r[4] /\ q[5] = r[5] /\ q[6] = r[6]
    BY <1>4
  <1> QED BY <1>1, <1>4, <1>5

LEMMA GeneratedType ==
  ASSUME FileInv, Random, NEW q, q = ParseRandomizedReq(Row(RequestAt + 1)),
         NEW b \in Bank, NEW i \in Nat, NEW a \in Nat
  PROVE  Generated(q, b, i, a) \in Seq(Request)
  <1>1. q[2] \in Nat /\ q[2] <= Len(draws) /\ draws \in Seq(0..99) /\ b \in Nat
    <2>1. draws \in Seq(0..99) /\ b \in Nat
      BY SetupAssumption DEF FileInv
    <2>2. (\A j \in 1..6 : q[j] \in Nat) /\ q[2] <= Len(draws)
      BY RandomRow
    <2> QED BY <2>1, <2>2
  <1>2. \A k \in 1..q[2] : 10 * draws[k] \in Nat
    <2> SUFFICES ASSUME NEW k \in 1..q[2] PROVE 10 * draws[k] \in Nat
      OBVIOUS
    <2>1. k \in 1..Len(draws)
      BY <1>1
    <2>2. draws \in Seq(0..99)
      BY <1>1
    <2>3. draws[k] \in 0..99
      BY <2>1, <2>2, ElementOfSeq
    <2> QED BY <2>3
  <1> DEFINE req(k) == NewRequest(Drawn(q, draws[k]), b, i, k, a,
                                  IF Drawn(q, draws[k]) = Query THEN 0 ELSE 10 * draws[k])
  <1>3. \A k \in 1..q[2] : req(k) \in Request
    <2> SUFFICES ASSUME NEW k \in 1..q[2] PROVE req(k) \in Request
      OBVIOUS
    <2>1. Drawn(q, draws[k]) \in ReqType
      BY DEF Drawn, ReqType
    <2>2. (IF Drawn(q, draws[k]) = Query THEN 0 ELSE 10 * draws[k]) \in Nat
      BY <1>2
    <2>3. k \in Nat
      BY <1>1
    <2> QED BY <1>1, <2>1, <2>2, <2>3 DEF NewRequest, Request
  <1> HIDE DEF req
  <1>4. [k \in 1..q[2] |-> req(k)] \in Seq(Request)
    BY <1>1, <1>3
  <1> QED BY <1>4 DEF Generated, req

LEMMA ClientPrepares ==
  ASSUME FileInv, ClientInv, Prepare
  PROVE  ClientInv'
  <1>1. /\ line' = line /\ file' = file /\ file \in Files /\ draws' = draws
        /\ above' = above /\ line > Len(file) /\ line \in Nat
    BY Places DEF Prepare, FileInv
  <1>2. cl \in Clis /\ ClientFlags(cl, line) /\ ClientRead(cl, line)
    BY DEF ClientInv
  <1>3. RandomRequests(cl) <=> Random
    <2>1. cl.settings = ParseConfig(Row(ConfigAt + 1))
      BY <1>1, <1>2, Places DEF ClientRead
    <2> QED BY <2>1 DEF RandomRequests, Random, ParseConfig
  <1>4. SUFFICES /\ cl' \in Clis
                 /\ cl'.master = cl.master /\ cl'.server = cl.server
                 /\ cl'.config = cl.config /\ cl'.client = cl.client
                 /\ cl'.request = cl.request /\ cl'.over = cl.over
                 /\ cl'.settings = cl.settings /\ cl'.random = cl.random
                 /\ Random => \A b \in Bank : \A i \in DOMAIN cl'.clients[b] :
                       cl'.clients[b][i].reqs
                           = Generated(cl'.random, b, i, cl'.clients[b][i].acct)
    <2>1. ClientFlags(cl, line)' /\ ClientRead(cl, line)'
      BY <1>1, <1>2, <1>4, SameFile DEF ClientFlags, ClientRead
    <2>2. (cl.ready => line > Len(file))'
      BY <1>1
    <2>3. (Random => \A b \in Bank : \A i \in DOMAIN cl.clients[b] :
              cl.clients[b][i].reqs
                  = Generated(cl.random, b, i, cl.clients[b][i].acct))'
      <3>1. draws' = draws /\ above' = above
        BY <1>1
      <3>2. \A b, i : Generated(cl.random, b, i, cl.clients[b][i].acct)'
                       = Generated(cl'.random, b, i, cl'.clients[b][i].acct)
        BY <3>1 DEF Generated, Drawn, NewRequest
      <3> QED BY <1>1, <1>4, <3>2, SameFile
    <2> QED BY <1>4, <2>1, <2>2, <2>3 DEF ClientInv
  <1>5. CASE ~Random
    <2>1. cl' = [cl EXCEPT !.ready = TRUE]
      BY <1>3, <1>5 DEF Prepare
    <2> QED BY <1>2, <1>5, <2>1 DEF Clis
  <1>6. CASE Random
    <2> DEFINE lists == [b \in Bank |-> [i \in DOMAIN cl.clients[b] |->
                           GenerateRandomReq(cl.random, b, i, cl.clients[b][i])]]
    <2>1. cl' = [cl EXCEPT !.clients = lists, !.ready = TRUE]
      <3>1. cl' = [GenerateRanReq(cl) EXCEPT !.ready = TRUE]
        BY <1>3, <1>6 DEF Prepare
      <3>2. GenerateRanReq(cl) = [cl EXCEPT !.clients = lists]
        BY DEF GenerateRanReq
      <3> QED BY <3>1, <3>2
    <2>2. cl.random = ParseRandomizedReq(Row(RequestAt + 1))
      <3>1. RequestAt < Len(file)
        BY <1>1, <1>6, RowTypes
      <3> QED BY <1>1, <1>2, <1>6, <3>1, Places DEF ClientRead
    <2>3. \A b \in Bank : \A i \in DOMAIN cl.clients[b] :
             /\ i \in Nat /\ cl.clients[b][i] \in CliRec
             /\ lists[b][i] \in CliRec
             /\ lists[b][i].acct = cl.clients[b][i].acct
             /\ lists[b][i].reqs = Generated(cl.random, b, i, cl.clients[b][i].acct)
      <3> SUFFICES ASSUME NEW b \in Bank, NEW i \in DOMAIN cl.clients[b]
                   PROVE  /\ i \in Nat /\ cl.clients[b][i] \in CliRec
                          /\ lists[b][i] \in CliRec
                          /\ lists[b][i].acct = cl.clients[b][i].acct
                          /\ lists[b][i].reqs
                                = Generated(cl.random, b, i, cl.clients[b][i].acct)
        OBVIOUS
      <3>1. cl.clients[b] \in Seq(CliRec)
        BY <1>2 DEF Clis, CliLists
      <3>2. i \in Nat /\ cl.clients[b][i] \in CliRec
        BY <3>1
      <3>3. cl.clients[b][i].acct \in Nat
        BY <3>2 DEF CliRec
      <3>4. Generated(cl.random, b, i, cl.clients[b][i].acct) \in Seq(Request)
        BY <1>6, <2>2, <3>2, <3>3, GeneratedType
      <3>5. lists[b][i] = [cl.clients[b][i] EXCEPT
                !.reqs = Generated(cl.random, b, i, cl.clients[b][i].acct)]
        BY DEF GenerateRandomReq, Generated
      <3> HIDE DEF lists
      <3> QED BY <3>2, <3>4, <3>5 DEF CliRec
    <2>4. lists \in CliLists /\ \A b \in Bank : DOMAIN lists[b] = DOMAIN cl.clients[b]
      <3> SUFFICES ASSUME NEW b \in Bank
                   PROVE  lists[b] \in Seq(CliRec) /\ DOMAIN lists[b] = DOMAIN cl.clients[b]
        BY DEF CliLists
      <3>1. cl.clients[b] \in Seq(CliRec)
        BY <1>2 DEF Clis, CliLists
      <3>2. DOMAIN cl.clients[b] = 1..Len(cl.clients[b]) /\ Len(cl.clients[b]) \in Nat
        BY <3>1
      <3>3. DOMAIN lists[b] = DOMAIN cl.clients[b]
        OBVIOUS
      <3>4. lists[b] \in [1..Len(cl.clients[b]) -> CliRec]
        BY <2>3, <3>2
      <3> QED BY <3>2, <3>3, <3>4, SeqDef
    <2> HIDE DEF lists
    <2>5. cl' \in Clis
      BY <1>2, <2>1, <2>4 DEF Clis
    <2>6. /\ cl'.master = cl.master /\ cl'.server = cl.server
          /\ cl'.config = cl.config /\ cl'.client = cl.client
          /\ cl'.request = cl.request /\ cl'.over = cl.over
          /\ cl'.settings = cl.settings /\ cl'.random = cl.random
          /\ cl'.clients = lists
      BY <1>2, <2>1 DEF Clis
    <2>7. \A b \in Bank : \A i \in DOMAIN cl'.clients[b] :
             cl'.clients[b][i].reqs
                 = Generated(cl'.random, b, i, cl'.clients[b][i].acct)
      BY <2>3, <2>4, <2>6
    <2> QED BY <2>5, <2>6, <2>7
  <1> QED BY <1>5, <1>6
-----------------------------------------------------------------------------
(* The chains of master and client.                                        *)

\* A heading changes no chain.
LEMMA HeadingChains ==
  ASSUME NEW m \in Masters, NEW c \in Clis, NEW head \in Headings
  PROVE  MasterHeading(m, head).chain = m.chain /\ ClientHeading(c, head).chain = c.chain
  <1>1. CASE head = "//Master"
    <2>1. /\ MasterHeading(m, head) = [m EXCEPT !.master = TRUE]
          /\ ClientHeading(c, head) = [c EXCEPT !.master = TRUE]
      BY <1>1 DEF MasterHeading, ClientHeading
    <2> QED BY <2>1 DEF Masters, Clis
  <1>2. CASE head = "//Server"
    <2>1. /\ MasterHeading(m, head) = [m EXCEPT !.server = TRUE]
          /\ ClientHeading(c, head) = [c EXCEPT !.master = FALSE, !.server = TRUE]
      BY <1>2 DEF MasterHeading, ClientHeading
    <2> QED BY <2>1 DEF Masters, Clis
  <1>3. CASE head = "//Client "
    <2>1. /\ MasterHeading(m, head) = [m EXCEPT !.server = FALSE]
          /\ ClientHeading(c, head) = [c EXCEPT !.server = FALSE, !.config = TRUE]
      BY <1>3 DEF MasterHeading, ClientHeading
    <2> QED BY <2>1 DEF Masters, Clis
  <1>4. CASE head = "//Client:"
    <2>1. /\ MasterHeading(m, head) = [m EXCEPT !.client = TRUE]
          /\ ClientHeading(c, head) = [c EXCEPT !.client = TRUE]
      BY <1>4 DEF MasterHeading, ClientHeading
    <2> QED BY <2>1 DEF Masters, Clis
  <1>5. CASE head = "//Request"
    <2>1. /\ MasterHeading(m, head) = [m EXCEPT !.over = TRUE]
          /\ ClientHeading(c, head) = [c EXCEPT !.request = TRUE, !.client = FALSE]
      BY <1>5 DEF MasterHeading, ClientHeading
    <2> QED BY <2>1 DEF Masters, Clis
  <1> QED BY <1>1, <1>2, <1>3, <1>4, <1>5 DEF Headings

\* The line of a server adds to both chains what Addserver makes of it, and the
\* other lines add nothing (InitMS, main of the client).
LEMMA ChainStep ==
  ASSUME FileInv, MasterInv, ClientInv, [Next]_vars
  PROVE  \/ /\ line \in ServerLines /\ line' = line + 1
            /\ ms'.chain = Addserver(ms.chain, Row(line))
            /\ cl'.chain = Addserver(cl.chain, Row(line))
         \/ /\ line' = line \/ (line \notin ServerLines /\ line' = line + 1)
            /\ ms'.chain = ms.chain /\ cl'.chain = cl.chain
  <1>1. /\ ms \in Masters /\ MasterFlags(ms, line)
        /\ cl \in Clis /\ ClientFlags(cl, line) /\ file \in Files
    BY DEF MasterInv, ClientInv, FileInv
  <1>2. CASE ReadHeading
    <2>1. line \notin ServerLines /\ line' = line + 1
      <3>1. line' = line + 1
        BY <1>2, Reading
      <3>2. \/ line = MasterAt \/ line = ServerAt \/ line = ConfigAt \/ line = ClientAt
            \/ line = RequestAt
        BY <1>2, AtHeading
      <3> QED BY <1>1, <3>1, <3>2, Places DEF ServerLines
    <2>2. file[line].head \in Headings
      BY <1>2, AtHeading DEF Headings
    <2>3. /\ ms' = IF ms.over THEN ms ELSE MasterHeading(ms, file[line].head)
          /\ cl' = IF cl.over THEN cl ELSE ClientHeading(cl, file[line].head)
      BY <1>2 DEF ReadHeading
    <2>4. ms'.chain = ms.chain /\ cl'.chain = cl.chain
      BY <1>1, <2>2, <2>3, HeadingChains
    <2> QED BY <2>1, <2>4
  <1>3. CASE ReadData
    <2>1. line' = line + 1 /\ line \in Nat
      BY <1>3, Reading
    <2>2. line # ServerAt /\ line # ConfigAt
      BY <1>3, AtData
    <2>3. /\ ms' = IF ms.over THEN ms ELSE MasterData(ms, Row(line))
          /\ cl' = IF cl.over THEN cl ELSE ClientData(cl, Row(line))
      BY <1>3 DEF ReadData, Row
    <2>4. CASE line \in ServerLines
      <3>1. /\ ~ms.over /\ ~ms.master /\ ms.server /\ ~ms.client
        BY <1>1, <2>1, <2>4, Places DEF MasterFlags, ServerLines
      <3>2. ~cl.over /\ ~cl.master /\ cl.server
        BY <1>1, <2>1, <2>4, Places DEF ClientFlags, ServerLines
      <3>3. ms' = [ms EXCEPT !.chain = Addserver(ms.chain, Row(line)),
                             !.clients = ms.clients]
        BY <2>3, <3>1 DEF MasterData
      <3>4. cl' = [cl EXCEPT !.chain = Addserver(cl.chain, Row(line))]
        BY <2>3, <3>2 DEF ClientData
      <3>5. ms'.chain = Addserver(ms.chain, Row(line))
        BY <1>1, <3>3 DEF Masters
      <3>6. cl'.chain = Addserver(cl.chain, Row(line))
        BY <1>1, <3>4 DEF Clis
      <3> QED BY <2>1, <2>4, <3>5, <3>6
    <2>5. CASE line \notin ServerLines
      <3>1. ~ms.server /\ ~cl.server
        BY <1>1, <2>1, <2>2, <2>5, Places DEF MasterFlags, ClientFlags, ServerLines
      <3>2. ms'.chain = ms.chain
        BY <1>1, <2>3, <3>1 DEF MasterData, Masters
      <3>3. cl'.chain = cl.chain
        BY <1>1, <2>3, <3>1 DEF ClientData, Clis
      <3> QED BY <2>1, <2>5, <3>2, <3>3
    <2> QED BY <2>4, <2>5
  <1>4. CASE Prepare
    <2>1. /\ ms' = ms /\ line' = line
          /\ cl' = [(IF RandomRequests(cl) THEN GenerateRanReq(cl) ELSE cl)
                       EXCEPT !.ready = TRUE]
      BY <1>4 DEF Prepare
    <2>2. CASE RandomRequests(cl)
      <3>1. cl' = [GenerateRanReq(cl) EXCEPT !.ready = TRUE]
        BY <2>1, <2>2
      <3> DEFINE lists == [b \in Bank |-> [i \in DOMAIN cl.clients[b] |->
                             GenerateRandomReq(cl.random, b, i, cl.clients[b][i])]]
      <3>2. GenerateRanReq(cl) = [cl EXCEPT !.clients = lists]
        BY DEF GenerateRanReq
      <3> HIDE DEF lists
      <3>3. cl'.chain = cl.chain
        BY <1>1, <3>1, <3>2 DEF Clis
      <3> QED BY <2>1, <3>3
    <2>3. CASE ~RandomRequests(cl)
      <3>1. cl' = [cl EXCEPT !.ready = TRUE]
        BY <2>1, <2>3
      <3>2. cl'.chain = cl.chain
        BY <1>1, <3>1 DEF Clis
      <3> QED BY <2>1, <3>2
    <2> QED BY <2>2, <2>3
  <1>5. CASE UNCHANGED vars
    BY <1>5 DEF vars
  <1> QED BY <1>2, <1>3, <1>4, <1>5 DEF Next

LEMMA SameNext ==
  ASSUME FileInv, MasterInv, ClientInv, SameInv, [Next]_vars
  PROVE  SameInv'
  BY ChainStep DEF SameInv

\* The next server of a bank goes to the end of its chain.
LEMMA ChainAppend ==
  ASSUME file \in Files, NEW b \in Bank, NEW c \in Seq(Nat), NEW l \in ServerLines,
         ChainOf(c, b, l), Row(l)[1] = b, Row(l)[3] = 0
  PROVE  ChainOf(Append(c, Row(l)[2]), b, l + 1)
  <1> DEFINE d == Append(c, Row(l)[2])
  <1>1. Row(l)[2] \in Nat /\ l \in Nat
    BY RowFields, Places DEF ServerLines
  <1>2. /\ Len(c) \in Nat /\ DOMAIN c = 1..Len(c) /\ DOMAIN d = 1..(Len(c) + 1)
        /\ \A n \in 1..Len(c) : d[n] = c[n]
        /\ d[Len(c) + 1] = Row(l)[2]
    BY <1>1
  <1> HIDE DEF d
  <1>3. \A i, j \in ServerLines : Row(i)[2] = Row(j)[2] => i = j
    BY RowTypes DEF ServerLines
  <1>4. ServerLines \subseteq Nat
    BY Places DEF ServerLines
  <1>5. \A i \in ServerLines : Plain(i, b, l + 1) <=> Plain(i, b, l) \/ i = l
    BY <1>1, <1>4 DEF Plain
  <1>6. \A n \in DOMAIN d : \E i \in ServerLines : Plain(i, b, l + 1) /\ d[n] = Row(i)[2]
    <2> SUFFICES ASSUME NEW n \in DOMAIN d
                 PROVE  \E i \in ServerLines : Plain(i, b, l + 1) /\ d[n] = Row(i)[2]
      OBVIOUS
    <2>1. CASE n = Len(c) + 1
      BY <1>2, <1>5, <2>1
    <2>2. CASE n \in DOMAIN c
      <3>1. PICK i \in ServerLines : Plain(i, b, l) /\ c[n] = Row(i)[2]
        BY <2>2 DEF ChainOf
      <3>2. d[n] = c[n] /\ Plain(i, b, l + 1)
        BY <1>2, <1>5, <2>2, <3>1
      <3> QED BY <3>1, <3>2
    <2> QED BY <1>2, <2>1, <2>2
  <1>7. \A i \in ServerLines : Plain(i, b, l + 1) => \E n \in DOMAIN d : d[n] = Row(i)[2]
    <2> SUFFICES ASSUME NEW i \in ServerLines, Plain(i, b, l + 1)
                 PROVE  \E n \in DOMAIN d : d[n] = Row(i)[2]
      OBVIOUS
    <2>1. CASE i = l
      BY <1>2, <2>1
    <2>2. CASE Plain(i, b, l)
      <3>1. PICK n \in DOMAIN c : c[n] = Row(i)[2]
        BY <2>2 DEF ChainOf
      <3> QED BY <1>2, <3>1
    <2> QED BY <1>5, <2>1, <2>2
  <1>8. ASSUME NEW m \in DOMAIN d, NEW n \in DOMAIN d, m < n,
               NEW i \in ServerLines, NEW j \in ServerLines,
               d[m] = Row(i)[2], d[n] = Row(j)[2]
        PROVE  i < j
    <2>1. m \in DOMAIN c /\ d[m] = c[m]
      BY <1>2, <1>8
    <2>2. CASE n \in DOMAIN c
      <3>1. d[n] = c[n]
        BY <1>2, <2>2
      <3>2. c[m] = Row(i)[2] /\ c[n] = Row(j)[2]
        BY <1>8, <2>1, <3>1
      <3>3. \A x, y \in DOMAIN c : x < y =>
               \A v, w \in ServerLines : c[x] = Row(v)[2] /\ c[y] = Row(w)[2] => v < w
        BY DEF ChainOf
      <3>4. m \in DOMAIN c /\ m < n
        BY <1>8, <2>1
      <3> QED BY <2>2, <3>2, <3>3, <3>4, Zenon
    <2>3. CASE n = Len(c) + 1
      <3>1. j = l
        BY <1>2, <1>3, <1>8, <2>3
      <3>2. PICK h \in ServerLines : Plain(h, b, l) /\ c[m] = Row(h)[2]
        BY <2>1 DEF ChainOf
      <3>3. i = h
        BY <1>3, <1>8, <2>1, <3>2
      <3> QED BY <3>1, <3>2, <3>3 DEF Plain
    <2> QED BY <1>2, <2>2, <2>3
  <1>9. ChainOf(d, b, l + 1)
    BY <1>6, <1>7, <1>8 DEF ChainOf
  <1> QED BY <1>9 DEF d

\* The other lines leave it alone.
LEMMA ChainSkip ==
  ASSUME file \in Files, NEW b \in Bank, NEW c, NEW l \in Nat, ChainOf(c, b, l),
         l \notin ServerLines \/ Row(l)[1] # b \/ Row(l)[3] # 0
  PROVE  ChainOf(c, b, l + 1)
  <1>1. ServerLines \subseteq Nat
    BY Places DEF ServerLines
  <1>2. \A i \in ServerLines : Plain(i, b, l + 1) <=> Plain(i, b, l)
    BY <1>1 DEF Plain
  <1> QED BY <1>2 DEF ChainOf

LEMMA ChainNext ==
  ASSUME FileInv, MasterInv, ClientInv, ChainInv, [Next]_vars
  PROVE  ChainInv'
  <1>1. file' = file /\ file \in Files /\ line \in Nat /\ ms.chain \in Chains
    BY FileNext, Places DEF FileInv, MasterInv, Masters
  <1>2. SUFFICES ASSUME NEW b \in Bank PROVE ChainOf(ms'.chain[b], b, line')
    BY <1>1, SameFile DEF ChainInv, ChainOf, Plain
  <1>3. ChainOf(ms.chain[b], b, line) /\ ms.chain[b] \in Seq(Nat)
    BY <1>1 DEF ChainInv, Chains
  <1>4. CASE /\ line \in ServerLines /\ line' = line + 1
             /\ ms'.chain = Addserver(ms.chain, Row(line))
    <2>1. Addserver(ms.chain, Row(line))
             = IF Row(line)[3] = 0 THEN AddTo(ms.chain, Row(line)[1], Row(line)[2])
               ELSE ms.chain
      BY <1>1, <1>4, AddserverType DEF ServerLines
    <2>2. CASE Row(line)[3] = 0 /\ Row(line)[1] = b
      <3>1. ms'.chain[b] = Append(ms.chain[b], Row(line)[2])
        BY <1>1, <1>4, <2>1, <2>2 DEF AddTo, Chains
      <3> QED BY <1>1, <1>3, <1>4, <2>2, <3>1, ChainAppend
    <2>3. CASE Row(line)[3] # 0 \/ Row(line)[1] # b
      <3>1. ms'.chain[b] = ms.chain[b]
        BY <1>1, <1>4, <2>1, <2>3 DEF AddTo, Chains
      <3> QED BY <1>1, <1>3, <1>4, <2>3, <3>1, ChainSkip
    <2> QED BY <2>2, <2>3
  <1>5. CASE ms'.chain = ms.chain /\ line \notin ServerLines /\ line' = line + 1
    BY <1>1, <1>3, <1>5, ChainSkip
  <1>6. CASE ms'.chain = ms.chain /\ line' = line
    BY <1>3, <1>6
  <1> QED BY <1>4, <1>5, <1>6, ChainStep

-----------------------------------------------------------------------------
(* The servers.                                                            *)

LEMMA OwnLine ==
  ASSUME file \in Files, NEW k \in Started
  PROVE  k \in Nat /\ k >= 1 /\ Own(k) \in Nat /\ Own(k) > ServerAt
  <1>1. k \in Nat /\ k # 0
    BY SetupAssumption
  <1> QED BY <1>1, Places DEF Own

LEMMA NextOfType ==
  ASSUME file \in Files, NEW s, NEW i \in ServerLines
  PROVE  NextOf(s, Row(i)) \in Nat \cup {NoServer}
  <1>1. Row(i)[2] \in Nat
    BY RowFields DEF ServerLines
  <1> QED BY <1>1 DEF NextOf

LEMMA ServerHeads ==
  ASSUME FileInv, ServersInv, ReadHeading
  PROVE  ServersInv'
  <1>1. /\ line' = line + 1 /\ line \in Nat /\ file' = file /\ file \in Files
    BY Reading
  <1>2. srv' = [k \in Started |->
                  IF srv[k].over THEN srv[k] ELSE ServerHeading(srv[k], file[line].head)]
    BY DEF ReadHeading
  <1>3. SUFFICES ASSUME NEW k \in Started
                 PROVE  /\ srv'[k] \in Servs /\ ServerFlags(srv'[k], k, line + 1)
                        /\ ServerKnows(srv'[k], k, line + 1)
    BY <1>1, <1>2, SameFile DEF ServersInv, ServerFlags, ServerKnows, Found, Passed
  <1> DEFINE s == srv[k]
             t == srv'[k]
  <1>4. /\ s \in Servs /\ ServerFlags(s, k, line) /\ ServerKnows(s, k, line)
    BY DEF ServersInv
  <1>5. t = IF s.over THEN s ELSE ServerHeading(s, file[line].head)
    BY <1>2
  <1> HIDE DEF s, t
  <1>6. \/ line = MasterAt \/ line = ServerAt \/ line = ConfigAt \/ line = ClientAt
        \/ line = RequestAt
    BY AtHeading
  <1>7. (Found(k, line + 1) <=> Found(k, line)) /\ (Passed(k, line + 1) <=> Passed(k, line))
    BY <1>1, <1>6, OwnLine, Places DEF Found, Passed
  <1>8. CASE s.over
    <2>1. t = s
      BY <1>5, <1>8
    <2>2. ConfigAt < line \/ Passed(k, line)
      BY <1>1, <1>4, <1>8, Places DEF ServerFlags
    <2>3. ServerFlags(t, k, line + 1)
      BY <1>1, <1>4, <1>7, <1>8, <2>1, <2>2, OwnLine, Places DEF ServerFlags, Passed
    <2>4. ServerKnows(t, k, line + 1)
      BY <1>4, <1>7, <2>1 DEF ServerKnows
    <2> QED BY <1>4, <2>1, <2>3, <2>4 DEF t
  <1>9. CASE ~s.over /\ line = MasterAt
    <2>1. file[line].head = "//Master"
      BY <1>1, <1>9, Layout DEF Headings, MasterAt
    <2>2. t = [s EXCEPT !.master = TRUE]
      BY <1>5, <1>9, <2>1 DEF ServerHeading
    <2>3. t \in Servs
      BY <1>4, <2>2 DEF Servs
    <2>4. /\ t.master = TRUE /\ t.server = s.server /\ t.after = s.after /\ t.over = s.over
          /\ t.i = s.i /\ t.bank = s.bank /\ t.port = s.port
          /\ t.next = s.next
      BY <1>4, <2>2 DEF Servs
    <2>5. ServerFlags(t, k, line + 1)
      BY <1>1, <1>4, <1>7, <1>9, <2>4, OwnLine, Places DEF ServerFlags
    <2>6. ServerKnows(t, k, line + 1)
      BY <1>4, <1>7, <2>4 DEF ServerKnows, NextOf
    <2> QED BY <2>3, <2>5, <2>6 DEF t
  <1>10. CASE ~s.over /\ line = ServerAt
    <2>1. file[line].head = "//Server"
      BY <1>1, <1>10, Layout DEF Headings, ServerAt
    <2>2. t = [s EXCEPT !.server = TRUE]
      BY <1>5, <1>10, <2>1 DEF ServerHeading
    <2>3. t \in Servs
      BY <1>4, <2>2 DEF Servs
    <2>4. /\ t.master = s.master /\ t.server = TRUE /\ t.after = s.after /\ t.over = s.over
          /\ t.i = s.i /\ t.bank = s.bank /\ t.port = s.port
          /\ t.next = s.next
      BY <1>4, <2>2 DEF Servs
    <2>5. ServerFlags(t, k, line + 1)
      BY <1>1, <1>4, <1>7, <1>10, <2>4, OwnLine, Places DEF ServerFlags
    <2>6. ServerKnows(t, k, line + 1)
      BY <1>4, <1>7, <2>4 DEF ServerKnows, NextOf
    <2> QED BY <2>3, <2>5, <2>6 DEF t
  <1>11. CASE ~s.over /\ line # MasterAt /\ line # ServerAt
    <2>1. line = ConfigAt
      BY <1>1, <1>4, <1>6, <1>11, Places DEF ServerFlags
    <2>2. file[line].head = "//Client "
      BY <1>1, <2>1, Layout DEF Headings, ConfigAt
    <2>3. t = [s EXCEPT !.over = TRUE]
      BY <1>5, <1>11, <2>2 DEF ServerHeading
    <2>4. t \in Servs
      BY <1>4, <2>3 DEF Servs
    <2>5. /\ t.master = s.master /\ t.server = s.server /\ t.after = s.after /\ t.over = TRUE
          /\ t.i = s.i /\ t.bank = s.bank /\ t.port = s.port
          /\ t.next = s.next
      BY <1>4, <2>3 DEF Servs
    <2>6. ServerFlags(t, k, line + 1)
      BY <1>1, <1>4, <1>7, <2>1, <2>5, OwnLine, Places DEF ServerFlags
    <2>7. ServerKnows(t, k, line + 1)
      BY <1>4, <1>7, <2>5 DEF ServerKnows, NextOf
    <2> QED BY <2>4, <2>6, <2>7 DEF t
  <1> QED BY <1>4, <1>8, <1>9, <1>10, <1>11 DEF t

LEMMA ServerDatas ==
  ASSUME FileInv, ServersInv, ReadData
  PROVE  ServersInv'
  <1>1. /\ line' = line + 1 /\ line \in Nat /\ file' = file /\ file \in Files
    BY Reading
  <1>2. srv' = [k \in Started |->
                  IF srv[k].over THEN srv[k] ELSE ServerData(k, srv[k], Row(line))]
    BY DEF ReadData, Row
  <1>3. SUFFICES ASSUME NEW k \in Started
                 PROVE  /\ srv'[k] \in Servs /\ ServerFlags(srv'[k], k, line + 1)
                        /\ ServerKnows(srv'[k], k, line + 1)
    BY <1>1, <1>2, SameFile DEF ServersInv, ServerFlags, ServerKnows, Found, Passed
  <1> DEFINE s == srv[k]
             t == srv'[k]
  <1>4. /\ s \in Servs /\ ServerFlags(s, k, line) /\ ServerKnows(s, k, line)
    BY DEF ServersInv
  <1>5. t = IF s.over THEN s ELSE ServerData(k, s, Row(line))
    BY <1>2
  <1> HIDE DEF s, t
  <1>6. /\ line # MasterAt /\ line # ServerAt /\ line # ConfigAt /\ line # ClientAt
        /\ line # RequestAt
    BY AtData
  <1>7. CASE s.over
    <2>1. t = s
      BY <1>5, <1>7
    <2>2. ConfigAt < line \/ Passed(k, line)
      BY <1>4, <1>7 DEF ServerFlags
    <2>3. ServerFlags(t, k, line + 1)
      BY <1>1, <1>4, <1>6, <1>7, <2>1, <2>2, OwnLine, Places DEF ServerFlags, Passed
    <2>4. /\ Found(k, line + 1) <=> Found(k, line)
          /\ Passed(k, line + 1) <=> Passed(k, line)
      BY <1>1, <2>2, OwnLine, Places DEF Found, Passed
    <2>5. ServerKnows(t, k, line + 1)
      BY <1>4, <2>1, <2>4 DEF ServerKnows
    <2> QED BY <1>4, <2>1, <2>3, <2>5 DEF t
  <1>8. CASE ~s.over /\ s.master
    <2>1. t = [s EXCEPT !.master = FALSE]
      BY <1>5, <1>8 DEF ServerData
    <2>2. line = MasterAt + 1
      BY <1>4, <1>8 DEF ServerFlags
    <2>3. t \in Servs
      BY <1>4, <2>1 DEF Servs
    <2>4. /\ t.master = FALSE /\ t.server = s.server /\ t.after = s.after /\ t.over = s.over
          /\ t.i = s.i /\ t.bank = s.bank /\ t.port = s.port
          /\ t.next = s.next
      BY <1>4, <2>1 DEF Servs
    <2>5. /\ ~Found(k, line + 1) /\ ~Found(k, line)
          /\ ~Passed(k, line + 1) /\ ~Passed(k, line)
      BY <1>1, <2>2, OwnLine, Places DEF Found, Passed
    <2>6. ServerFlags(t, k, line + 1)
      BY <1>1, <1>4, <2>2, <2>4, <2>5, OwnLine, Places DEF ServerFlags
    <2>7. ServerKnows(t, k, line + 1)
      BY <1>4, <2>4, <2>5 DEF ServerKnows
    <2> QED BY <2>3, <2>6, <2>7 DEF t
  <1>9. CASE ~s.over /\ ~s.master
    <2>1. line < ConfigAt /\ ~Passed(k, line)
      BY <1>1, <1>4, <1>6, <1>9, Places DEF ServerFlags
    <2>2. line <= Own(k) + 1
      BY <1>1, <2>1, OwnLine, Places DEF Passed
    <2>3. /\ s.server <=> ServerAt < line /\ line <= Own(k)
          /\ line <= ServerAt => s.i = 0
          /\ (ServerAt < line /\ line <= Own(k)) => s.i = line - 1 - ServerAt
          /\ s.i \in Nat /\ s.i <= k
      BY <1>4, <1>9 DEF ServerFlags, Servs
    <2>4. (s.server /\ s.i + 1 = k) <=> line = Own(k)
      <3>1. Own(k) = ServerAt + k /\ k \in Nat /\ k >= 1 /\ ServerAt \in Nat
        BY <1>1, OwnLine, Places DEF Own
      <3>2. CASE line = Own(k)
        <4>1. ServerAt < line /\ line <= Own(k)
          BY <3>1, <3>2
        <4>2. s.server /\ s.i = line - 1 - ServerAt
          BY <2>3, <4>1
        <4> QED BY <3>1, <3>2, <4>2
      <3>3. CASE line # Own(k)
        <4> SUFFICES ASSUME s.server PROVE s.i + 1 # k
          BY <3>3
        <4>1. s.i = line - 1 - ServerAt
          BY <2>3
        <4> QED BY <1>1, <3>1, <3>3, <4>1
      <3> QED BY <3>2, <3>3
    <2>5. s.after <=> line = Own(k) + 1
      BY <1>4, <1>9 DEF ServerFlags
    <2>6. line # MasterAt + 1
      BY <1>4, <1>9 DEF ServerFlags
    <2>7. CASE line = Own(k)
      <3> DEFINE f == Row(line)
      <3>1. t = [s EXCEPT !.i = k, !.server = FALSE, !.after = TRUE, !.bank = f[1],
                          !.port = f[2], !.delay = f[3]]
        BY <1>5, <1>9, <2>4, <2>7 DEF ServerData, InitServ
      <3>2. f[1] \in Bank /\ f[2] \in Nat /\ f[3] \in Nat
        <4>1. line \in (ServerAt + 1)..(ConfigAt - 1)
          BY <1>1, <2>1, <2>7, OwnLine, Places
        <4> QED BY <1>1, <4>1, RowFields
      <3>3. f = Row(Own(k)) /\ k \in Nat
        BY <2>7, OwnLine, <1>1
      <3> HIDE DEF f
      <3>4. t \in Servs
        BY <1>4, <3>1, <3>2, <3>3 DEF Servs
      <3>5. /\ t.master = s.master /\ t.server = FALSE /\ t.after = TRUE /\ t.over = s.over
            /\ t.i = k /\ t.bank = f[1] /\ t.port = f[2]
            /\ t.next = s.next
        BY <1>4, <3>1 DEF Servs
      <3>6. Found(k, line + 1) /\ ~Passed(k, line + 1)
        BY <1>1, <2>1, <2>7, OwnLine, Places DEF Found, Passed
      <3>7. ServerFlags(t, k, line + 1)
        BY <1>1, <1>4, <1>9, <2>1, <2>6, <2>7, <3>3, <3>5, <3>6, OwnLine, Places
           DEF ServerFlags
      <3>8. ServerKnows(t, k, line + 1)
        BY <1>4, <2>1, <3>3, <3>5, <3>6 DEF ServerKnows
      <3> QED BY <3>4, <3>7, <3>8 DEF t
    <2>8. CASE line = Own(k) + 1
      <3>1. t = [s EXCEPT !.next = NextOf(s, Row(line)), !.over = TRUE]
        BY <1>1, <1>5, <1>9, <2>4, <2>5, <2>8, OwnLine DEF ServerData
      <3>2. line \in ServerLines
        BY <1>1, <2>1, <2>8, OwnLine, Places DEF ServerLines
      <3>3. NextOf(s, Row(line)) \in Nat \cup {NoServer}
        BY <1>1, <3>2, NextOfType
      <3>4. t \in Servs
        BY <1>4, <3>1, <3>3 DEF Servs
      <3>5. /\ t.master = s.master /\ t.server = s.server /\ t.after = s.after /\ t.over = TRUE
            /\ t.i = s.i /\ t.bank = s.bank /\ t.port = s.port
            /\ t.next = NextOf(s, Row(line))
        BY <1>4, <3>1 DEF Servs
      <3>6. Found(k, line) /\ Found(k, line + 1) /\ Passed(k, line + 1)
        BY <1>1, <2>1, <2>8, OwnLine, Places DEF Found, Passed
      <3>7. ServerFlags(t, k, line + 1)
        <4>1. t.over /\ ~t.master /\ t.i <= k
          BY <1>9, <2>3, <3>5
        <4>2. line + 1 # MasterAt + 1
          BY <1>1, <1>6, Places
        <4> QED BY <3>6, <4>1, <4>2 DEF ServerFlags
      <3>8. NextOf(t, Row(Own(k) + 1)) = NextOf(s, Row(line))
        BY <2>8, <3>5 DEF NextOf
      <3>9. ServerKnows(t, k, line + 1)
        BY <1>4, <3>5, <3>6, <3>8 DEF ServerKnows
      <3> QED BY <3>4, <3>7, <3>9 DEF t
    <2>9. CASE line < Own(k)
      <3>1. t = [s EXCEPT !.i = IF s.server THEN s.i + 1 ELSE s.i]
        BY <1>1, <1>5, <1>9, <2>4, <2>5, <2>9, OwnLine DEF ServerData
      <3>2. t \in Servs
        BY <1>4, <2>3, <3>1 DEF Servs
      <3>3. /\ t.master = s.master /\ t.server = s.server /\ t.after = s.after /\ t.over = s.over
            /\ t.i = (IF s.server THEN s.i + 1 ELSE s.i) /\ t.bank = s.bank /\ t.port = s.port
            /\ t.next = s.next
        BY <1>4, <3>1 DEF Servs
      <3>4. /\ ~Found(k, line) /\ ~Found(k, line + 1)
            /\ ~Passed(k, line) /\ ~Passed(k, line + 1)
        BY <1>1, <2>9, OwnLine, Places DEF Found, Passed
      <3>5. s.server <=> ServerAt < line
        BY <1>1, <1>4, <1>9, <2>9, OwnLine, Places DEF ServerFlags
      <3>6. t.i = IF ServerAt < line THEN line - ServerAt ELSE 0
        BY <1>1, <1>6, <2>3, <2>9, <3>3, <3>5, OwnLine, Places
      <3>7. ServerFlags(t, k, line + 1)
        <4>1. ~t.over /\ ~t.master /\ t.after = s.after /\ t.server = s.server
          BY <1>9, <3>3
        <4>2. t.server <=> ServerAt < line + 1 /\ line + 1 <= Own(k)
          BY <1>1, <1>6, <2>9, <3>5, <4>1, OwnLine, Places
        <4>3. ~t.after /\ line + 1 # Own(k) + 1 /\ line + 1 # MasterAt + 1
          BY <1>1, <1>6, <2>5, <2>9, <4>1, OwnLine, Places
        <4>4. /\ line + 1 <= ServerAt => t.i = 0
              /\ (ServerAt < line + 1 /\ line + 1 <= Own(k)) => t.i = line + 1 - 1 - ServerAt
              /\ t.i <= k
          <5>1. Own(k) = ServerAt + k /\ k \in Nat /\ k >= 1 /\ ServerAt \in Nat
            BY <1>1, OwnLine, Places DEF Own
          <5>2. CASE ServerAt < line
            BY <1>1, <2>9, <3>6, <5>1, <5>2
          <5>3. CASE line < ServerAt
            BY <1>1, <2>9, <3>6, <5>1, <5>3
          <5> QED BY <1>1, <1>6, <5>1, <5>2, <5>3
        <4>5. ~(ConfigAt < line + 1)
          BY <1>1, <2>1, Places
        <4>6. /\ t.over <=> ConfigAt < line + 1 \/ Passed(k, line + 1)
              /\ t.master <=> line + 1 = MasterAt + 1
              /\ t.after <=> line + 1 = Own(k) + 1
          BY <3>4, <4>1, <4>3, <4>5
        <4>7. /\ t.i \in Nat /\ t.over \in BOOLEAN /\ t.master \in BOOLEAN
              /\ t.server \in BOOLEAN /\ t.after \in BOOLEAN
              /\ ServerAt \in Nat /\ Own(k) \in Nat /\ k \in Nat
          BY <1>1, <3>2, OwnLine, Places DEF Servs
        <4> QED BY <1>1, <4>2, <4>4, <4>6, <4>7 DEF ServerFlags
      <3>8. ServerKnows(t, k, line + 1)
        BY <1>4, <3>3, <3>4 DEF ServerKnows
      <3> QED BY <3>2, <3>7, <3>8 DEF t
    <2> QED BY <1>1, <2>2, <2>7, <2>8, <2>9, OwnLine
  <1> QED BY <1>7, <1>8, <1>9

LEMMA ServersNext ==
  ASSUME FileInv, ServersInv, [Next]_vars
  PROVE  ServersInv'
  <1>1. CASE UNCHANGED <<file, line, srv>>
    BY <1>1, SameFile DEF ServersInv, ServerFlags, ServerKnows, Found, Passed
  <1> QED BY <1>1, ServerHeads, ServerDatas DEF Next, Prepare, vars
-----------------------------------------------------------------------------
(* The invariant.                                                          *)

LEMMA SetupInit ==
  ASSUME Init
  PROVE  SetupInv
  <1>1. /\ file \in Files /\ draws \in Draws /\ above \subseteq {Deposit, Withdraw}
        /\ line = 1
    BY DEF Init
  <1>2. FileInv
    BY <1>1, Places DEF FileInv
  <1>3. Empty \in Chains /\ Empty \in CliLists /\ \A b \in Bank : Empty[b] = <<>>
    BY DEF Empty, Chains, CliLists
  <1>4. MasterInv
    <2>1. ms = [master |-> FALSE, server |-> FALSE, client |-> FALSE, over |-> FALSE,
                chain |-> Empty, clients |-> Empty]
      BY DEF Init
    <2>2. ms \in Masters
      BY <1>3, <2>1 DEF Masters
    <2> QED BY <1>1, <2>1, <2>2, Places DEF MasterInv, MasterFlags
  <1>5. ClientInv
    <2>1. cl = [master |-> FALSE, server |-> FALSE, config |-> FALSE, client |-> FALSE,
                request |-> FALSE, over |-> FALSE, ready |-> FALSE,
                settings |-> ParseConfig(<<>>), random |-> ParseRandomizedReq(<<>>),
                chain |-> Empty, clients |-> Empty]
      BY DEF Init
    <2>2. ParseConfig(<<>>) \in [1..5 -> Nat] /\ ParseRandomizedReq(<<>>) \in [1..6 -> Nat]
      <3>1. <<>> \in Seq(Nat)
        OBVIOUS
      <3> QED BY <3>1, FieldType
    <2>3. cl \in Clis
      BY <1>3, <2>1, <2>2 DEF Clis
    <2>4. ClientFlags(cl, line) /\ ClientRead(cl, line)
      BY <1>1, <2>1, Places DEF ClientFlags, ClientRead
    <2> QED BY <2>1, <2>3, <2>4 DEF ClientInv
  <1>6. SameInv
    BY DEF Init, SameInv
  <1>7. ChainInv
    <2> SUFFICES ASSUME NEW b \in Bank PROVE ChainOf(ms.chain[b], b, line)
      BY DEF ChainInv
    <2>1. ms.chain[b] = <<>>
      BY <1>3 DEF Init
    <2>2. \A i \in ServerLines : ~Plain(i, b, line)
      BY <1>1, Places DEF Plain, ServerLines
    <2> QED BY <2>1, <2>2 DEF ChainOf
  <1>8. ServersInv
    <2>1. srv = [k \in Started |->
                   [master |-> FALSE, server |-> FALSE, after |-> FALSE, over |-> FALSE,
                    i |-> 0, bank |-> 0, port |-> NoServer, delay |-> 0,
                    next |-> NoServer]]
      BY DEF Init
    <2>2. srv \in [Started -> Servs]
      BY <2>1 DEF Servs
    <2>3. ASSUME NEW k \in Started
          PROVE  ServerFlags(srv[k], k, line) /\ ServerKnows(srv[k], k, line)
      <3>1. ~Found(k, line) /\ ~Passed(k, line)
        BY <1>1, OwnLine, Places DEF Found, Passed
      <3>2. ServerFlags(srv[k], k, line)
        BY <1>1, <2>1, <3>1, OwnLine, Places DEF ServerFlags
      <3>3. ServerKnows(srv[k], k, line)
        BY <2>1, <3>1 DEF ServerKnows
      <3> QED BY <3>2, <3>3
    <2> QED BY <2>2, <2>3 DEF ServersInv
  <1> QED BY <1>2, <1>4, <1>5, <1>6, <1>7, <1>8 DEF SetupInv

LEMMA SetupNext ==
  ASSUME SetupInv, [Next]_vars
  PROVE  SetupInv'
  <1> USE DEF SetupInv
  <1>1. FileInv' /\ SameInv' /\ ChainInv' /\ ServersInv'
    BY FileNext, SameNext, ChainNext, ServersNext
  <1>2. CASE ReadHeading
    BY <1>1, <1>2, MasterHeads, ClientHeads
  <1>3. CASE ReadData
    BY <1>1, <1>3, MasterDatas, ClientDatas
  <1>4. CASE Prepare
    <2>1. MasterInv'
      BY <1>4, SameFile DEF Prepare, MasterInv, MasterFlags
    <2> QED BY <1>1, <1>4, <2>1, ClientPrepares
  <1>5. CASE UNCHANGED vars
    <2>1. MasterInv'
      BY <1>5, SameFile DEF vars, MasterInv, MasterFlags
    <2>2. ClientInv'
      <3>1. file' = file /\ line' = line /\ cl' = cl /\ draws' = draws /\ above' = above
        BY <1>5 DEF vars
      <3>2. \A b, i : Generated(cl.random, b, i, cl.clients[b][i].acct)'
                       = Generated(cl.random, b, i, cl.clients[b][i].acct)
        BY <3>1 DEF Generated, Drawn, NewRequest
      <3>3. ClientFlags(cl, line)' /\ ClientRead(cl, line)'
        BY <3>1, SameFile DEF ClientInv, ClientFlags, ClientRead
      <3>4. Random' = Random
        BY <3>1, SameFile
      <3> QED BY <3>1, <3>2, <3>3, <3>4 DEF ClientInv
    <2> QED BY <1>1, <2>1, <2>2
  <1> QED BY <1>2, <1>3, <1>4, <1>5 DEF Next

\* Before every line the flags of each program say where it is in the file, and
\* what it has read is what the lines above contain (InitMS, main of the server,
\* main of the client).
THEOREM SetupAlways == Spec => []SetupInv
  BY SetupInit, SetupNext, PTL DEF Spec

\* Every variable of the programs keeps its type (InitMS, main of the server,
\* main of the client): what the readers count and store of any file of the right
\* form are numbers, chains of ports, and requests.
THEOREM TypeCorrect == Spec => []TypeOK
  <1>1. SetupInv => TypeOK
    <2> SUFFICES ASSUME SetupInv PROVE TypeOK
      OBVIOUS
    <2>1. ms.chain \in Chains /\ ms.clients \in Chains
      BY DEF SetupInv, MasterInv, Masters
    <2>2. /\ cl.settings \in [1..5 -> Nat] /\ cl.chain \in Chains
          /\ cl.clients \in CliLists
      BY DEF SetupInv, ClientInv, Clis
    <2>3. \A k \in Started : /\ srv[k].i \in 0..k /\ srv[k].bank \in Bank \cup {0}
                             /\ srv[k].next \in Nat \cup {NoServer}
      <3> SUFFICES ASSUME NEW k \in Started
                   PROVE  /\ srv[k].i \in 0..k /\ srv[k].bank \in Bank \cup {0}
                          /\ srv[k].next \in Nat \cup {NoServer}
        OBVIOUS
      <3>1. srv[k] \in Servs /\ srv[k].i <= k
        BY DEF SetupInv, ServersInv, ServerFlags
      <3>2. k \in Nat
        BY SetupAssumption
      <3> QED BY <3>1, <3>2 DEF Servs
    <2> QED BY <2>1, <2>2, <2>3 DEF TypeOK, SetupInv, FileInv, Chains, CliLists, CliRec
  <1> QED BY <1>1, SetupAlways, PTL

\* Client and master start from the same chains (InitMS, main of the client):
\* their loops have different flags, but both are in the section of the servers
\* at the same lines.
THEOREM ChainsSame == Spec => []SameChain
  <1>1. SetupInv => SameChain
    BY DEF SetupInv, SameInv, SameChain
  <1> QED BY <1>1, SetupAlways, PTL

-----------------------------------------------------------------------------
(* The links.                                                              *)

\* The section of the servers are the lines of the servers.
LEMMA ServerSection ==
  ASSUME file \in Files
  PROVE  ServerRows = [n \in 1..(ConfigAt - 1 - ServerAt) |-> Row(ServerAt + n)]
  <1> DEFINE rows == {j \in (ServerAt + 1)..Len(file) :
                        \A n \in (ServerAt + 1)..j : file[n].head = ""}
  <1>1. ConfigAt \in (ServerAt + 1)..Len(file) /\ file[ConfigAt].head # ""
    <2>1. file[ConfigAt].head = "//Client "
      BY Layout DEF Headings, ConfigAt
    <2>2. file[ConfigAt].head # ""
      BY <2>1, Zenon
    <2>3. ConfigAt \in (ServerAt + 1)..Len(file)
      BY Places
    <2> QED BY <2>2, <2>3
  <1>2. \A n \in ServerLines : file[n].head = ""
    <2> SUFFICES ASSUME NEW n \in ServerLines PROVE file[n].head = ""
      OBVIOUS
    <2>1. /\ n # MasterAt /\ n # ServerAt /\ n # ConfigAt /\ n # ClientAt /\ n # RequestAt
          /\ n \in Lines
      BY Places DEF ServerLines, Lines
    <2> QED BY <2>1, Layout
  <1>3. rows = ServerLines
    <2>1. ASSUME NEW j \in rows PROVE j \in ServerLines
      <3>1. j \in (ServerAt + 1)..Len(file) /\ ConfigAt \notin (ServerAt + 1)..j
        BY <1>1
      <3> HIDE DEF rows
      <3>2. j \in Nat /\ ServerAt + 1 <= j /\ j < ConfigAt
        BY <3>1, Places
      <3> QED BY <3>2, Places DEF ServerLines
    <2>2. ASSUME NEW j \in ServerLines PROVE j \in rows
      <3>1. \A n \in (ServerAt + 1)..j : n \in ServerLines
        BY Places DEF ServerLines
      <3>2. j \in (ServerAt + 1)..Len(file)
        BY Places DEF ServerLines
      <3> QED BY <1>2, <3>1, <3>2
    <2> QED BY <2>1, <2>2
  <1>4. Cardinality(ServerLines) = ConfigAt - 1 - ServerAt
    <2>1. /\ ServerAt + 1 \in Int /\ ConfigAt - 1 \in Int
          /\ ServerAt \in Nat /\ ConfigAt \in Nat /\ ServerAt < ConfigAt
      BY Places
    <2>2. Cardinality((ServerAt + 1)..(ConfigAt - 1))
             = IF ServerAt + 1 > ConfigAt - 1 THEN 0
               ELSE (ConfigAt - 1) - (ServerAt + 1) + 1
      BY <2>1, FS_Interval
    <2> QED BY <2>1, <2>2 DEF ServerLines
  <1>5. ServerRows = [n \in 1..Cardinality(rows) |-> file[ServerAt + n].f]
    BY DEF ServerRows, Section, ServerAt
  <1> HIDE DEF rows
  <1> QED BY <1>3, <1>4, <1>5 DEF Row

\* What InOrder says of the lines.
LEMMA OrderedLines ==
  ASSUME file \in Files, InOrder
  PROVE  /\ \A x, y \in ServerLines : x < y /\ Row(x)[1] = Row(y)[1] =>
               /\ \A n \in x..y : Row(n)[1] = Row(x)[1]
               /\ Row(x)[3] # 0 => Row(y)[3] # 0
         /\ \A x \in ServerLines : Row(x)[1] < 10
  <1> DEFINE top == ConfigAt - 1 - ServerAt
  <1>1. DOMAIN ServerRows = 1..top /\ \A n \in 1..top : ServerRows[n] = Row(ServerAt + n)
    BY ServerSection
  <1>2. \A x \in ServerLines : x \in Nat /\ x - ServerAt \in 1..top
                               /\ ServerRows[x - ServerAt] = Row(x)
    <2> SUFFICES ASSUME NEW x \in ServerLines
                 PROVE  x \in Nat /\ x - ServerAt \in 1..top
                        /\ ServerRows[x - ServerAt] = Row(x)
      OBVIOUS
    <2>1. x \in Nat /\ x - ServerAt \in 1..top /\ ServerAt + (x - ServerAt) = x
      BY Places DEF ServerLines
    <2> QED BY <1>1, <2>1
  <1> HIDE DEF top
  <1>3. ServerAt \in Nat
    BY Places
  <1>4. ASSUME NEW x \in ServerLines, NEW y \in ServerLines, x < y, Row(x)[1] = Row(y)[1]
        PROVE  /\ \A n \in x..y : Row(n)[1] = Row(x)[1]
               /\ Row(x)[3] # 0 => Row(y)[3] # 0
    <2> DEFINE i == x - ServerAt
               j == y - ServerAt
    <2>1. i \in 1..top /\ j \in 1..top /\ ServerRows[i] = Row(x) /\ ServerRows[j] = Row(y)
      BY <1>2
    <2>2. i < j
      BY <1>2, <1>3, <1>4
    <2>3. /\ \A n \in i..j : ServerRows[n][1] = ServerRows[i][1]
          /\ ServerRows[i][3] # 0 => ServerRows[j][3] # 0
      <3> HIDE DEF i, j
      <3> QED BY <1>1, <1>4, <2>1, <2>2 DEF InOrder
    <2>4. ASSUME NEW n \in x..y PROVE Row(n)[1] = Row(x)[1]
      <3>1. n \in ServerLines /\ n - ServerAt \in i..j
        <4>1. x \in Nat /\ y \in Nat /\ n \in Nat /\ x <= n /\ n <= y
          BY <1>2
        <4> QED BY <1>3, <4>1, Places DEF ServerLines
      <3>2. ServerRows[n - ServerAt] = Row(n)
        BY <1>2, <3>1
      <3> HIDE DEF i, j
      <3> QED BY <2>1, <2>3, <3>1, <3>2
    <2> QED BY <2>1, <2>3, <2>4
  <1>5. ASSUME NEW x \in ServerLines PROVE Row(x)[1] < 10
    BY <1>1, <1>2 DEF InOrder
  <1> QED BY <1>4, <1>5

\* Facts about server k once the file is read: its own line is line Own(k).
LEMMA LinkOf ==
  ASSUME SetupInv, cl.ready, InOrder, NEW k \in Started, srv[k].port # NoServer
  PROVE  srv[k].next = MasterNext(srv[k].bank, srv[k].port)
  <1> DEFINE o == Own(k)
             b == Row(o)[1]
             p == Row(o)[2]
             c == ms.chain[b]
             here == {i \in 1..(Len(c) - 1) : c[i] = p}
  <1>1. file \in Files /\ line > Len(file) /\ line \in Nat /\ o \in Nat
    <2>1. file \in Files /\ line > Len(file) /\ line \in 1..(Len(file) + 1)
      BY DEF SetupInv, FileInv, ClientInv
    <2> QED BY <2>1, OwnLine, Places
  <1>2. ServerKnows(srv[k], k, line)
    BY DEF SetupInv, ServersInv
  <1>3. Found(k, line)
    BY <1>2 DEF ServerKnows
  <1>4. o \in ServerLines
    BY <1>1, <1>3, OwnLine, Places DEF Found, ServerLines
  <1>5. srv[k].bank = b /\ srv[k].port = p
    BY <1>2, <1>3 DEF ServerKnows
  <1>6. b \in Bank /\ p \in Nat
    BY <1>1, <1>4, RowFields DEF ServerLines
  <1>7. MasterNext(srv[k].bank, srv[k].port)
           = IF here = {} THEN NoServer ELSE c[1 + CHOOSE i \in here : TRUE]
    BY <1>5 DEF MasterNext
  <1>8. c \in Seq(Nat) /\ ChainOf(c, b, line)
    <2>1. ms.chain \in Chains
      BY DEF SetupInv, MasterInv, Masters
    <2> HIDE DEF b
    <2> QED BY <1>6, <2>1 DEF SetupInv, ChainInv, Chains
  <1>9. Len(c) \in Nat /\ DOMAIN c = 1..Len(c)
    BY <1>8
  <1>10. \A i, j \in ServerLines : Row(i)[2] = Row(j)[2] => i = j
    BY <1>1, RowTypes DEF ServerLines
  <1>11. \A i \in ServerLines : i \in Nat /\ i < line
    BY <1>1, Places DEF ServerLines
  <1>12. \A i \in ServerLines : Plain(i, b, line) <=> Row(i)[1] = b /\ Row(i)[3] = 0
    BY <1>11 DEF Plain
  <1>13. Passed(k, line) <=> o + 1 \in ServerLines
    BY <1>1, <1>4, Places DEF Passed, ServerLines
  <1>14. Passed(k, line) =>
            srv[k].next = IF Row(o + 1)[1] = b /\ Row(o + 1)[3] = 0 THEN Row(o + 1)[2]
                          ELSE NoServer
    <2> SUFFICES ASSUME Passed(k, line)
                 PROVE  srv[k].next = IF Row(o + 1)[1] = b /\ Row(o + 1)[3] = 0
                                      THEN Row(o + 1)[2] ELSE NoServer
      OBVIOUS
    <2>1. Row(o + 1)[1] < 10
      BY <1>1, <1>13, OrderedLines
    <2>2. FirstDigit(Row(o + 1)[1]) = Row(o + 1)[1]
      BY <2>1 DEF FirstDigit
    <2>3. srv[k].next = NextOf(srv[k], Row(o + 1))
      BY <1>2 DEF ServerKnows
    <2> QED BY <1>5, <2>2, <2>3 DEF NextOf
  <1>15. ~Passed(k, line) => srv[k].next = NoServer
    BY <1>2 DEF ServerKnows
  \* What follows the server in the chain stands on a later line of its bank.
  <1>16. ASSUME NEW i \in here
         PROVE  \E j \in ServerLines :
                   /\ o < j /\ Row(j)[1] = b /\ Row(j)[3] = 0 /\ c[i + 1] = Row(j)[2]
    <2>1. /\ i \in DOMAIN c /\ i + 1 \in DOMAIN c /\ i < i + 1 /\ c[i] = Row(o)[2]
      BY <1>9
    <2>2. PICK j \in ServerLines : Plain(j, b, line) /\ c[i + 1] = Row(j)[2]
      BY <1>8, <2>1 DEF ChainOf
    <2>3. \A x, y \in DOMAIN c : x < y =>
             \A v, w \in ServerLines : c[x] = Row(v)[2] /\ c[y] = Row(w)[2] => v < w
      BY <1>8 DEF ChainOf
    <2> HIDE DEF o, b, c, here
    <2>4. o < j
      BY <1>4, <2>1, <2>2, <2>3, Zenon
    <2> QED BY <1>12, <2>2, <2>4
  <1>17. \A x, y \in DOMAIN c : x < y =>
            \A v, w \in ServerLines : c[x] = Row(v)[2] /\ c[y] = Row(w)[2] => v < w
    BY <1>8 DEF ChainOf
  <1>18. \A v \in ServerLines : Row(v)[1] = b /\ Row(v)[3] = 0 =>
            \E n \in DOMAIN c : c[n] = Row(v)[2]
    BY <1>8, <1>12 DEF ChainOf
  <1>19. p = Row(o)[2] /\ b = Row(o)[1] /\ here = {i \in 1..(Len(c) - 1) : c[i] = p}
    OBVIOUS
  <1> HIDE DEF o, b, p, c, here
  <1>20. CASE here = {}
    <2> SUFFICES ASSUME Passed(k, line), Row(o + 1)[1] = b, Row(o + 1)[3] = 0
                 PROVE  FALSE
      BY <1>7, <1>14, <1>15, <1>20
    <2>1. o + 1 \in ServerLines /\ o < o + 1
      BY <1>1, <1>13
    <2>2. Row(o)[3] = 0
      BY <1>1, <1>4, <1>19, <2>1, OrderedLines
    <2>3. PICK n \in DOMAIN c : c[n] = p
      BY <1>4, <1>18, <1>19, <2>2
    <2>4. PICK m \in DOMAIN c : c[m] = Row(o + 1)[2]
      BY <1>18, <2>1
    <2>5. m # n
      BY <1>1, <1>4, <1>10, <1>19, <2>1, <2>3, <2>4
    <2>6. ~(m < n)
      <3> SUFFICES ASSUME m < n PROVE FALSE
        OBVIOUS
      <3>1. o + 1 < o
        BY <1>4, <1>17, <1>19, <2>1, <2>3, <2>4, Zenon
      <3> QED BY <1>1, <3>1
    <2>7. n \in 1..(Len(c) - 1)
      BY <1>9, <2>3, <2>4, <2>5, <2>6
    <2> QED BY <1>19, <1>20, <2>3, <2>7
  <1>21. CASE here # {}
    <2> DEFINE i == CHOOSE i \in here : TRUE
    <2>1. i \in here
      BY <1>21
    <2>2. MasterNext(srv[k].bank, srv[k].port) = c[1 + i]
      BY <1>7, <1>21
    <2> HIDE DEF i
    <2>3. /\ i \in DOMAIN c /\ i + 1 \in DOMAIN c /\ i \in Nat /\ c[i] = Row(o)[2]
          /\ 1 + i = i + 1
      BY <1>9, <1>19, <2>1
    <2>4. PICK j \in ServerLines :
             o < j /\ Row(j)[1] = b /\ Row(j)[3] = 0 /\ c[i + 1] = Row(j)[2]
      BY <1>16, <2>1
    <2>5. j \in Nat /\ o + 1 \in ServerLines /\ o + 1 <= j /\ o + 1 \in o..j
      BY <1>1, <1>4, <1>11, <2>4, Places DEF ServerLines
    <2>6. Row(o + 1)[1] = b
      BY <1>1, <1>4, <1>19, <2>4, <2>5, OrderedLines
    <2>7. Row(o + 1)[3] = 0
      <3>1. CASE o + 1 = j
        BY <2>4, <3>1
      <3>2. CASE o + 1 < j
        BY <1>1, <2>4, <2>5, <2>6, <3>2, OrderedLines
      <3> QED BY <1>1, <2>5, <3>1, <3>2
    <2>8. PICK m \in DOMAIN c : c[m] = Row(o + 1)[2]
      BY <1>18, <2>5, <2>6, <2>7
    <2>9. m \in Nat
      BY <1>9, <2>8
    <2>10. ~(m < i)
      <3> SUFFICES ASSUME m < i PROVE FALSE
        OBVIOUS
      <3>1. o + 1 < o
        BY <1>4, <1>17, <2>3, <2>5, <2>8, Zenon
      <3> QED BY <1>1, <3>1
    <2>11. m # i
      <3> SUFFICES ASSUME m = i PROVE FALSE
        OBVIOUS
      <3>1. o + 1 = o
        BY <1>4, <1>10, <2>3, <2>5, <2>8, Zenon
      <3> QED BY <1>1, <3>1
    <2>12. ~(i + 1 < m)
      <3> SUFFICES ASSUME i + 1 < m PROVE FALSE
        OBVIOUS
      <3>1. j < o + 1
        BY <1>17, <2>3, <2>4, <2>5, <2>8, Zenon
      <3> QED BY <1>1, <2>5, <3>1
    <2>13. m = i + 1
      BY <2>3, <2>9, <2>10, <2>11, <2>12
    <2>14. srv[k].next = Row(o + 1)[2]
      BY <1>13, <1>14, <2>5, <2>6, <2>7
    <2> QED BY <2>2, <2>3, <2>8, <2>13, <2>14
  <1> QED BY <1>20, <1>21

\* Each server takes for its next the server that follows it in the chain of the
\* master (main of the server, InitMS): the line after its own is the next of its
\* bank in the chain, because a bank's servers follow each other in the file, the
\* delayed ones last.
THEOREM LinksAlike == Spec => []LinksAgree
  <1>1. SetupInv => LinksAgree
    BY LinkOf DEF LinksAgree
  <1> QED BY <1>1, SetupAlways, PTL

-----------------------------------------------------------------------------
(* The random requests.                                                    *)

LEMMA ReadyRandom ==
  ASSUME SetupInv, cl.ready, RandomRequests(cl)
  PROVE  /\ Random /\ file \in Files
         /\ cl.random = ParseRandomizedReq(Row(RequestAt + 1))
  <1>1. /\ file \in Files /\ line > Len(file) /\ line \in 1..(Len(file) + 1)
        /\ ClientRead(cl, line)
    BY DEF SetupInv, FileInv, ClientInv
  <1>2. cl.settings = ParseConfig(Row(ConfigAt + 1))
    BY <1>1, Places DEF ClientRead
  <1>3. Random
    BY <1>2 DEF RandomRequests, Random, ParseConfig
  <1>4. RequestAt < Len(file)
    BY <1>1, <1>3, RowTypes
  <1>5. RequestAt + 1 < line
    BY <1>1, <1>4, Places
  <1> QED BY <1>1, <1>3, <1>5 DEF ClientRead

\* No two generated requests have one identifier (GenerateRanReq, Request): it
\* is made of the bank, the index of the client in the bank and the number of the
\* request.
THEOREM IdsApart == Spec => []GeneratedApart
  <1>1. SetupInv => GeneratedApart
    <2> SUFFICES ASSUME SetupInv, cl.ready, RandomRequests(cl),
                        NEW c \in Clients, NEW d \in Clients,
                        NEW m \in DOMAIN Reqs(c), NEW n \in DOMAIN Reqs(d),
                        Reqs(c)[m].id = Reqs(d)[n].id
                 PROVE  c = d /\ m = n
      BY DEF GeneratedApart
    <2>1. Random
      BY ReadyRandom
    <2>2. ASSUME NEW e \in Clients, NEW k \in DOMAIN Reqs(e)
          PROVE  Reqs(e)[k].id = <<e[1], e[2], k>>
      <3>1. e[1] \in Bank /\ e[2] \in DOMAIN cl.clients[e[1]]
        BY DEF Clients
      <3>2. Reqs(e) = Generated(cl.random, e[1], e[2], cl.clients[e[1]][e[2]].acct)
        BY <2>1, <3>1 DEF SetupInv, ClientInv, Reqs
      <3> QED BY <3>2 DEF Generated, NewRequest
    <2>3. <<c[1], c[2], m>> = <<d[1], d[2], n>>
      BY <2>2
    <2>4. c = <<c[1], c[2]>> /\ d = <<d[1], d[2]>>
      BY DEF Clients
    <2> QED BY <2>3, <2>4
  <1> QED BY <1>1, SetupAlways, PTL

\* The type for number r, when x, y and z in a hundred are for the first three, and
\* one or two of the sums come out one too high.
KindOf(x, y, z, d, w, r) ==
    IF r < x THEN Query
    ELSE IF r < x + y + d THEN Deposit
    ELSE IF r < x + y + z + w THEN Withdraw ELSE Transfer

ShareOf(x, y, z, u, t) ==
    CASE t = Query -> x [] t = Deposit -> y [] t = Withdraw -> z [] t = Transfer -> u

\* The numbers of a type are an interval, one more or less than its share.
KindLimits(x, y, z, u, d, w, t, lo, hi) ==
    /\ \A r \in 0..99 : KindOf(x, y, z, d, w, r) = t <=> lo <= r /\ r <= hi
    /\ 0 <= lo /\ hi <= 99
    /\ lo <= hi => hi - lo + 1 \in (ShareOf(x, y, z, u, t) - 1)..(ShareOf(x, y, z, u, t) + 1)
    /\ lo > hi => ShareOf(x, y, z, u, t) <= 1

LEMMA KindInterval ==
  ASSUME NEW x \in Nat, NEW y \in Nat, NEW z \in Nat, NEW u \in Nat, x + y + z + u = 100,
         NEW d \in 0..1, NEW w \in 0..1, NEW t \in ReqType
  PROVE  \E lo, hi \in Int : KindLimits(x, y, z, u, d, w, t, lo, hi)
  <1> USE DEF Query, Deposit, Withdraw, Transfer
  <1>1. CASE t = Query
    <2> DEFINE lo == 0
               hi == x - 1
    <2>1. lo \in Int /\ hi \in Int /\ 0 <= lo /\ hi <= 99
      OBVIOUS
    <2>2. \A r \in 0..99 : KindOf(x, y, z, d, w, r) = t <=> lo <= r /\ r <= hi
      BY <1>1 DEF KindOf
    <2>3. /\ lo <= hi => hi - lo + 1 \in (ShareOf(x, y, z, u, t) - 1)
                                         ..(ShareOf(x, y, z, u, t) + 1)
          /\ lo > hi => ShareOf(x, y, z, u, t) <= 1
      BY <1>1 DEF ShareOf
    <2>4. KindLimits(x, y, z, u, d, w, t, lo, hi)
      BY <2>1, <2>2, <2>3 DEF KindLimits
    <2> QED BY <2>1, <2>4
  <1>2. CASE t = Deposit
    <2> DEFINE lo == x
               hi == IF x + y + d > 100 THEN 99 ELSE x + y + d - 1
    <2>1. lo \in Int /\ hi \in Int /\ 0 <= lo /\ hi <= 99
      OBVIOUS
    <2>2. \A r \in 0..99 : KindOf(x, y, z, d, w, r) = t <=> lo <= r /\ r <= hi
      BY <1>2 DEF KindOf
    <2>3. /\ lo <= hi => hi - lo + 1 \in (ShareOf(x, y, z, u, t) - 1)
                                         ..(ShareOf(x, y, z, u, t) + 1)
          /\ lo > hi => ShareOf(x, y, z, u, t) <= 1
      BY <1>2 DEF ShareOf
    <2>4. KindLimits(x, y, z, u, d, w, t, lo, hi)
      BY <2>1, <2>2, <2>3 DEF KindLimits
    <2> QED BY <2>1, <2>4
  <1>3. CASE t = Withdraw
    <2> DEFINE lo == x + y + d
               hi == IF x + y + z + w > 100 THEN 99 ELSE x + y + z + w - 1
    <2>1. lo \in Int /\ hi \in Int /\ 0 <= lo /\ hi <= 99
      OBVIOUS
    <2>2. \A r \in 0..99 : KindOf(x, y, z, d, w, r) = t <=> lo <= r /\ r <= hi
      BY <1>3 DEF KindOf
    <2>3. /\ lo <= hi => hi - lo + 1 \in (ShareOf(x, y, z, u, t) - 1)
                                         ..(ShareOf(x, y, z, u, t) + 1)
          /\ lo > hi => ShareOf(x, y, z, u, t) <= 1
      BY <1>3 DEF ShareOf
    <2>4. KindLimits(x, y, z, u, d, w, t, lo, hi)
      BY <2>1, <2>2, <2>3 DEF KindLimits
    <2> QED BY <2>1, <2>4
  <1>4. CASE t = Transfer
    <2> DEFINE lo == IF x + y + d < x + y + z + w THEN x + y + z + w ELSE x + y + d
               hi == 99
    <2>1. lo \in Int /\ hi \in Int /\ 0 <= lo /\ hi <= 99
      OBVIOUS
    <2>2. \A r \in 0..99 : KindOf(x, y, z, d, w, r) = t <=> lo <= r /\ r <= hi
      BY <1>4 DEF KindOf
    <2>3. /\ lo <= hi => hi - lo + 1 \in (ShareOf(x, y, z, u, t) - 1)
                                         ..(ShareOf(x, y, z, u, t) + 1)
          /\ lo > hi => ShareOf(x, y, z, u, t) <= 1
      BY <1>4 DEF ShareOf
    <2>4. KindLimits(x, y, z, u, d, w, t, lo, hi)
      BY <2>1, <2>2, <2>3 DEF KindLimits
    <2> QED BY <2>1, <2>4
  <1> QED BY <1>1, <1>2, <1>3, <1>4 DEF ReqType

\* What GenerateRandomReq draws.
LEMMA DrawnInterval ==
  ASSUME NEW q, \A i \in 3..6 : q[i] \in Nat, q[3] + q[4] + q[5] + q[6] = 100,
         NEW t \in ReqType
  PROVE  \E lo, hi \in Int :
            /\ {r \in 0..99 : Drawn(q, r) = t} = lo..hi
            /\ lo <= hi => hi - lo + 1 \in (q[3 + t] - 1)..(q[3 + t] + 1)
            /\ lo > hi => q[3 + t] <= 1
  <1> DEFINE dep == q[3] + q[4]
             wit == dep + q[5]
             d == IF Deposit \in above THEN 1 ELSE 0
             w == IF Withdraw \in above THEN 1 ELSE 0
  <1>1. /\ q[3] \in Nat /\ q[4] \in Nat /\ q[5] \in Nat /\ q[6] \in Nat
        /\ d \in 0..1 /\ w \in 0..1
    OBVIOUS
  <1>2. \A r \in 0..99 : Drawn(q, r) = KindOf(q[3], q[4], q[5], d, w, r)
    <2> SUFFICES ASSUME NEW r \in 0..99
                 PROVE  Drawn(q, r) = KindOf(q[3], q[4], q[5], d, w, r)
      OBVIOUS
    <2>1. r < dep + d <=> r < dep \/ (r = dep /\ Deposit \in above)
      BY <1>1
    <2>2. r < wit + w <=> r < wit \/ (r = wit /\ Withdraw \in above)
      BY <1>1
    <2>3. Drawn(q, r) = IF r < q[3] THEN Query
                        ELSE IF r < dep \/ (r = dep /\ Deposit \in above) THEN Deposit
                        ELSE IF r < wit \/ (r = wit /\ Withdraw \in above) THEN Withdraw
                        ELSE Transfer
      BY DEF Drawn
    <2>4. KindOf(q[3], q[4], q[5], d, w, r)
             = IF r < q[3] THEN Query
               ELSE IF r < dep + d THEN Deposit
               ELSE IF r < wit + w THEN Withdraw ELSE Transfer
      BY DEF KindOf
    <2> HIDE DEF dep, wit, d, w
    <2> QED BY <2>1, <2>2, <2>3, <2>4
  <1>3. PICK lo \in Int, hi \in Int : KindLimits(q[3], q[4], q[5], q[6], d, w, t, lo, hi)
    <2> HIDE DEF d, w
    <2>1. PICK x \in Nat, y \in Nat, z \in Nat, u \in Nat :
             x = q[3] /\ y = q[4] /\ z = q[5] /\ u = q[6]
      BY <1>1
    <2>2. x + y + z + u = 100
      BY <2>1
    <2>3. \E lo, hi \in Int : KindLimits(x, y, z, u, d, w, t, lo, hi)
      BY <1>1, <2>2, KindInterval
    <2> QED BY <2>1, <2>3
  <1>4. ShareOf(q[3], q[4], q[5], q[6], t) = q[3 + t]
    BY DEF ShareOf, ReqType, Query, Deposit, Withdraw, Transfer
  <1> HIDE DEF d, w
  <1>5. {r \in 0..99 : Drawn(q, r) = t} = lo..hi
    <2>1. /\ \A r \in 0..99 : Drawn(q, r) = t <=> lo <= r /\ r <= hi
          /\ 0 <= lo /\ hi <= 99
      BY <1>2, <1>3 DEF KindLimits
    <2>2. ASSUME NEW r \in lo..hi PROVE r \in 0..99 /\ Drawn(q, r) = t
      <3>1. r \in 0..99 /\ lo <= r /\ r <= hi
        BY <2>1
      <3> QED BY <2>1, <3>1
    <2>3. ASSUME NEW r \in 0..99, Drawn(q, r) = t PROVE r \in lo..hi
      <3>1. lo <= r /\ r <= hi
        BY <2>1, <2>3
      <3> QED BY <3>1
    <2> QED BY <2>2, <2>3
  <1> QED BY <1>3, <1>4, <1>5 DEF KindLimits

\* Of the hundred numbers that may be drawn as many become requests of a type as
\* its probability says, give or take one (GenerateRandomReq), whichever of the
\* sums of floats come out too high.
THEOREM SharesKept == Spec => []DrawnInShares
  <1>1. SetupInv => DrawnInShares
    <2> SUFFICES ASSUME SetupInv, cl.ready, RandomRequests(cl), NEW t \in ReqType
                 PROVE  Cardinality({r \in 0..99 : Drawn(cl.random, r) = t})
                           \in (cl.random[3 + t] - 1)..(cl.random[3 + t] + 1)
      BY DEF DrawnInShares
    <2> DEFINE q == cl.random
    <2>1. /\ \A i \in 1..6 : q[i] \in Nat
          /\ q[3] + q[4] + q[5] + q[6] = 100
      <3>1. FileInv /\ Random /\ q = ParseRandomizedReq(Row(RequestAt + 1))
        BY ReadyRandom DEF SetupInv
      <3> HIDE DEF q
      <3> QED BY <3>1, RandomRow
    <2> HIDE DEF q
    <2>2. \A i \in 3..6 : q[i] \in Nat
      BY <2>1
    <2>3. PICK lo \in Int, hi \in Int :
             /\ {r \in 0..99 : Drawn(q, r) = t} = lo..hi
             /\ lo <= hi => hi - lo + 1 \in (q[3 + t] - 1)..(q[3 + t] + 1)
             /\ lo > hi => q[3 + t] <= 1
      BY <2>1, <2>2, DrawnInterval
    <2>4. Cardinality(lo..hi) = IF lo > hi THEN 0 ELSE hi - lo + 1
      BY FS_Interval
    <2>5. q[3 + t] \in Nat
      BY <2>2 DEF ReqType, Query, Deposit, Withdraw, Transfer
    <2> DEFINE share == q[3 + t]
               n == Cardinality({r \in 0..99 : Drawn(q, r) = t})
    <2>6. n = IF lo > hi THEN 0 ELSE hi - lo + 1
      BY <2>3, <2>4
    <2>7. /\ share \in Nat
          /\ lo <= hi => hi - lo + 1 \in (share - 1)..(share + 1)
          /\ lo > hi => share <= 1
      BY <2>3, <2>5
    <2>8. n \in (share - 1)..(share + 1)
      <3> HIDE DEF share, n
      <3> QED BY <2>6, <2>7
    <2> QED BY <2>8 DEF q
  <1> QED BY <1>1, SetupAlways, PTL
=============================================================================
