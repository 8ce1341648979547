------------------------------- MODULE Ledger -------------------------------
(***************************************************************************)
(* The books of one server: what a request is, and what the methods of     *)
(* class Server do to Account_Info, sentTrans and procTrans.               *)
(*                                                                         *)
(* sentTrans is a std::list that is only ever searched, emptied of every   *)
(* copy of a request, and pushed to the next server; it is a set here.     *)
(* procTrans is a std::map keyed by the request identifier; it is a set of *)
(* requests with distinct identifiers, and Rank gives the order in which   *)
(* the map is iterated, which is the order of the identifiers as STRINGS   *)
(* ("1.1.10" comes before "1.1.9").                                        *)
(*                                                                         *)
(* Amounts are naturals: the configuration files give no negative amount,  *)
(* and the rounding of float is not modelled.                              *)
(***************************************************************************)
EXTENDS Integers, FiniteSets

CONSTANTS
    Id,           \* request identifiers: bank.client.sequence
    Account,      \* account numbers, the keys of Account_Info
    Client,       \* client processes (their ip address and port)
    NoClient,     \* the zeroed address ParseIpaddr leaves for a text without one
    BankId,       \* what Parsereq takes for the identifier of a notification
    PortAccount,  \* what Parsereq takes for the account of a notification
    Rank          \* position of an identifier in the order of std::string

ASSUME LedgerAssumption ==
    /\ BankId \in Id
    /\ PortAccount \in Account
    /\ NoClient \notin Client
    /\ Rank \in [Id -> Nat \ {0}]
    /\ \A i, j \in Id : Rank[i] = Rank[j] => i = j

ReqType == {"Query", "Deposit", "Withdraw", "Transfer"}

Outcome == {"Processed", "InconsistentWithHistory", "InsufficientFunds"}

Request == [id: Id, type: ReqType, acct: Account, amt: Nat,
            from: Client \cup {NoClient}]

\* The balance of a Reply that ProcReq never assigned.
Garbage == -1

Balance == Nat \cup {Garbage}

\* A Request object before anything was received.
BlankReq == [id |-> BankId, type |-> "Query", acct |-> PortAccount,
             amt |-> 0, from |-> NoClient]

IdsOf(R) == {q.id : q \in R}

-----------------------------------------------------------------------------
(* The history: CheckHist, AddsentTrans and AckHist.                       *)

Same(q, r) == q.id = r.id /\ q.type = r.type

\* Mutant: the history is not looked at.
CheckHistBlind(r, proc) == "New"

CheckHist(r, proc) ==
    IF \E q \in proc : Same(q, r) THEN "Duplicate"
    ELSE IF r.id \in IdsOf(proc) THEN "Inconsistent"
    ELSE "New"

\* Mutant: the type is tested the other way round.
AddsentTransInverted(r, sent) == IF r.type # "Query" THEN sent ELSE sent \cup {r}

AddsentTrans(r, sent) == IF r.type = "Query" THEN sent ELSE sent \cup {r}

\* AckHist walks the list while it erases from it: it uses the erased node to
\* find the next one. On the builds in the repository that node is still
\* intact, so every copy goes; elsewhere the walk may crash the process.
AckSent(r, sent) ==
    IF r.type = "Query" THEN sent ELSE {q \in sent : ~Same(q, r)}

\* Mutant: an identifier that is used again gets the newer request.
AckProcOverwrites(r, sent, proc) ==
    IF r.type # "Query" /\ \E q \in sent : Same(q, r)
    THEN {q \in proc : q.id # r.id} \cup {r} ELSE proc

\* Only a request that is found in sentTrans becomes history.
AckProc(r, sent, proc) ==
    IF /\ r.type # "Query"
       /\ \E q \in sent : Same(q, r)
       /\ CheckHist(r, proc) = "New"
    THEN proc \cup {r} ELSE proc

-----------------------------------------------------------------------------
(* ProcReq, given the history hist and the balance cur it has looked up.   *)

\* Mutant: the balance is not compared with the amount.
AppliesUnchecked(r, hist, cur) == hist = "New" /\ r.type \in {"Deposit", "Withdraw"}

Applies(r, hist, cur) ==
    /\ hist = "New"
    /\ \/ r.type = "Deposit"
       \/ r.type = "Withdraw" /\ cur - r.amt >= 0

NewBal(r, cur) == IF r.type = "Deposit" THEN cur + r.amt ELSE cur - r.amt

\* A Transfer that is not in the history matches no branch: the reply keeps
\* the uninitialised fields of `new Reply`.
Uninitialised(r, hist) == hist = "New" /\ r.type = "Transfer"

Outcomes(r, hist, cur) ==
    CASE hist = "Duplicate"      -> {"Processed"}
      [] hist = "Inconsistent"   -> {"InconsistentWithHistory"}
      [] Uninitialised(r, hist)  -> Outcome
      [] /\ hist = "New"
         /\ r.type = "Withdraw"
         /\ ~Applies(r, hist, cur) -> {"InsufficientFunds"}
      [] OTHER                   -> {"Processed"}

ReplyBal(r, hist, cur) ==
    IF Uninitialised(r, hist) THEN Garbage
    ELSE IF Applies(r, hist, cur) THEN NewBal(r, cur)
    ELSE cur
=============================================================================
