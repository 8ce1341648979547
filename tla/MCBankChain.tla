---------------------------- MODULE MCBankChain -----------------------------
(***************************************************************************)
(* Small instances of BankChain: requests, configurations and the numbers  *)
(* of a configuration file, for the .cfg files to choose from.             *)
(***************************************************************************)
EXTENDS BankChain, TLC

\* Identifiers 1.1.8 to 1.1.11, 1.2.1, 1.2.2 and what a notification parses
\* to, "1". They are ordered as strings: 1.1.10 and 1.1.11 come before 1.1.8.
MCId == {"bank", "r8", "r9", "r10", "r11", "r21", "r22"}
IdOrder == <<"bank", "r10", "r11", "r8", "r9", "r21", "r22">>
MCRank == [i \in MCId |-> CHOOSE k \in DOMAIN IdOrder : IdOrder[k] = i]

MCAccount == {"a", "b", "port"}

Rq(i, t, a, n, c) == [id |-> i, type |-> t, acct |-> a, amt |-> n, from |-> c]

\* One client. The second request finds too little on the account, the next
\* two use an identifier again, a Transfer is not implemented.
ScriptLong == << Rq("r8", "Deposit", "a", 2, "ca"),
                 Rq("r9", "Withdraw", "a", 3, "ca"),
                 Rq("r8", "Withdraw", "a", 1, "ca"),
                 Rq("r8", "Deposit", "a", 2, "ca"),
                 Rq("r10", "Withdraw", "a", 1, "ca"),
                 Rq("r22", "Transfer", "a", 1, "ca"),
                 Rq("r11", "Query", "a", 0, "ca") >>

\* Two clients, two accounts, and the updates of one client in the order of
\* their identifiers as strings.
ScriptGrow == << Rq("r10", "Deposit", "a", 2, "ca"),
                 Rq("r8", "Query", "a", 0, "ca"),
                 Rq("r10", "Withdraw", "a", 1, "ca"),
                 Rq("r10", "Deposit", "a", 2, "ca"),
                 Rq("r11", "Withdraw", "a", 1, "ca"),
                 Rq("r9", "Transfer", "a", 1, "ca"),
                 Rq("r9", "Query", "a", 0, "ca"),
                 Rq("r21", "Deposit", "b", 1, "cb"),
                 Rq("r22", "Query", "b", 0, "cb") >>

ScriptShort == << Rq("r8", "Deposit", "a", 1, "ca"),
                  Rq("r9", "Withdraw", "a", 1, "ca") >>

ScriptDeposit == << Rq("r8", "Deposit", "a", 1, "ca") >>

\* The ninth and the tenth request of a client.
ScriptTen == << Rq("r9", "Deposit", "a", 1, "ca"),
                Rq("r10", "Withdraw", "a", 1, "ca") >>

Line2 == <<"s1", "s2">>
Line3 == <<"s1", "s2", "s3">>
Line4 == <<"s1", "s2", "s3", "s4">>

NoLimit == [s \in Server |-> 99]
NoLoss == [s \in Server |-> 0]
EverySecond == [s \in Server |-> 1]

\* s2 and s1 end at the message after so many.
Lives(n2, n1) == [s \in Server |-> IF s = "s2" THEN n2 ELSE IF s = "s1" THEN n1 ELSE 99]
LivesEarly == Lives(1, 4)
LivesLate == Lives(4, 6)
OnlyS2 == Lives(1, 99)
=============================================================================
