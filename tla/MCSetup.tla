------------------------------ MODULE MCSetup -------------------------------
(***************************************************************************)
(* Configuration files for Setup: every list of up to four servers, with   *)
(* the rest of test.txt cut short; and every list of up to three requests, *)
(* and some random ones, for a fixed list of servers.                      *)
(***************************************************************************)
EXTENDS Setup

Heading(h) == <<[head |-> h, f |-> <<>>]>>
Rows(fs) == [i \in DOMAIN fs |-> [head |-> "", f |-> fs[i]]]
UpTo(n, S) == UNION {[1..m -> S] : m \in 1..n}

File(servers, random, requests) ==
    Heading("//Master") \o Rows(<< <<10000>> >>)
    \o Heading("//Server")
    \o Rows([i \in DOMAIN servers |-> <<servers[i][1], 10000 + i, servers[i][2]>>])
    \o Heading("//Client ") \o Rows(<< <<1, 5, 3, random>> >>)
    \o Heading("//Client:")
    \o Rows(<< <<1, 100, 20001>>, <<1, 200, 20002>>, <<2, 100, 20003>>,
               <<1, 200, 20004>> >>)
    \o Heading("//Request") \o Rows(requests)

\* The banks 1, 2 and 12; with and without a startup delay.
ServerLists == UpTo(4, {1, 2, 12} \X {0, 15})
PlainList == << <<1, 0>>, <<1, 0>>, <<2, 0>> >>

Asked == { <<0, <<1, 1, 1>>, 100>>, <<1, <<1, 2, 1>>, 200, 400>>,
           <<2, <<2, 1, 1>>, 100, 50>>, <<1, <<2, 2, 1>>, 300, 70>>,
           <<0, <<12, 1, 1>>, 100>> }
AskedLists == {q \in UpTo(3, Asked) : \A i, j \in DOMAIN q : q[i] = q[j] => i = j}

\* Seed, requests for each client, and the probabilities.
RandomRows == { <<7, 3, 25, 25, 25, 25>>, <<7, 2, 0, 60, 40, 0>>, <<7, 3, 10, 70, 15, 5>> }

MCFiles ==
    {File(s, 0, << <<0, <<1, 1, 1>>, 100>> >>) : s \in ServerLists}
    \cup {File(PlainList, 0, q) : q \in AskedLists}
    \cup {File(PlainList, 1, << r >>) : r \in RandomRows}

MCDraws == { <<0, 25, 99>>, <<60, 10, 50>> }
=============================================================================
