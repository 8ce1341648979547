----------------------------- MODULE Membership -----------------------------
(***************************************************************************)
(* What the master promises of the chain of one bank, whatever the pings,  *)
(* the time sheet and the notifications it uses for it: servers come at    *)
(* the tail, only a dead server goes, and one that has gone does not come  *)
(* back.                                                                   *)
(***************************************************************************)
EXTENDS Naturals, Sequences

CONSTANTS
    Server,
    First      \* the chain of the configuration file

VARIABLES
    status,    \* of the process of each server
    left,      \* servers that are out of the chain for good
    chain      \* head first

vars == <<status, left, chain>>

Status == {"asleep", "alive", "dead"}

Members == {chain[i] : i \in DOMAIN chain}

Without(i) == SubSeq(chain, 1, i - 1) \o SubSeq(chain, i + 1, Len(chain))

Init ==
    /\ status \in [Server -> Status \ {"dead"}]
    /\ left = {}
    /\ chain = First
    /\ \A s \in Members : status[s] = "alive"

Start(s) ==
    /\ status[s] = "asleep"
    /\ status' = [status EXCEPT ![s] = "alive"]
    /\ UNCHANGED <<left, chain>>

\* A server that fails before it has joined may still join, if its first
\* ping is on the way, and may never.
Fail(s) ==
    /\ status[s] = "alive"
    /\ status' = [status EXCEPT ![s] = "dead"]
    /\ left' \in IF s \in Members THEN {left} ELSE {left, left \cup {s}}
    /\ UNCHANGED chain

Join(s) ==
    /\ status[s] # "asleep"
    /\ s \notin Members /\ s \notin left
    /\ chain' = Append(chain, s)
    /\ UNCHANGED <<status, left>>

Remove(s) ==
    /\ status[s] = "dead"
    /\ \E i \in DOMAIN chain : chain[i] = s /\ chain' = Without(i)
    /\ left' = left \cup {s}
    /\ UNCHANGED status

Next == \E s \in Server : Start(s) \/ Fail(s) \/ Join(s) \/ Remove(s)

Spec == Init /\ [][Next]_vars

-----------------------------------------------------------------------------
\* A server that has failed is not left in the chain.
FailedLeave ==
    \A s \in Server : status[s] = "dead" /\ s \in Members ~> s \notin Members

\* A server that runs long enough becomes a member.
StartedJoin ==
    \A s \in Server : status[s] = "alive" ~> s \in Members \/ status[s] = "dead"
=============================================================================
