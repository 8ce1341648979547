# A chain-replicated bank, in TLA+

This directory holds a TLA+ model of the bank service in `src/`: a C++ program
in which every bank is a chain of server processes (chain replication), a client
process sends deposits, withdrawals and queries, and a master watches the
servers, repairs the chain when one fails and extends it when one joins.

The modules are translated from the source. `PROJECT.json` names, for each
definition, the lines it stands for, and lists the runs, the hazards of the
code, the findings and the theorems. This file says how the parts fit together,
what each run shows, what is proved, and what is left.

## 1. The system

Three programs read the same configuration file.

| Part | Code | State | Operations |
|---|---|---|---|
| Server process | `server.cpp`, `server.h` | next server, `Account_Info`, `sentTrans` (list), `procTrans` (map by identifier), receive buffer `buf` and the `ARGS` objects on main's stack, `msg_count`, `loss_frequency` | the `select` loop: client request, notification, connection from the previous server; threads `Sync` and `Reply`; `Sync_sentTrans`, `Sync_procTrans`, `Sync_Sent`, `Sync_Hist`; life time; signals; `Ping` thread |
| Ledger of a server | `server.h` | the books above | `CheckHist`, `AddsentTrans`, `AckHist`, `ProcReq`, `Checkbal` |
| Client process | `client.cpp`, `client.h` | the list of requests of each client, `sChain`, `count_retrans`, one UDP socket for the client whose turn it is | `SendReq`: send, wait, send again, give up, take a reply, `proc_push_notification` |
| Master | `master.cpp`, `master.h` | `sChain`, `time_sheet` | `handle_ping`, `probing`, `client_notify`, `server_notify` |
| Failure detector | `Ping` thread of `server.cpp`; `main`, `handle_ping`, `probing` of `master.cpp` | the socket and the one receive buffer of the master's main, `time_sheet`, the iterator of `probing` | one ping a second from each server; a thread for each ping; a pass over `time_sheet` every five seconds |
| Readers of the configuration file | `InitMS` in `master.h`; `main` of `client.cpp` and `server.cpp`; parsing in `client.h`, `server.h`, `inc.h` | the flags of each loop over the lines | what a line adds to chain, clients, settings and requests; `GenerateRanReq` |
| Messages | `inc.h` | - | `Request`, `Reply` and `Push_Notification` to text and back |

How they interact:

* **client -> server**: UDP, updates to the head of the chain, queries to the
  tail, as the client's own copy of the chain has it.
* **server -> next server**: one TCP connection per request. The thread that
  forwarded it waits on that connection for the ACK, which runs from the tail
  back to the head; each server processes the request when the ACK reaches it.
  A synchronization pushes requests on connections nobody reads.
* **tail -> client**: UDP reply, sent before the ACK.
* **server -> master**: UDP pings. **master -> clients, servers**: UDP push
  notifications, the clients first.
* **inside a server**: detached threads share the books, and main's buffer and
  `ARGS` object, with the loop, without locks.

What is hard about it: retransmissions that meet a request already on its way,
processed or refused; a server dying with requests on either side of it; a new
tail that is sent the history while threads still add to it; notifications in
one order to the clients and in another to the servers; threads that outlive the
argument they were given; a client that takes any datagram for its reply; a
failure detector whose pings race its passes, and whose threads race each other;
and three programs that each make their own chain of one file.

What makes each part correct:

| Part | Should hold | Stated as |
|---|---|---|
| Ledger | no overdraft; an update changes a balance at most once; history is never rewritten | `NonNegative`, `Booked`, `Remembered` |
| Servers of a chain | same balances when nothing is under way; an answered update is at every server | `Agreed`, `Durable`, `Kept` |
| Chain repair | each server forwards to its successor in the master's chain | `Linked` |
| The bank, seen by clients | replies are those of one process that serves requests in order | `SerialReplies` |
| Client | gets its answers; comes to an end | `EveryRequestAnswered`, `Termination` |
| Master | only dead servers leave the chain, each server comes once and last | `MembershipHolds` (of the failure detector), `TailExtended` (does not hold, run `Overtake`) |
| Failure detector | no live server is declared failed; a failed one is found, and soon; a started one joins | `NeverSuspected`, `KnownLeave`, `FoundInTime`, `StartedJoin` |
| Configuration | all programs start from one chain; a request has one sender | `SameChain`, `LinksAgree`, `RequestsRouted` |
| Random requests | identifiers tell them apart; types come as often as asked for | `GeneratedApart`, `DrawnInShares` |

## 2. Modules

| Module | Models |
|---|---|
| `Ledger` | requests; `CheckHist`, `AddsentTrans`, `AckHist`, `ProcReq` as operators over history, sent requests and balance |
| `Wire` | the sockets, what is written on them, and what each text is taken for when it is parsed |
| `ServerNode` | one server process: loop, notification handler, synchronization, `Sync` and `Reply` threads, with threads that are through before the next message or with every access to shared memory a step |
| `ClientNode` | the client process |
| `MasterNode` | the master's chain, its links and its notifications, by threads that leave each other alone or that overlap |
| `BankChain` | one bank composed of the above, timing, fairness and all properties |
| `Membership` | abstract: what the master promises of the chain |
| `Detector` | pings, the master's main, `handle_ping` threads, `time_sheet`, `probing`: implements `Membership` |
| `Setup` | the three readers of the configuration file, and the requests the client generates |
| `MCBankChain`, `MCDetector`, `MCSetup` | scripts, configurations and files for the runs |
| `SequenceFacts` | lemmas about sequences without repetitions |
| `BankChainProofs` | theorems about `BankChain`: types, balances, history, and lemmas about the chain |
| `LinkProofs` | theorem about `BankChain`: the links follow the chain |
| `BookProofs` | theorem about `BankChain`: balance and history agree, and where the one request of the chain is |
| `KeptProofs` | theorem about `BankChain`: what is answered is kept by every server left |
| `AgreedProofs` | theorems about `BankChain`: the servers have the same balances, and what is answered in their histories |
| `DetectorProofs` | theorems about `Detector`: that it implements `Membership`, and how soon a failed server is found |
| `SetupProofs` | theorems about `Setup` |

They hang together at three places. `Setup` yields the chain, the links and the
requests that `BankChain` starts with (`Lines`, `Spare`, `Script`). `Detector`
is the master seen in seconds, `MasterNode` the master as the bank sees it:
there a server is found failed only when it is down, and pings arrive as long as
it is up, which is what `Detector` proves. `Membership` is what `Detector`
implements: a server joins at the tail, once; only a dead one leaves; and none
that has left returns.

Banks share neither servers nor clients, and a Transfer between banks is not
implemented, so one bank is the whole system.

### How the state corresponds

* `next`, `acct`, `sent`, `proc` are `next`, `Account_Info`, `sentTrans` and
  `procTrans`. `sent` and `proc` are sets: `AckHist` removes every copy of a
  request from the list, and the map has one entry per identifier (theorem
  `HistoryKeyed`). The order of the map matters to a synchronization only, and
  there it is `Rank`, the order of the identifiers as strings.
* `buf[s]` and `args[s]` are memory of `main` that threads read *again at each
  use*: a thread forwards what is in `buf` when it writes, adds to `sentTrans`
  what `ARGS` points to when it adds, and so on. `args[s]` has two entries, for
  the UDP and the TCP block each declare their own `ARGS`.
* `thr[s][t]` is a detached thread: its program counter and its locals.
  `ProcReq` is two steps, the look-ups and the write, because nothing stops
  another thread in between.
* Some accesses come in pairs in the code: `connect` and `write` in `Sync`; the
  ACK handed on and `ARGS` read for the request after it; `AddsentTrans` and
  `AckHist` in `Reply`; all of `Sync_Hist`. Without `PromptThreads` each is a step
  (`SyncOpen` and `SyncWrite`, `SyncPassAck` and `SyncTake`, `AddSent` and `AckHist`,
  `StartSyncHist` and the steps of a `Hist` thread that main joins). With
  `PromptThreads` nothing at the server comes in between, and each pair is one step
  (`SyncConnect`, `SyncAcked`, `ReplyHist`, `AcceptSyncProc`).
* A server killed between `connect` and `write` leaves a connection with `Nothing`
  on it. `read` gives 0, no error for main, and the old buffer is parsed again
  (`ReadsNothing`, `Empty...`).
* `job[s]` is the synchronization that main waits for with `Pthread_join`: a walk
  over `sentTrans`, then over `procTrans`, as they are at each step. While it is
  on, main takes no message.
* A UDP text that is not a request parses all the same (`Parse`, `SyncTypes`):
  a thread that reads the buffer after a notification has come in forwards a
  deposit or a withdrawal on an account named by a port.
* `up[s] = FALSE` after the life time is over (`Expire...`), after a signal
  (`Kill`), or by a mistake of the server's own: a null `next`
  (`SyncNullNext`), a reply to a zero address (`ReplyNowhere`), a write to a
  socket that is not connected (`AcceptSyncSentNoNext`). All of them are
  `Down`: threads at other servers that wait on its connections read
  end-of-file.
* `cpc`, `pos`, `retrans`, `view` are where `SendReq` is, the request it is at,
  `count_retrans` and the client's `sChain`.
* `chain` is the master's `sChain`, `links` the `next` of its `Server` objects,
  `sheet` the servers with an entry in `time_sheet`. With `PromptMaster` a record in
  `notices` is a thread of the master between `client_notify` and `server_notify`,
  each of which is a step, and `DetectJoin` tests for the server and adds it. Without
  it `desk[m]` is where a thread is between two calls of `handle_ping`, `probing` and
  `server_notify`, with its locals: `Server_exists`, `Addserver`, `client_notify`,
  `Search_Prev_Server`, `cal_next`, `Search_Next_Server` and `Sendto` are a step each.
* `applied` and `accepted` are history variables: how often a request changed
  the accounts of a server, and the reply that was taken for each request. No
  guard reads them.

Undefined behaviour is a choice over what the build can do: the outcome in the
reply to a Transfer is uninitialised (`Outcomes`); the synchronization type of a
text without one is, too (`SyncTypes`); `write` on a socket that never connected
returns an error or kills the process. `AckHist` goes on from a list node it has
erased: on the builds of the repository the node is still intact, and the
modules say so at `AckSent`.

Of `Detector`:

* `status` is the process of a server, `since` the seconds since its last ping.
  `queue` is the socket of the master, `buf` the receive buffer of main, which
  every thread gets the address of. `thr` holds the `handle_ping` threads: a
  thread reads `buf`, updates `time_sheet`, looks whether the server exists and
  adds it, each in a step of its own.
* `sheet[s]` is the age of the entry of `time_sheet`, `probe` the probing thread.
  The map is ordered by port and so are its entries here, for `erase` returns the
  entry after the one erased and the loop then steps over it.
* `Membership` has `left`, the servers gone for good. In `Detector` these are
  the dead servers that are not in the chain and of which no ping is on its way.
  
Of `Setup`: `ms`, `srv[k]` and `cl` hold the flags of the loop of each program
and what it has read. The programs read a line in one step together, since they
share nothing but the file; a loop that ends early keeps its state. A line is a
heading, of which the loops compare eight characters, or the numbers that
`tokenizer` makes of it. Numbers are read by `atoi`, except where the code looks
at the first character only (`FirstDigit`). The programs do not test the file;
what they rely on, and what `test.txt` is, is `WellFormed`: every heading once and
in order, the lines below them that must be there, ports that differ,
probabilities that add up. `SetupAssumption` has it of every file.

Next to some definitions stands a mutated one, under a comment that begins with
"Mutant". Nothing uses them: each is a plausible bug in the code of its
neighbour, and put in its place must break the property `PROJECT.json` names
with it, so that every property is known to depend on the code.

### Timing

The program counts on timing. In `BankChain` three constants say which of it a run
assumes:

* `PatientClients`: clients sleep for seconds between requests and wait for
  seconds for a reply, and all processes run on one machine. So a client sends,
  sends again or gives up only when nothing else is going on, and gives up only
  when failures have been detected. With `FaultDelay = 0` (`fault_delay` of the
  file) a client that was told of a failure sends again at once.
* `PromptThreads`: a thread is through with the buffer and argument of main
  before main takes the next message.
* `PromptMaster`: the threads of the master, the one that probes and one for each
  ping, do not overlap in the chain. No lock says so. `MaxHands` bounds the
  threads for pings where they do.

What a constant is `FALSE` for interleaves freely. The failure detector is in time
in all of them: that takes pings that are not late, see below. Of the theorems on
the bank `TypeCorrect`, `NeverOverdrawn`, `HistoryGrows` and `HistoryKeyed` assume none
of the three, `LinksFollow` assumes `PromptMaster`, and `BookedOnce`, `AnsweredKept`,
`ServersAgree` and `AnswersDurable` assume all.

`Detector` counts time in the seconds of `time()`. Pings of a second are handled
in it, and a pass of probing, which compares a few numbers and sends a few
datagrams, takes none; within the second all steps interleave. Two constants:

* `Delays`, the seconds that may lie between two pings of a server. The code says
  one; a busy machine, or a lost datagram, makes it more.
* `PromptMaster`: a `handle_ping` thread is through before main receives the
  next ping.

The servers without a startup delay run when the master starts. What a failed
server's `since` was does not matter, and is 0.

## 3. Runs

`tlc -config <run>.cfg <module>`. In the runs of `MCBankChain` all values come
from small sets: accounts `a`, `b` and the "port" account of a misread
notification, amounts 1 to 3. State counts are distinct states.

### Runs that pass

| Run (module) | Instance | Properties | What it shows | States |
|---|---|---|---|---|
| `Expire` (`MCBankChain`, fair) | 3 servers, each drops every second request, `s2` ends at its fifth message, `s1` at its seventh; `ScriptLong`; threads interleave freely | `SerialReplies`, `Durable`, `Agreed`, `Remembered`, `EveryRequestAnswered` | requests are lost and sent again, identifiers are used again with the same and with another type, a withdrawal is refused, the middle server and then the head disappear and the chain is repaired twice; the client gets every answer, and the right one, the servers left agree and know every answered update, no server rewrites history | 1,443 |
| `Extend` (`MCBankChain`) | 3 servers and a fourth that joins at any time, two of the three end around it; two clients, nine requests | `SerialReplies`, `Durable`, `Agreed` | replayed history gives the new tail the right balances and history, and it answers right, repair and extension in one run | 28,675 |
| `Kill` (`MCBankChain`) | 4 servers, any two killed at any time; clients retransmit | `Booked`, `Kept`, `Linked` | nothing is applied twice, an answered update stays with every server left, links follow the master's chain | 231,529 |
| `Async` (`MCBankChain`) | 2 servers, one joins late and ends at its second message, one is killed at any time; clients and threads of the servers interleave freely | `TypeOK`, `NonNegative`, `Linked` | balances and links are right whatever overlaps at the servers and the clients, also when a server is killed between `connect` and `write` or becomes the tail under a `Sync` thread | 506,798 |
| `Restless` (`MCBankChain`, fair) | 2 servers, one joins late, both may be killed at any time; clients send again at any time and at once after a failure, threads of the master overlap | `Termination` | the limit of retransmissions ends the client, although each notice of a failure sets it back | 110,348 |
| `Watch` (`MCDetector`, fair) | 3 servers, one started late, each may fail at any time; pings one or five seconds apart | `TypeOK`, `NeverSuspected`, `FoundInTime`, `MembershipHolds`, `KnownLeave`, `StartedJoin` | the detector implements `Membership`, suspects no live server, finds a failed one in twenty seconds even when probing steps over it, and takes in a new one | 336,623 |
| `Setup` (`MCSetup`) | every list of up to 4 servers of the banks 1, 2 and 12, with and without delay; every list of up to 3 of 5 requests; 3 random requests | `TypeOK`, `SameChain`, `LinksAgree`, `RequestsRouted`, `GeneratedApart`, `DrawnInShares` | the programs make the same chain of the file, each server takes the right next, a request gets to one client, and generated ones have identifiers of their own | 234,280 |

### Runs that find the code and its own words disagree

Each checks one property that a comment or message of the program states.

| Run | Property | What happens |
|---|---|---|
| `Overlap` | `EveryRequestSynchronized` | the `Reply` thread of the old tail holds a request when the chain is extended. `Sync_procTrans` sends the history as it is, the thread adds its request after that, and the new tail never hears of it |
| `Overtake` | `TailExtended` | the last server fails. The probing thread looks up that the server before it has no next; a server joins, is put behind that one, and a thread of its own announces it; then the probing thread sends what it looked up. The old tail takes itself for the tail for ever, and nobody forwards to the new one |
| `Reorder` | `NewTailSynchronized` | the history is replayed in the order of strings, `1.1.10` before `1.1.9`: a withdrawal precedes the deposit it needs and the new tail has another balance |
| `Unborn` (`MCDetector`, fair) | `FailedLeave` | a server of the file dies before its first ping. It has no entry in `time_sheet`, probing never looks at it, and it stays in the chain |
| `Twice` (`MCDetector`) | `JoinsOnce` | two delayed servers ping in one second. The second ping overwrites the buffer before the first thread has read it, both threads find the server not in the chain, and both add it |

The runs are of `MCBankChain` where no module is given.

### Bounds

* **Servers**: three are the least with a head, a middle and a tail, and every
  case of chain repair concerns a server and its two neighbours. `Kill` has
  four, so that two neighbours may die and two servers remain to be compared;
  `Extend` has four, so that a server may join what is left of three. `Watch` has
  three: the entry that is stepped over lies between two others.
* **Kills** (`MaxKills`): 2 in `Kill` and `Restless`, 1 in `Async`, where a life
  time ends the other server. A failure during the repair after another needs two. In
  `Watch` all servers may fail.
* **Threads** (`ThreadId`): a server takes no message that needs a thread when
  all are in use. The C program has no such limit, so the runs take enough
  threads for none but `Async` and `Restless` to stop at the limit: there each
  server has two, which threads that wait for ever may use up, so these do not check
  for deadlock. `Setup` does not either: it ends when the file is read. Every other
  passing run does. `Watch` has one thread, as `PromptMaster` wants it, and
  `Twice` two.
* **Pings** (`MaxQueue`, `MaxAge`): `Watch` has one ping in the socket and one in
  the thread, which is what can meet, as pings of a server are a second apart. An
  age is counted to 21, one more than the 20 that `FoundInTime` allows three
  servers.
* **Requests**: a script of one to nine; each makes its point by who sends
  what, in which order, under which identifier (comments in `MCBankChain`).
* **Threads of the master** (`MaxHands`): 1 in `Restless` and `Overtake`, which with
  the probing thread makes two; one server joins.
* **Retransmissions** (`RetransTime`): 1; each retransmission is the same
  message as the first. That is enough to reach the limit, and for a failure to set
  the count back. `Async` has 0: without patience the client gives up early, and
  the messages that interleave are those of its two requests. `Restless` has one
  request, so that the retransmissions fit in.
* `NoLimit` is a life time of 99 messages, more than any run has.
* **Files**: a server depends on its own line and the next, the chain of a bank
  on all its lines; with four lines a bank is entered, left and entered again.
  Bank 12 is there for the first digit of its number, which is bank 1.

### What was seen besides

The following came up while the runs were made. The model shows each of them. Of
most no comment of the code promises the contrary, and the two that one does
need no run to be seen, so they are hazards in `PROJECT.json` and not findings.

* `PromptThreads` holds in `Extend` and `Kill`. Without it a thread may
  read another message's buffer or argument. The worst case met: a `Sync` thread
  of a retransmission is slower than the notification behind it, forwards the
  text of the notification as a request, and the tail, which then has no address
  to reply to, exits in `Sendto`; the client sends again, and so the servers of a
  chain can go one after the other. `Booked` and `Agreed` need the assumption
  when servers are killed or join; `NonNegative` and `Linked` and their theorems do
  not. `Booked` speaks of servers none of whose threads is runnable.
* With threads that overlap `Booked` does not hold on the instance of `Kill`: the
  second server is killed when its `Sync` thread has handed the ACK on, the first
  processes its request and pushes it to the third as history, and there `Sync_Hist`
  and a `Sync` thread that has not yet processed the same request both look it up
  before either enters it. It is booked twice.
* A server killed at any moment leaves less than one that ends at its life time,
  which it does before it touches the message. The tail killed between its
  reply and its ACK leaves an update in `sentTrans` of the others, known to the
  client and processed by nobody: `Kept` holds, `Durable`, `Agreed` and
  `SerialReplies` do not. So `Kill` checks the first.
* After the death of the middle server its successor gets the request in
  `sentTrans`, stores it and passes it on, and the tail never processes, answers
  or acknowledges it (`Sync_Sent`), unless the client sends it again. A comment
  (`server.cpp:333`) says "process them".
* When the last server has failed the client calls `front()` of an empty list
  (`cpc = "crashed"`): its test for an empty chain looks at the map of the banks,
  and the message at `client.cpp:164` is not reached. `Termination` counts this as an
  end.
* A reply to an earlier request that was sent twice is taken for the reply to
  the next one.
* A withdrawal that is refused for want of funds becomes history as if it had
  been processed; sent again, it is answered Processed. The bank of
  `IdealReplies` does the same.
* When its next server is gone, `Sync` ends without closing the connection to
  the previous one, and the thread there waits for ever.
* A notification that comes in the second in which no client has its socket open
  is lost, and the clients keep a dead head or an old tail.
* A server with a startup delay that is not the last of its bank in the file has
  a next when it joins at the tail: the chain is a cycle. And a server of a bank
  with two digits takes no next, or one of another bank. `LinksAgree` therefore
  speaks of files that are `InOrder`, as `test.txt` is.
* With pings more than five seconds apart a live server is declared failed, and
  comes back at the tail of the chain at its next ping, its own next still what
  it was. `Watch` and the theorems take five seconds for the longest delay.

### Fairness

`FairSpec` of `BankChain` and of `Detector` is `Spec /\ WF_vars(Progress)`:
as long as something can go on by itself, something does. The operating system
schedules processes and threads; sleeps and `select` with a time-out end;
datagrams and connections on one machine arrive; the master's loops never end.
Not in `Progress` are `BankKill`, and `Start` and `Crash` of `Detector`: nobody
has to kill or start a server. This is weaker than fairness for each process,
and enough, since no process of the model can run for ever by itself: in
`Detector` a second passes only when the pings are handled. A thread that waits
for an ACK has no step, so fairness does not help it.

## 4. Proofs

### The bank

`tlapm` checks the following in `BankChainProofs`, `LinkProofs`, `BookProofs`,
`KeptProofs` and `AgreedProofs`, for any number of servers, clients, threads and
requests and any configuration, whatever overlaps, but where a hypothesis says
otherwise, from the named assumptions on
the constants (`LedgerAssumption`, `WireAssumption`, `ServerAssumption`,
`ClientAssumption`, `MasterAssumption`, `BankAssumption`), which TLC evaluates in every run.

| Theorem | States |
|---|---|
| `TypeCorrect` | `Spec => []TypeOK` |
| `NeverOverdrawn` | `Spec => []NonNegative` |
| `HistoryGrows` | `Spec => Remembered` |
| `HistoryKeyed` | `Spec => []Keyed`: one entry per identifier in a history |
| `LinksFollow` | `Spec => []Linked`, assuming `PromptMaster` and `DelayedLast` |
| `BookedOnce` | `Spec => []Booked`, assuming `Timing` |
| `AnsweredKept` | `Spec => []Kept`, assuming `KeptTiming` |
| `ServersAgree` | `Spec => []Agreed`, assuming `AgreedTiming` |
| `AnswersDurable` | `Spec => []Durable`, assuming `AgreedTiming` and `QueriesApart` |

The inductive invariant is

    BankInv == TypeOK /\ NonNegative /\ LookedUp

`NonNegative` alone is not inductive. `ProcReq` reads the balance and writes
the new one later; in between other threads change the account, so what is
written does not follow from the account as it then is but from the thread's
own copy. `LookedUp` says that this copy is not negative while the thread is
between the two. A withdrawal is applied only if the copy covers it, so the
result is not negative, out of date as it may be.

The proof has a lemma for each action of a server, a thread, the client and the
master, and lemmas for the operators they are built from. `ServerInv` collects
what `BankInv` says of servers, and `ServerInvNext` what is left to show of a
step once the variables it changes are done. `HistoryGrows` and
`HistoryKeyed` follow from `NextHistory`: a step leaves a history alone, does
`AckHist` to it, or ends the process; and from `AckProcKeeps`, what `AckHist`
does to a history.

The other theorems rest on what `BankChainProofs` has of the chain while the threads of
the master leave each other alone:

    ChainInv == PromptMaster /\ BankInv /\ NoServerTwice /\ Known /\ SheetInChain

the chain has no server twice; a spare server that sleeps is down and in no chain;
a server that clients have been told the failure of stays down until the servers are
told, without which the second half of a notification might remove a live server; and
only servers of the chain have an entry in `time_sheet`. These are lemmas and no
theorems: that the test for a server and its addition are one step is assumed by
`PromptMaster`, and how far the code earns it is the subject of `Detector`. All
processes but the master do no more to the chain than end servers (`EndsOnly`); the
master's steps each have a lemma.

`LinksFollow` is in `LinkProofs`. That each server of the chain has its successor
for its next is false most of the time: between the change of the chain and the
last server that reads of it come the thread of the master, its two halves, and
the datagrams. What is inductive is

    LinkInv == ChainInv /\ MembersTold /\ OthersTold

`Told(s, p)` says what the last notification on its way to a server will set, or,
if there is none, that its next is `p`. A server of the chain has been told its
successor, *or* the thread that will tell it of the extension is between
`client_notify` and `server_notify` (`MembersTold`); a removal needs no such
exception, since `server_notify` for it changes the chain and tells the server
before in one step. That is `PromptMaster`, and `Overtake` shows that it is needed. `OthersTold` is for the servers still to come: one that
joins is the tail, so it must have no next. That is where `DelayedLast` is
needed, which says that the servers with a startup delay are the last lines of
the list, as in `test.txt`: a delayed server takes the next line for its next
when that has no delay, and would join with a next. All runs have it.

`BookedOnce` is in `BookProofs`. It assumes `Timing`: `PatientClients`,
`PromptThreads` and `PromptMaster`, a `fault_delay` that is not zero, and `DelayedLast`. This is how
`Kill` and `Extend` are configured. What could go wrong is that two threads of
one server process at once, or that one reads another request in main's `ARGS`
than it looked up. Both come down to where requests can be, and the invariant is
built up to that:

    OrderInv == PromptThreads /\ ChainInv /\ Silent /\ Downward /\ Shape
    WayInv   == OrderInv /\ OneRequest /\ FinishBehind /\ Awaited
    BookInv  == WayInv /\ BooksInv

* `OrderInv`: requests go down the chain and acknowledgements up. Whom a
  server has for its next, or will have when it has read its notifications, comes
  after it in the master's chain, and who waits for its acknowledgement comes
  before it. A server that is down has nothing.
* `OneRequest`: one place at most has a request on its way. It is a datagram or
  a connection that waits to be read, a thread that has it on its way to the tail,
  the tail's thread, or one that has got the acknowledgement and not passed it on
  (`Front`). A thread that has passed it on processes, and `FinishBehind` says
  that meanwhile what is on its way can only be that acknowledgement, at a server
  before it. So two threads of a server never process at once.
* `Awaited`: more threads may wait than there are requests, for a server that is
  blocked for ever, or with a request that was sent again. All threads of a channel
  share one `ARGS` object, so such a thread, if it were acknowledged, would book
  the request that came in last, which nobody may have added to `sentTrans` yet.
  The invariant says that there is *some* set of waiting threads, all before the
  place of the request, that has every thread an acknowledgement can reach from
  there (`Await`), and that those of them that are through with `sentTrans`
  find the request of `ARGS` there or in the history (`Stored`). When nothing is
  under way the set may be empty.
* `BooksInv`: a thread that processes has the request of `ARGS` and knows what
  the history says of it (`Prepared`); one that may process finds its request in
  `sentTrans` (`Grounded`); and what has changed the balance is in the history or
  with a thread between the two (`Balanced`).

A client sends when it is `Quiet`, and then nothing is on its way; this and
`PromptThreads`, under which main does not touch `ARGS` while a thread can run, is
all the proof uses of `Timing` besides the order of the chain. TLC checked the
parts of `BookInv` on the instances of `Kill` and `Extend` before they were proved,
with `Spot` cut to the numbers that occur and `Awaited` tried for all sets of
threads that wait.

`AnsweredKept` is in `KeptProofs`. It assumes `KeptTiming`: `Timing`, no server with
a startup delay (`NoneDelayed`), and no query that has the identifier of an update
(`QueriesApart`). `Kill` is configured like this. The invariant is

    KeptInv  == BookInv /\ PlaceInv /\ Steady /\ Carried /\ Everywhere
    PlaceInv == NoJoins /\ NextNearest /\ ViewOrdered /\ FailsTrue

* `Carried`: a request on its way has passed only servers that have it in
  `sentTrans` or `procTrans`, or have a thread that is about to put it there
  (`Holds`); they do not lose it, as an acknowledgement moves it from one to the
  other. By `BookInv` there is one request at a time, and each place it comes to
  follows from one where it was before: the same server, the one before, which
  keeps it, or the client (`Follows`, `Sound`).
* A server could be left out where failures change the chain. `NextNearest` says
  that whom a server forwards to, now or when it has read its notifications, is
  the nearest server left after it, or none if nobody is; `ViewOrdered`
  that the client's chain has every server left, in the order of the master's, so
  nobody left comes before the one it takes for the head. Neither needs the views
  to be up to date.
* `Everywhere`: a reply comes from a server without a next, and then nobody is left
  after it. So when it is sent the request has passed all.
* `Steady` says that what a thread forwards from `buf` is the request of its `ARGS`,
  and that a tail has no next until its thread has replied.

`Kept` follows since nobody is about to do anything when all is quiet (`Settled`).

Both of the other hypotheses are needed; TLC finds counterexamples when `Kill` is run
without them. `Sync_procTrans` of an Extension passes on `procTrans` alone: a server that
joins while another fails misses what only `sentTrans` has. And clients take any
reply for the one they wait for: a late one to a query that has the identifier of an update
then counts as the answer to the update.

`ServersAgree` and `AnswersDurable` are in `AgreedProofs`. They assume
`AgreedTiming`: `Timing`, no server with a startup delay, `Itemized`, and nobody
killed (`MaxKills = 0`), so that servers end at their life time only. This is
`Expire` with prompt threads and a `fault_delay`. The invariant is

    AgreedInv == BookInv /\ PlaceInv /\ Steady /\ PlainInv /\ Looked /\ Level
    PlainInv  == LinkInv /\ Outdated /\ ViewFull /\ TextsPlain /\ Addressed
                 /\ Sought /\ PathInv

* `Level` is what it is about: there are two states of the books, `O` and `B`, and
  `B` is `O` after the request that is on its way back from the tail (`After`). A
  server that has it still to process (`Owing`: it comes before the place where the
  request is) has `O`, all others have `B`; who is in the middle of processing is
  counted with the books it will have when it is done (`Done`). When no request is
  on its way back, `O` and `B` are the same, and so are the books of all servers.
* For that, a request that has reached the tail must reach every server before it
  on the way back. `PathInv` says that the request has left a trail: the server
  before has a thread that waits for exactly this request, connected to the one
  behind, and so on up to the head of the servers left (`Trail`). A failure would
  break the trail, and the proof shows that none does: who waits takes no message
  (`Quiet`, `WaiterLives`), and who has its turn finds its next server or its client
  (`TurnLives`). Life times end a server when it takes a message that has changed
  nothing yet.
* `Sought`: queries are answered by the tail at once and leave no trail. That the
  client takes the right server for the tail needs `ViewFull` and `Outdated`: what it
  does not know of the chain has failed, and so has the next of a server with an
  unread notification.
* `TextsPlain` and `Addressed`: what is forwarded is the client's text, with a sender
  to reply to; here `Itemized` is needed. `Looked`: a thread about to write a balance
  has the one that is there. With one thread at a time `ProcReq` is then one step.
* Synchronization comes into it once: `Level` also says that what `Sync_procTrans` has
  sent is in the history where it arrives. So nobody applies it again in the order of
  the strings, which is what goes wrong in `Reorder`.

In a settled chain nobody is `Owing` or processing, so all books are `B`. TLC checked
the parts of `PlainInv`, `Looked` and `Level` on that instance, with `AllBooks` cut to
the books of the servers and what they are after a request of the script. The
hypotheses are needed, and TLC finds counterexamples without them. With a kill, one
server has processed the request and the one before it never does. A delayed server
that joins replays the history in the order of strings, as in `Reorder`. Without
`Itemized`, a forwarded request is taken for a synchronization by the next server,
which does not acknowledge it.

### The failure detector

`tlapm` checks `DetectorProofs` from `DetectorAssumption`, for
any number of servers and threads and any bounds. All but the first assume `Timely`: `PromptMaster`, and
delays of at most five seconds.

| Theorem | States |
|---|---|
| `TypeCorrect` | `Spec => []TypeOK`, with any timing |
| `LiveNeverSuspected` | `Spec => []NeverSuspected` |
| `NoServerTwice` | `Spec => []JoinsOnce` |
| `ImplementsMembership` | `Spec => MembershipHolds`: every step of the detector is a step of `Membership` or leaves its variables alone |
| `FoundSoon` | `Spec => []FoundInTime`: no entry gets older than two periods of probing and one more for each other server |

The inductive invariant is

    DetectorInv == TypeOK /\ Held /\ Born /\ OnTime /\ Young /\ Overdue
                   /\ OneThread /\ JoinsOnce

What has to be seen is that the server probing removes is dead *and* has no
ping on its way, for a late one would bring it back. `OnTime` says that the
entry of a server that has not failed is at most five seconds old, and, unless
a ping is unread, no older than that ping. So a server with an older entry is
dead (`Overdue`). `Young` says that the entry of a server with a ping on its way
is not that old: the ping was sent in time, and no second passes until it is
handled. So the removed server has none. `Born`, that a server not yet started
has neither entry nor ping, carries this over its start. `OneThread` with
`JoinsOnce` says that the test for a server and its addition may be taken
together. `Held` says that what threads and iterator refer to is a server.

`FoundSoon` comes last in `DetectorProofs`. Probing steps over the entry after one that it
erases, so a failed server may wait for another period, and for another. What
bounds this is that each entry stepped over costs a server: the one erased is
dead, has no ping on its way, and will never be in `time_sheet` again. `Gone` is
the set of these servers; it only grows (`GoneGrows`), and the invariant is

    InTime == \A u \in Server : sheet[u] + Away(u) <= Allowed

where `Away` is the least time until probing looks at an entry and `Allowed` two
periods and one for each server in `Gone`. A second moves one from `Away` to the
age; an erasure adds a period to `Away` of what is stepped over, and to
`Allowed`. A server with an entry is not in `Gone`, which leaves the number of the
others.

`SequenceFacts` has the lemmas about sequences all proofs use: a server in a
chain has a first place (`FirstIndex`, by the well-foundedness of finite subsets),
and what removing and appending do to a chain without repetitions.

### The configuration file

`tlapm` checks `SetupProofs` from `SetupAssumption`: for all files of the form of
`test.txt`, with any number of banks up to 99, servers, clients and requests, and
all random numbers.

| Theorem | States |
|---|---|
| `TypeCorrect` | `Spec => []TypeOK` |
| `ChainsSame` | `Spec => []SameChain`: client and master start from one chain |
| `LinksAlike` | `Spec => []LinksAgree`: each server takes for its next the one the master's chain has |
| `IdsApart` | `Spec => []GeneratedApart`: generated requests have identifiers of their own |
| `SharesKept` | `Spec => []DrawnInShares`: types come as often as asked for |

The inductive invariant is

    SetupInv == FileInv /\ MasterInv /\ ClientInv /\ SameInv /\ ChainInv
                /\ ServersInv

The three loops have flags of their own, set and reset at different headings,
and some are never reset. The invariant says for each flag at which places of the
file it is set (`MasterFlags`, `ClientFlags`, `ServerFlags`): then every step is a
comparison of places, and it follows that master and client add the same servers
(`SameInv`). `ChainInv` says that the chain of a bank is its servers without
delay in the order of their lines. `ServersInv` says what a server knows before
and after its own line and the next.

For `LinksAlike` the next line has to be related to the next element of the
chain. In a list that is `InOrder` no line of the same bank without delay can lie
between two neighbours of the chain, and if the next line is of another bank or
delayed, none of the bank follows at all. `SharesKept` sees the numbers of each
type as an interval, with one number more or less at either end where a sum of
floats came out too high; the probabilities add up to the hundred numbers.

### Only model-checked

* `SerialReplies` compares the replies with those of `IdealReplies`, which is defined
  by recursion over the script: that the books `B` of `Level` are the ideal bank's
  after as many requests is an induction over data. `ServersAgree` and
  `AnswersDurable` are what can be said of it without.
* `Agreed` and `Durable` where a server joins (`Extend`): the new tail is not level with
  the others until it has replayed the history, and that this yields the same balances
  depends on the order of the identifiers (`Reorder`).
* `RequestsRouted` speaks of `SelectSeq`, which is defined by recursion: that it
  is what appending one request after the other comes to is an induction.
* The liveness properties (`EveryRequestAnswered`, `Termination`, `KnownLeave`,
  `StartedJoin`) hold under fairness, which is beyond the prover.

## 5. What is not modelled

* **Data races inside one call.** A thread that walks `sentTrans`, `procTrans` or `sChain`
  while another changes it may do anything; a call on a list or a map is a step.
  `sent` is a set, so the order of the list, which a synchronization would
  follow, is any order.
* **Kills inside a synchronization.** The pushes of `Sync_sentTrans`, `Sync_procTrans`
  and `Sync_Sent` connect and write in one step.
* **Restarts.** A server that has ended is not started again by hand.
* **The end of the master or of the client by a signal**: nothing is stored, and
  no program handles it.
* **Numbers**: balances and amounts are integers, where the code has `float`. Of
  the probabilities of random requests `Setup` keeps that a sum of floats may come
  out above the number it stands for.
* **Text**: characters, partial reads, `readline`. What a text is taken for is.
* **Logging, build files, the unp library.** Of the library the model takes what
  its calls do as the code uses them.
* **Other banks**: they share neither servers nor clients, see section 2. In
  `Setup` there are several, since one file names them all.

## 6. Plan

Done: `Ledger`, `Wire`, `ServerNode`, `ClientNode`, `MasterNode` and `BankChain`
with their properties; `Membership`, implemented by `Detector`; `Setup`; a run for each disagreement met
on the way that takes an interleaving or a file of its own to see; the theorems
above.

An abstract `Bank` with one step per request was planned as well. `Ideal` and
`IdealReplies` say the same of the replies in a page less, and `SerialReplies`
checks it, so there is none.

Left, in this order:

* `Arguments`: one server's loop and threads alone, with the shared buffer and
  `ARGS`, to say exactly which orders are harmless.
* `Replay`: which histories a string-ordered replay reproduces, over bounded
  histories, against the order they were made in.
* Restarts by hand of a server that has ended.
