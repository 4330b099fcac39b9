# myQQ in TLA+

A verification project for myQQ, a chat program in C: a TCP server with a user
list in memory and a user table in sqlite, interactive clients, a chat over UDP
beside it, and a media sender and receiver built on GStreamer. The modules model
the code under `src/`; TLC checks small instances, and TLAPS proves the theorems
for every value of the constants. Names of operators are the names of the
functions in the code wherever there is one.

## 1. Inventory

### The parts and the state they keep

| part | source | state | operations |
|---|---|---|---|
| User list | `userList.c` | a linked list with a head node: name, socket descriptor, `logFlag`, `rtspPlayFlag` | `addUserToList`, `findNodeByName`, `findNodeBySocketID`, `deleteNodeByName`, `setLoginBySockID`, `numberOfOnlineUsers` |
| TCP server | `server.c` | `userHead`, epoll set, `rtsp_server_pid`, `rtsp_client_num`, the UDP server's pid | `main` (open, load, listen, accept), `epollProcess` (one message of one connection, or its end), `handleMessage` (one case per message), `brocastMessage`, `brocastOnlineUserInfo` |
| User table | `sqlite3_userInfo.c` | table `qqUserInfoTab` (no UNIQUE constraint), the write lock `s_sidb_write_lock` | `myQQ_Register`, `myQQ_LoginCheck`, `myQQ_ChangeName`, `myQQ_ChangePassward`, `myQQ_UnRegister`, loading all users |
| Password storage | `sqlite3_userInfo.c` | the column `passward`: shifted bytes, the factor behind them | `qq_encrypt`, `qq_un_encrypt`, `myQQ_IsSamePassward` |
| Client | `user.c` | `s_loginFlag`, chances left, `rtspClientPid`, an alarm | `getCommand1` (menu), `UserRegister`, `UserLogin`, `talkingWithServer`, `handleMessage` |
| UDP chat server | `udp_server.c` | two processes; the receiver has the list of clients | `recv_message` with a handler per message, `send_message` for the operator |
| UDP chat client | `udp_client.c` | two processes, none of which keeps a list | login, chat, ask, private chat, quit |
| Media sender | `rtsp_sender.c` | the port of RTSP, GStreamer's pool of sessions, a timer; the descriptors it inherits from the server | start, `timeout` (clean up sessions), killed by the server |
| Media receiver | `rtsp_receiver.c` | two pipelines, two timers with a static flag each | start from its options, `timeout_videosize_change_cb`, `timeout_state_control_cb`, killed by the client |
| Message packer | `messagePacker.c` | none | not called by any program; only the enum of the header is used |
| Tools and data | `get_network_info.c`, `all_gcc.sh`, `serverIp.txt` | none | none that keep state |

### How they interact

A client opens one TCP connection. The server has one thread: `epoll_wait`, then
for each ready descriptor one `read` of a whole `msg_st` and its handler. A
handler works on the list and, by *name*, on the table; it answers on the
connection and writes news to the descriptors of the nodes that are online. The
user a command is for is the *first node that carries the descriptor*; a
registration and a login put the descriptor into a node, and nothing ever takes
it out again. `findNodeByName` compares `strlen(name)` bytes, so a name finds
every node it is a prefix of. A client waits for the answer to a registration or
a login with a plain `read`; afterwards commands go out without waiting and
answers come in between, so the two directions cross. The server forks the media
sender at the first request to play, counts players, and kills it at the last
one; the sender may end by itself before that, when it cannot attach to its port,
and the server is not told and keeps its process id. The client forks a receiver
when the answer comes. The UDP server is a child of the TCP server; its parent
process and its receiving process talk by datagrams and signals. Children inherit
what their program has open: those of the server the socket it listens on, the
media sender also the connections of the clients; those of a client (the media
receiver and the UDP client) its connection to the server. A client waits for the
end of the UDP client it starts; meanwhile it reads nothing.

### What is hard in it

* the identity of the user of a connection (descriptor, node, name, row) through
  several registrations, logins and renamings on one connection;
* two stores (list, table) written one after the other with no comparison, a
  change of password that is a deletion and an insertion, crashes in between;
* a write lock that one error path keeps, in a server with one thread;
* a counter of players kept at four places, two that count up and two that count
  down, beside a mark in each node that a logout leaves set;
* clients that take any message for an answer, blocking writes that let a
  client that does not read stop the server;
* descriptors that are never closed, and descriptors that children inherit: what
  survives the server keeps its port and its clients' connections;
* a media receiver and a media sender that are started and killed by two programs
  on what each last heard of the other, and timers of both that race;
* processes that kill one another across `fork` (the UDP server);
* a list of UDP clients kept by name over a transport that loses and reorders.

`PROJECT.json` lists every one of them under `hazards` with its line and the
property aimed at it.

### What makes each part correct

* *Table*: one row per name; nobody's account is overwritten or lost but by a
  change of password that was cut short (`UniqueNames`, `ImplementsAccounts`).
* *List and table*: the same names between two handlers (`ListIsTable`).
* *Connections*: who is online is bound to a connection of this run that is still
  served (`OnlineConnected`, `GhostsWereShared`), and has a client that talks
  (`OnlineIsServed`); a client that talks is online (`TalksLoggedIn`).
* *Media*: the server has the process id of a sender exactly while players are
  counted, and every node marked as playing is counted (`MediaCounted`); a client runs
  a receiver when the server counts it (`PlayerIsCounted`), and not without a
  sender (`PlayersHaveSender`), each up to the exceptions named in section 2.
  A receiver's session lasts while it lives (`LiveSessionStays`) and little longer
  (`DeadSessionGoes`); sound and picture come from one place (`SameSource`).
* *Processes*: nothing starts on a port that a process of an earlier run holds
  (`PortsAreFree`).
* *Progress*: the server does not block itself (`NeverHung`); who registers or
  logs in gets an answer (`LoginAnswered`).
* *Password*: it opens the account, no other text does (`ImplementsSecret`).
* *UDP*: the list counts the clients here; the receiver survives what clients
  send; answers go to who asked (`ListCounts`, `ReceiverLives`, `ListedIsHere`,
  `AnswersReachAsker`).

## 2. Modules

| module | what it is |
|---|---|
| `UserList` | the list as operators over a sequence, element 1 being `head->next` |
| `Accounts` | abstract: a set of accounts with unique names |
| `Server` | the TCP server with list, table, lock, epoll set and media sender, open to any client; extends `UserList`, implements `Accounts` |
| `ServerProofs` | theorems about `Server`: types, names, media, lock, refinement |
| `OnlineProofs` | theorems about `Server`: who is online; extends `ServerProofs` |
| `ListLemmas` | what operations on sequences return, and which kinds of messages a queue holds in which order; used by the three modules of proofs about lists and queues |
| `MyQQ` | `Server` composed with one client per connection over queues in both directions |
| `MyQQProofs` | theorems about `MyQQ`: types, list and table, who talks and who is online; extends `OnlineProofs` |
| `Processes` | `MyQQ` with the processes around it: the two of the UDP server, and what is left of them when the TCP server ends |
| `ProcessesProofs` | theorems about `Processes`: ports, media senders, who plays; extends `MyQQProofs` |
| `Media` | the timers of media receivers and sender, in time |
| `MediaProofs` | theorems about `Media` |
| `Secret` | abstract: one account's password as a text |
| `Passward` | the cipher and the stored column, implements `Secret` |
| `PasswardProofs` | theorems about `Passward` |
| `UdpChat` | the UDP server's two processes, its clients and the network |
| `UdpProofs` | theorems about `UdpChat` |
| `MCServer`, `MCMyQQ`, `MCProcesses`, `MCMedia`, `MCPassward`, `MCUdpChat` | instances for TLC |

### Server

One action per case of `handleMessage`, one for the end of a stream (`Quit`), and
`Accept`, `AcceptFail`, `Crash`, `Start`. A handler is one action because the
server has one thread and no handler waits in the middle; the exception is
`MSG_USER_CHG_PW`, whose deletion (`ChangePassward`) and insertion
(`FinishChange`) are two actions, so that `Crash` fits between them (its other
error paths lie there too). `MSG_USER_REGIST` and `MSG_USER_UNREGIST` write the
table once; a crash between that write and the one to the list has the same
effect as a crash after the handler, since the list does not outlive the process.

* `table` is the set of rows. That it is a set loses nothing the properties tell
  apart: two equal rows could come only from an insertion of a name that is
  there, which `UniqueNames` (with different passwords) is about.
* `writeLock` is what is left of `s_sidb_write_lock` between handlers: each writer
  takes and releases it, but `qq_sql3_insert` returns with it when
  `sqlite3_prepare_v2` fails (`LockForever` is the next writer).
* `Faults` names the calls that may fail. Look-ups do not fail in the model.
* `conns` counts accepted connections; descriptors are never closed, so the k-th
  connection has the k-th descriptor, and when `MaxFd` are used `accept` fails
  and the server exits. `NoFd` (0) is the descriptor of nodes loaded at the start.
* `sent` is what the last step wrote. The messages of one `sendUserAcountInfo`,
  one per user, are one message with the set of names. The
  descriptor that `Unregister` reads out of the node it has freed may be any.
* `shared` is auxiliary: the descriptors that were in two nodes at once.
* `PrefixOf` is the relation `strncmp(userId, name, strlen(name)) == 0` on the
  names in use; the only assumption is that it is reflexive.

### MyQQ

`at[fd]` is the place of the client in `user.c`: the menu, waiting for an answer,
at one of the questions, talking, gone. `toServer` and `toClient` are the queues of
the connection, `EOF` the end of a stream. `Deliver` is one round of
`epollProcess` for one descriptor: it takes the head of the queue, runs the
handler of `Server` and carries what was written to the clients (`Carry`). A
write to a client whose queue is full blocks the server: `Room`. `EnterTalk` sends
`MSG_REQ_OL_USERS`, as `main` does after the menu. After a crash the clients read
the end of the stream; the server starts again when they are gone, with the same
table.

`heirs` are the connections the media sender inherited: all that were accepted
before it was forked (`Carry`); the sender lives while there are any. It may end by
itself (`SenderFails`, with `"attach"` in `Faults`), when
`gst_rtsp_server_attach` fails: the server, which does not wait for its child, keeps
the process id and goes on answering `MEDIA_PLAYING`. When the server ends first
(`Stop`), the clients at these connections read no end of the stream until the sender
ends or somebody kills it (`KillSender`), and the server cannot start, because the
sender holds the listening socket too (`Boot`). `player[fd]` says that the client has a
media receiver, `rtspClientPid`; with `"fork"` in `Faults` a client that is told to
play may stay without one (`ReadTalk`). `leaving` is the sleep of two seconds between
`MSG_USER_QUIT` and the end of the process, `udp` the wait for the UDP client.
`astray` is auxiliary: the clients that went on to talk without a login (a wish to
register another name that `getCommand1` takes for one). Each user has his own set
of commands, `Uses[fd]`.

A message to a client is kept by its type only: the client prints the rest.

### Processes

`parent` and `receiver` are the two processes of the UDP server as the TCP server
sees them; what they do with datagrams is in `UdpChat`. `BootAll` is the start of
the TCP server: `ListenFree` says that `bind` succeeds when no child of an earlier
run is left, since `SO_REUSEADDR` does not let two sockets listen on one port.
`StopAll` is a failing `accept`, which kills `udpServerPid` only, or a crash, alone or
with all children. `QuitRace` is the outcome of `SERVER_QUIT` against SIGKILL, which
`UdpChat` has in detail.

`crossed`, `left` and `unforked` are auxiliary and name the exceptions of
`PlayerIsCounted`: a stop that crosses an answer to an earlier request to play, a
`rtspPlayFlag` that a logout leaves behind and the next login finds, and a receiver
that the client could not fork, of which the server is not told. `PlayersHaveSender`
excepts `crossed` too, a sender that has ended by itself (`SenderFailed`), and a client
that is about to end or has a `LOGOUT_OK` on its way: between its logout and its
reading the answer, another user with its name may take over its node, and the mark
in it, and stop. Both except the clients that talk without a login (`astray`) and those
whose descriptor is in several nodes (`shared`).

### Media

Time is counted in seconds. A timer that is due is called before time goes on
(`NothingDue`); calls of the same second come in any order. `session[r]` is what the
sender's pool knows of a receiver: the seconds its session is still good for. What
GStreamer does is external and modelled as far as the two programs rely on it: a
request renews the session (`Renew`), a change of state sends one (`Request`), and
`rtspsrc` sends them regularly while it plays, but not while it pauses
(`SendKeepAlive`). A receiver is killed without a word to the sender
(`KillReceiver`). `VideoLine` and `AudioLine` are the choice of source and
depayloader from the options, with the test of the wrong option in the branch for
the sound.

### Passward

`blob` is the column: `Stored(t, ef)` for the text `t` and the factor `ef` that was
drawn. `Shift` and `Unshift` are the arithmetic on one byte, which takes 0xff and
not 0x100 away. `chosen` is auxiliary (the text of the user) and is what is mapped
to `Secret`. `answer` keeps the text an operation was asked with beside its result:
without it the refinement would only say that *some* text has this result. Texts are strings of the bytes 1..254: the byte 0xff, which is in no
UTF-8 or GBK text, does not survive the cipher.

### UdpChat

Each client has a queue of datagrams to the server, from which any one may be
taken (reordering) or lost (`Lose`). A quit whose name `delete_list` does not find
ends the receiver (null pointer), and `print_online` of a name that is absent
writes to an uninitialised address: anything can happen to that answer. A `sendto`
that fails in `print_online` or `private_chat` ends the receiver too (`SendTo`, the
value `"unsent"` of `receiver`); the other writes only report the error.
`disturbed` is auxiliary: some datagram was lost or overtaken. `OperatorQuits`,
`server_quit` and `ReceiverKilled` are the race of the datagram `SERVER_QUIT`
against `SIGKILL`. `Abort` is the end of a client from the keyboard, which tells
nobody: it stays in the list.

## 3. Runs

| run | shows | bounds |
|---|---|---|
| `server` | `TypeOK`, `UniqueNames`, `MediaCounted`, `OnlineConnected`, `GhostsWereShared`, `ImplementsAccounts` under every message at any time, every fault, crashes and restarts; 130 thousand states | names `an`, `ann` (one a prefix of the other), two passwords, two connections per run of the server, two nodes, two counted players |
| `myqq` | `OnlineIsServed`, `ListIsTable`, `NeverHung` with two users who race for one name while one of them has a second, and `TalksLoggedIn`; 1.3 million states | names that are no prefix of one another, one password to start with and one to change to, one message at a time typed ahead, one chance to log in, failing deletions |
| `myqq_live` | `LoginAnswered` with a name for each client, one logging out and playing, one renaming himself to the other's name and chatting over UDP; 163 thousand states | as above, one counted player; a sender that cannot attach |
| `processes` | `PlayerIsCounted`, `PlayersHaveSender`, `PortsAreFree` with two users who share a name and play, one of whom stops and logs out; 907 thousand states | names `a` for the first user and `a`, `b` for the second, one message typed ahead, two counted players; failing `fork` of the server and of the clients, failing start of the UDP server, a sender that cannot attach; `UdpSettled` |
| `media` | `SameSource`, `DeadSessionGoes`, `LiveSessionStays`, `SizeAlternates`; 76 thousand states | one receiver at a time, which may be started again; sessions stale after 6 seconds, a request every 4 while playing |
| `passward` | `ImplementsSecret` | bytes 1, 2, 127, 253, 254; factors 0, 1, 2, 128, 253, 254; one or two bytes |
| `udp_chat` | `ListCounts`, `ReceiverLives`, `ListedIsHere`, `AnswersReachAsker`; 2.3 million states | three clients, two of one name, two datagrams of each under way |

Why the bounds are enough to meet the interesting cases. Two connections give two
users who race for a name, one user with two nodes, and one who stays when the
other goes; a third connection is the one that finds no descriptor. Two names are
enough for a prefix that finds the wrong node and for a renaming to an existing
name. Two passwords tell whether a row was overwritten. `MaxNodes` does not bind
where names are unique; where a renaming makes the list longer than the table it
cuts registrations off. `MaxPlays` cuts requests to play after two counts that were
never taken back, which is enough for a sender that outlives its players.
`Chances` is 3 in the code; with 1 both the question and its end are met.
`MaxQueue` bounds what a user types ahead: one message already crosses with an
answer and with news. The bytes in `passward` are the ends of the ranges and both
sides of the wrap. Two UDP clients with one name and one with another are the
least that tell a list by name from a list by client. In `media` the periods of the
timers are those of the code; GStreamer's session time-out is 60 seconds, and 6 is
the least that its only relation to the code, `Timeout > StatePeriod`, allows:
a shorter one leaves less room for a pause, not more. One receiver is enough there
since sessions do not touch one another.

`server`, `myqq` and `processes` use a VIEW without `sent`, which no action reads; the action
properties that do read it are checked in runs without a VIEW. `udp_chat` leaves
out `reply` in the same way. The CONSTRAINT of `processes`, `UdpSettled`, says that once
both clients are connected the UDP server runs as long as the TCP server does: all
its starts, failures and ends are explored before that and after the end of the TCP
server, since the clients' messages have nothing to do with them. `CHECK_DEADLOCK FALSE` is in `MCUdpChat.cfg`, where
all the processes may have ended, and in the configurations of the runs that look
for a violation.

### Runs that find the code to differ from what it says

Each checks one property that quotes the program, and TLC shows the program
breaking it; `PROJECT.json` has the quotations under `findings`.

| run | what happens |
|---|---|
| `change_passward` | register `a`, register `b`, log in as `a`, change the password: it is `b`'s that changes |
| `login_name` | a login as `an` puts `ann` online |
| `sender` | a user who unregisters while playing, or logs out while playing and then ends, leaves the sender running when nobody is connected any more |
| `restart` | `accept` fails, the server exits; the receiver of the UDP server is left and holds the listening socket, so the next server fails at `bind` |
| `rename` | a renaming to an existing name is confirmed; the table keeps the old name |

### Fairness

`FairSpec` of `MyQQ` assumes

* `SF(Deliver(fd))`: epoll is level-triggered and a round serves all descriptors
  that are ready, so a message that waits is handled though others keep coming.
  It has to be strong fairness because another client's full queue (`Room`)
  can disable the step for a while;
* `WF(FinishHandler)`: a handler that began runs to its end;
* `WF(ReadRegister \/ ReadLogin)`: a client that waits for an answer sits in `read`.

Nobody has to type anything, and nobody has to read while he is at a prompt. That
is why `LoginAnswered` allows for `~ Room`: a client at a prompt whose queue is
full blocks the server's write, and everybody waits. It also allows for `Held`: when
the server ends before the media sender, the sender keeps the connection open and
the client waits in `read` until somebody kills it. Both are the behaviour of the
code, not assumptions.

## 4. Proofs

Every invariant and every action property of a passing run is a theorem, proved
for every value of the constants that the assumptions of its module, and the
hypotheses stated below, allow. `LoginAnswered` stays with TLC: it is liveness
under fairness, and ENABLED is out of the prover's reach. No module declares a
RECURSIVE operator, and no theorem is about one or needs an induction over data.

### The server: `ServerProofs`, `OnlineProofs`

For every set of names, prefix relation, set of passwords, number of descriptors
and set of faults (assumptions: `PrefixAssumption`, `FdAssumption`,
`ServerAssumption`, of which finiteness of `Names` serves the orders of `Start`):

* `TypeCorrect`: `Spec => []TypeOK`. One step per action; the lemmas on the list
  (`AddLemma`, `ListLemma`, `SetLoginLemma`, `ListLemmas!RemoveLemma`) and on what
  is written (`WriteLemma`, `AnswerLemma`, `BrocastLemma`) carry it.
* `NamesAreUnique`: `Spec => []UniqueNames`. Not inductive: while a password is
  being changed the insertion that finishes does no look-up. `NamesInv` adds
  `ChangingFree`, that nobody takes the name in between; it holds because the
  one thread does nothing else in between.
* `MediaIsCounted`: `Spec => []MediaCounted`. The lemmas `PlayersSet`,
  `PlayersAdd`, `PlayersRemove` say by how much each operation on the list changes
  the number of players; `PlayersStep` says it for each handler.
* `ServerImplementsAccounts`: `Spec => ImplementsAccounts`, a refinement. Under
  `NamesInv`, every step of the server is a step of `Accounts` or a stutter.
* `ServerNeverHangs`: `Spec => []NeverHung`, by `LockInv`: without a failing
  preparation the lock is free between handlers.
* `OnlineAreConnected` and `OnlyTheSharedStay`: `Spec => []OnlineConnected` and
  `Spec => []GhostsWereShared`. Both are parts of `OnlineInv`, which speaks of the
  set of descriptors of the online nodes. `OnlineStep` says that a handler adds
  no descriptor to it but the one a login came from; `QuitShares` says that a user
  who is still online at a connection that ended is behind another node with
  the same descriptor, which is what `shared` remembers.

### The server and its clients: `MyQQProofs`

Also for any length of the queues, any number of chances and whatever the users type.
Without further hypotheses (`ClientAssumption` besides those above):

* `MyQQTypeCorrect`: `MyQQTypeOK` is not inductive, because a client that asks again
  takes one chance more away. `TriesInv` says that it asks only while it has one,
  `MessagesInv` that what is under way was typed, `FreshInv` that a descriptor
  that was not handed out has no client. `CoreInv` is these with the invariants of
  the server; `ServerMoves` says that each step of `MyQQ` is one of the server's or
  leaves it alone.
* `MyQQNeverHangs`, `ServerAmongClients`, `MyQQImplementsAccounts`: what is proved of
  the server alone holds of it among its clients.

With hypotheses on the constants, which are what users choose and what may fail:

* `ListIsTheTable`, from `PrefixesAreNames` (no name is a prefix of another),
  `NobodyRenames` and `InsertsWork`. While a password is being changed the row is gone
  and the node is not: `TableInv` compares the list with the table *and* the name
  under way (`Accounted`). Deletions may fail: they fail before the node is freed.
* `OnlineAreServed` and `TalkersLoggedIn`, from the same. Nothing but the order of the
  messages keeps the place of a client and the list in step. `FlowInv` says which
  order that is: take what the client has yet to read before what the server has yet
  to answer; then a client that is out meets no message that lets it out after one
  that lets it in (`NoOutAfterIn`), and one that is in the other way round
  (`NoInAfterOut`). `EffectsLemma` says how a message, its answer and the change of
  who is online belong together; `NodeInv` ties the three, and `SharedInv` says that
  the descriptors of several nodes are those `shared` remembers.

`MCMyQQ` satisfies the hypotheses. Without them the properties are false, and that is
the behaviour of the code: the prefix that finds the wrong node, the renaming that
leaves the table alone and the insertion that fails after the deletion are hazards
with runs of their own (`login_name`, `rename`, `server`). Two theorems say more:

* `LoginsCheckTheName`: with `PrefixesAreNames` alone, `LoginChecksName`, which
  `login_name` finds violated, holds: prefixes are the only cause. `MuteInv` is for
  the steps that write nothing.
* `CounterIsExact`: when nobody removes his account (`NobodyUnregisters`), the
  counter is the number of the nodes that are marked as playing, and the server has
  the process id of a sender exactly when there are any, whatever the names are. The
  invariant is `ExactInv`: `SurplusKept` says that every handler but the removal keeps
  the difference between the counter and the marked nodes. A mark may outlive who
  plays: a logout leaves it, and the end of the connection does not take it away from a
  node that is logged out. So removals are the only cause of a counter that is
  off, and not the only one of a sender that runs for nobody, which `sender` is about.

### The processes: `ProcessesProofs`

* `ProcessesImplementMyQQ`: `ProcessesSpec => MyQQSpec`, so that all theorems about
  `MyQQ` hold among the processes around it.
* `ProcessesTypeCorrect` and `PortsStayFree`. A step that starts a UDP server
  needs no receiver, and one that forks a media sender needs none that lives:
  `SenderInv` (the server knows of every sender that lives, and of none when it starts;
  it may keep the process id of one that could not attach) and `BootInv`. Both rest on the socket that the children inherit by accident.
* `PlayersKeepSender` and `PlayersAreCounted`, from `PrefixesAreNames`, `NobodyRenames`
  and `OwnNames` (no two users type the same names). The inductive invariant
  `SoundInv` follows a request to play, its answer, a stop and the end of a talk
  through both queues: `MenuInv` before the client talks, `TalkInv` while it does.
  A player whose node was removed stays counted (`Orphan`, `OrphanStep`), so that its
  sender is not killed. `UnforkedLemma` is for the clients that could not fork.
  `OwnInv` keeps every node with the users of its name.

  `OwnNames` is stronger than what TLC checks: the two users of `MCProcesses` share a
  name. There B may log in under the name A has just logged out of, before A has
  read the answer; B takes over the node and with it the mark that says that A plays,
  and if B stops, the sender is killed while A still plays, until A reads the
  answer and kills its receiver. `PlayersHaveSender` excepts exactly this client.
  That the two properties hold for users who share names is checked, not proved.

### The media timers: `MediaProofs`

For every time-out longer than a pause, every period of the requests shorter than it,
any number of receivers and any options (`MediaAssumption`):

* `MediaTypeCorrect`, `DeadSessionsGo`, `LiveSessionsStay`, `SizesAlternate`,
  `SameSources`. `MediaInv` compares the timers: a receiver that plays sends its next
  request, and one that pauses goes on, before its session is used up; one
  that was killed has at most the rest of its session and then the rest of the
  sender's period (`SessionInv`). `PictureInv` says that the static flag of the size
  timer is what is not shown.

### The UDP chat: `UdpProofs`

For any number of clients, however they share names, and any number of datagrams
under way (`UdpAssumption`):

* `UdpTypeCorrect`, `ListCountsClients`, `ReceiverStaysAlive`, `ListedAreHere`,
  `AskersGetAnswers`. `ListCounts` counts nodes and clients of each name; it needs that
  the login of a client is the first datagram it has under way and its quit the last
  (`InboxInv`), and that only finitely many clients have started (`StartedInv`). From
  it follows that `delete_list` finds a node for every quit, so that only the operator
  or a failing `sendto` ends the receiver (`ReceiverLives`), and for
  a name of one client who is listed and who is answered (`AloneLemma`).

### The password: `PasswardProofs`

For every set of texts without 0xff, of any length, and every set of factors
(`TextAssumption`, `FactorAssumption`, `ChosenAssumption`):

* `PasswardTypeCorrect`, and `PasswardImplementsSecret`, a refinement. The
  invariant `Holds` says that the column holds the chosen text under some factor;
  `RoundTrip` says that it decodes to the text and its end, `OnlyTheText` that
  `strcmp` then accepts that text and no other.

## 5. What is not modelled

* **Failing look-ups** in sqlite: `qq_sql3_search_by_name` takes an error for an
  absent name. `UniqueNames` holds under the assumption that they succeed.
* **Framing**: `read` is taken to return one whole message. Buffers: names and
  passwords are taken to fit.
* **The half of `sqlite3_userInfo.c` under `NEED_SAVE_LOGIN_FLAG`**, not compiled.
* **`execl` that fails**: the child would go on as a second copy of the program that
  forked it, with the same sockets and the same database. It fails only when a
  program is missing or the machine has no memory.
* **What programs only print**: the client's own list of online users, the texts,
  the datagrams that a UDP client prints.
* **What GStreamer does**: the elements of the pipelines, their links, the media
  themselves; RTSP only as far as sessions go. Functions that nobody calls:
  `remove_map`, `add_map`, `media_configure`, `timeout_change_videosize`,
  `client_setReady`, `client_setStop`, `MSC_PlayStop`, the message packer.
* **`get_network_info.c`**, a program of its own that prints interfaces.
* **The three attempts to confirm a new password** in `UserRegister`, before
  anything is sent.
* **A client that is killed and leaves its children behind**: in `Exit` its media
  receiver and its UDP client end with it, as they do from the keyboard. Both
  have inherited its connection, so that the server would read the end of the stream
  only when they end too.
* **Ends of children for reasons of their own**: a media receiver that ends by itself
  (its pipeline fails, or the sender is gone), and a media sender that ends by
  itself for another reason than a failing attach.

## 6. Plan

Done: survey, `UserList`, `Server` with `Accounts`, `MyQQ`, `Processes`, `Media`,
`Passward` with `Secret`, `UdpChat`, and theorems about all of them. Next, in this
order:

1. `PlayersKeepSender` and `PlayersAreCounted` without `OwnNames`, as `processes`
   checks them: nodes that pass from one user to another with their mark.
2. The lemmas on the list (`ListedAdd`, `StillSet`, `PlaysRemove` and their kin) as
   one family about what an operation on the list does to a set of its nodes.
3. `UserDb`: the table with look-ups that fail and with equal rows as a bag; what
   the callers of `sqlite3_userInfo.c` still guarantee.
4. Framing: `read` and `write` of `msg_st` over a stream that splits and joins, and
   the children that go on after an `execl` that failed.
