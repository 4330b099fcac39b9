------------------------------- MODULE Server -------------------------------
(***************************************************************************)
(* The TCP server of server.c: one thread that waits in epoll_wait and     *)
(* runs one handler at a time over the user list in memory (UserList), the *)
(* user table on disk (the sqlite half of sqlite3_userInfo.c that is       *)
(* compiled) and the media sender child process.                           *)
(*                                                                         *)
(* A handler is one action.  The exception is MSG_USER_CHG_PW, which       *)
(* writes the table twice, so that a crash can come in between.  A message *)
(* may come on any watched connection at any time: the module is open, and *)
(* what it shows holds whatever program is at the other end.               *)
(***************************************************************************)
EXTENDS UserList

CONSTANTS
  Passwords,
  Empty,      \* the empty string, which a message may carry
  None,       \* no name
  Faults,     \* the calls that may fail: "step" and "prepare" when a row is
              \* inserted, "exec" when one is deleted or renamed, "fork" in
              \* the server or a client, "accept", "attach" in the sender
  MaxNodes,   \* bound of the model on the length of the list
  MaxPlays    \* bound of the model on rtsp_client_num

ASSUME ServerAssumption ==
  /\ Empty \notin Names \cup Passwords
  /\ None \notin Names
  /\ IsFiniteSet(Names)
  /\ MaxNodes \in Nat /\ MaxPlays \in Nat

VARIABLES
  server,          \* the process: not running, running, blocked, exited
  table,           \* the rows of qqUserInfoTab
  writeLock,       \* s_sidb_write_lock between two handlers: free, or left
                   \* locked by an insert that failed
  changing,        \* the change of password between its two writes
  userHead,        \* the user list
  conns,           \* connections accepted; their descriptors are not closed
  watched,         \* the descriptors registered with epoll
  rtsp_server_pid, \* the media sender, -1 when there is none
  rtsp_client_num, \* how many users are counted as playing
  sent,            \* what the last step wrote to each connection
  shared           \* auxiliary: descriptors that were in several nodes

dbVars == <<table, writeLock, changing>>
netVars == <<conns, watched>>
mediaVars == <<rtsp_server_pid, rtsp_client_num>>
vars == <<server, dbVars, userHead, netVars, mediaVars, sent, shared>>

Row == [name : Names, pw : Passwords]
Taken(name) == \E r \in table : r.name = name

(* No process id, and the one of the running rtsp_sender.                  *)
NoPid == -1
Pid == 1

NoChange == [fd |-> NoFd, name |-> None, pw |-> None]

(* msg_st: the messages of the server.                                     *)
ReplyTypes ==
  {"REGIST_OK", "EXIST", "FAIL", "LOGIN_OK", "LOGIN_FAIL", "UN_EXIST",
   "HAS_ONLINE", "LOGOUT_OK", "UNREGIST_OK", "RENAME_OK", "MEDIA_PLAYING",
   "BROCAST", "FLASH_OL_USERS", "FLASH_ALL_USERS"}
Reply == [type : ReplyTypes, name : Names \cup {None}, users : SUBSET Names]
Output == [Fds -> Seq(Reply)]

TypeOK ==
  /\ server \in {"off", "up", "hung", "exited"}
  /\ table \subseteq Row
  /\ writeLock \in {"free", "leaked"}
  /\ changing \in [fd : Fds, name : Names, pw : Passwords] \cup {NoChange}
  /\ userHead \in Seq(Node)
  /\ conns \in 0..MaxFd
  /\ watched \subseteq 1..conns
  /\ rtsp_server_pid \in {NoPid, Pid}
  /\ rtsp_client_num \in Int
  /\ sent \in Output
  /\ shared \subseteq Fds

-----------------------------------------------------------------------------
(* What a step writes.  The several messages of one sendUserAcountInfo     *)
(* (one per user) are one message that carries the set of names.           *)
Msg(type) == [type |-> type, name |-> None, users |-> {}]
NamesAt(list, S) == {list[i].userId : i \in S}
FlashOnline(list) ==
  [Msg("FLASH_OL_USERS") EXCEPT !.users = NamesAt(list, OnlineAt(list))]
FlashAll(list) ==
  [Msg("FLASH_ALL_USERS") EXCEPT !.users = NamesAt(list, DOMAIN list)]

Silence == [g \in Fds |-> <<>>]
Write(fd, message) == [Silence EXCEPT ![fd] = <<message>>]
WriteOnline(fd, list) ==
  IF OnlineAt(list) = {} THEN Silence ELSE Write(fd, FlashOnline(list))

(* brocastMessage and brocastOnlineUserInfo, after an answer to fd: every  *)
(* online node is written to, except those of the descriptor cur_fd.       *)
Audience(list, cur_fd) ==
  {list[i].socketfd : i \in OnlineAt(list)} \ {cur_fd}
News(list, g, cur_fd) ==
  IF g \in Audience(list, cur_fd)
  THEN <<Msg("BROCAST"), FlashOnline(list)>> ELSE <<>>
Brocast(list, cur_fd) == [g \in Fds |-> News(list, g, cur_fd)]
(* Mutant of WriteAndBrocast: the answer is forgotten.                     *)
BrocastOnly(fd, message, list, cur_fd) == Brocast(list, cur_fd)
WriteAndBrocast(fd, message, list, cur_fd) ==
  [g \in Fds |-> (IF g = fd THEN <<message>> ELSE <<>>)
                   \o News(list, g, cur_fd)]

-----------------------------------------------------------------------------
(* qq_sql3_insert.  When the statement cannot be prepared it returns with  *)
(* the write lock held.                                                    *)
qq_sql3_insert(name, pw, ok) ==
  /\ writeLock = "free"
  /\ \/ /\ ok
        /\ table' = table \cup {[name |-> name, pw |-> pw]}
        /\ UNCHANGED writeLock
     \/ /\ ~ ok /\ "step" \in Faults
        /\ UNCHANGED <<table, writeLock>>
     \/ /\ ~ ok /\ "prepare" \in Faults
        /\ writeLock' = "leaked"
        /\ UNCHANGED table

(* Mutants of qq_sql3_delete: with LIKE for ==, and with the lock held     *)
(* after an error.                                                         *)
qq_sql3_delete_like(name, ok) ==
  /\ writeLock = "free"
  /\ \/ ok /\ table' = {r \in table : <<name, r.name>> \notin PrefixOf}
     \/ ~ ok /\ "exec" \in Faults /\ UNCHANGED table
  /\ UNCHANGED writeLock
qq_sql3_delete_locked(name, ok) ==
  /\ writeLock = "free"
  /\ \/ /\ ok /\ table' = {r \in table : r.name # name}
        /\ UNCHANGED writeLock
     \/ ~ ok /\ "exec" \in Faults /\ UNCHANGED table /\ writeLock' = "leaked"

(* qq_sql3_delete.                                                         *)
qq_sql3_delete(name, ok) ==
  /\ writeLock = "free"
  /\ \/ ok /\ table' = {r \in table : r.name # name}
     \/ ~ ok /\ "exec" \in Faults /\ UNCHANGED table
  /\ UNCHANGED writeLock

(* qq_sql3_rename.                                                         *)
Renamed(r, old, new) == IF r.name = old THEN [r EXCEPT !.name = new] ELSE r
qq_sql3_rename(old, new, ok) ==
  /\ writeLock = "free"
  /\ \/ ok /\ table' = {Renamed(r, old, new) : r \in table}
     \/ ~ ok /\ "exec" \in Faults /\ UNCHANGED table
  /\ UNCHANGED writeLock

(* The next writer waits for a lock that nobody will release, and with it  *)
(* the only thread of the server.                                          *)
LockForever ==
  /\ writeLock = "leaked"
  /\ server' = "hung"
  /\ sent' = Silence
  /\ UNCHANGED <<dbVars, userHead, netVars, mediaVars>>

(* epollProcess runs a handler for the connection fd.                      *)
Serving(fd) == server = "up" /\ changing = NoChange /\ fd \in watched

(* handleMessage drops what a connection without a node sends, unless it   *)
(* is MSG_USER_REGIST or MSG_USER_LOGIN_CHECK; of any other message that   *)
(* has no case of its own (the chat) it only prints the text.              *)
Discard(fd) ==
  /\ Serving(fd)
  /\ sent' = Silence
  /\ UNCHANGED <<server, dbVars, userHead, netVars, mediaVars>>

(* MSG_USER_REGIST.                                                        *)
Register(fd, name, pw) ==
  /\ Serving(fd)
  /\ UNCHANGED <<changing, netVars, mediaVars>>
  /\ \/ /\ Taken(name)
        /\ sent' = Write(fd, Msg("EXIST"))
        /\ UNCHANGED <<server, table, writeLock, userHead>>
     \/ /\ ~ Taken(name)
        /\ Len(userHead) < MaxNodes
        /\ qq_sql3_insert(name, pw, TRUE)
        /\ sent' = Write(fd, Msg("REGIST_OK"))
        /\ userHead' = addUserToList(userHead, NewNode(name, fd))
        /\ UNCHANGED server
     \/ /\ ~ Taken(name)
        /\ qq_sql3_insert(name, pw, FALSE)
        /\ sent' = Write(fd, Msg("FAIL"))
        /\ UNCHANGED <<server, userHead>>
     \/ ~ Taken(name) /\ LockForever

(* MSG_USER_LOGIN_CHECK: the password is looked up under the name of the   *)
(* message, the node that goes online is the first one it is a prefix of.  *)
CheckPassward(name, pw) ==
  IF ~ Taken(name) THEN "UN_EXIST"
  ELSE IF [name |-> name, pw |-> pw] \in table THEN "LOGIN_OK"
  ELSE "LOGIN_FAIL"

(* Mutant of SetOnline: the node keeps the descriptor it had.              *)
SetOnlineOnly(list, i, fd) == [list EXCEPT ![i].logFlag = YES]

SetOnline(list, i, fd) ==
  [list EXCEPT ![i].logFlag = YES, ![i].socketfd = fd]

Login(fd, name, pw) ==
  /\ Serving(fd)
  /\ UNCHANGED <<server, dbVars, netVars, mediaVars>>
  /\ \/ /\ NoNodeByName(userHead, name)
        /\ sent' = Write(fd, Msg("UN_EXIST"))
        /\ UNCHANGED userHead
     \/ \E i \in DOMAIN userHead :
          /\ findNodeByName(userHead, name, i)
          /\ \/ /\ userHead[i].logFlag = YES
                /\ sent' = Write(fd, Msg("HAS_ONLINE"))
                /\ UNCHANGED userHead
             \/ /\ userHead[i].logFlag = NO
                /\ CheckPassward(name, pw) # "LOGIN_OK"
                /\ sent' = Write(fd, Msg(CheckPassward(name, pw)))
                /\ UNCHANGED userHead
             \/ /\ userHead[i].logFlag = NO
                /\ CheckPassward(name, pw) = "LOGIN_OK"
                /\ userHead' = SetOnline(userHead, i, fd)
                /\ sent' = WriteAndBrocast(fd, Msg("LOGIN_OK"), userHead', fd)

(* MSG_REQ_OL_USERS, MSG_REQ_ALL_USERS and MSG_SEARCH_SOMEONE.             *)
ReqUsers(fd) ==
  /\ Serving(fd)
  /\ ~ NoNodeBySocketID(userHead, fd)
  /\ sent' \in {WriteOnline(fd, userHead),
                Write(fd, FlashAll(userHead)),
                Write(fd, Msg("BROCAST"))}
  /\ UNCHANGED <<server, dbVars, userHead, netVars, mediaVars>>

(* MSG_USER_RENAME.  The list is renamed at two places: the node that the  *)
(* old name finds, and the node of the connection.                         *)
RenameList(list, i, new, after) ==
  \E k \in DOMAIN list :
    /\ findNodeByName(list, list[i].userId, k)
    /\ after = [list EXCEPT ![k].userId = new, ![i].userId = new]

(* Mutant of ChangeName: the new name is not looked up.                    *)
ChangeNameUnchecked(old, new, ok) == qq_sql3_rename(old, new, ok)

(* myQQ_ChangeName answers QQ_OK too when the new name exists.             *)
ChangeName(old, new, ok) ==
  IF Taken(new) THEN ok /\ UNCHANGED <<table, writeLock>>
  ELSE qq_sql3_rename(old, new, ok)

Rename(fd, new) ==
  /\ Serving(fd)
  /\ UNCHANGED <<changing, netVars, mediaVars>>
  /\ \E i \in DOMAIN userHead :
       /\ findNodeBySocketID(userHead, fd, i)
       /\ \/ /\ new = Empty
             /\ sent' = Write(fd, Msg("BROCAST"))
             /\ UNCHANGED <<server, table, writeLock, userHead>>
          \/ /\ new # Empty
             /\ ChangeName(userHead[i].userId, new, FALSE)
             /\ sent' = Silence
             /\ UNCHANGED <<server, userHead>>
          \/ /\ new # Empty
             /\ ChangeName(userHead[i].userId, new, TRUE)
             /\ RenameList(userHead, i, new, userHead')
             /\ sent' = Write(fd, [Msg("RENAME_OK") EXCEPT !.name = new])
             /\ UNCHANGED server
          \/ new # Empty /\ ~ Taken(new) /\ LockForever

(* MSG_USER_CHG_PW up to the deletion of the old row: a password that is   *)
(* empty or not new is refused.                                            *)
ChangePassward(fd, pw) ==
  /\ Serving(fd)
  /\ UNCHANGED <<userHead, netVars, mediaVars>>
  /\ \E i \in DOMAIN userHead :
       LET name == userHead[i].userId
           refused == pw = Empty \/ [name |-> name, pw |-> pw] \in table
       IN
       /\ findNodeBySocketID(userHead, fd, i)
       /\ \/ /\ refused
             /\ sent' = Write(fd, Msg("BROCAST"))
             /\ UNCHANGED <<server, dbVars>>
          \/ /\ ~ refused
             /\ qq_sql3_delete(name, FALSE)
             /\ sent' = Silence
             /\ UNCHANGED <<server, changing>>
          \/ /\ ~ refused
             /\ qq_sql3_delete(name, TRUE)
             /\ changing' = [fd |-> fd, name |-> name, pw |-> pw]
             /\ sent' = Silence
             /\ UNCHANGED server
          \/ ~ refused /\ LockForever

(* The rest of the handler: the row comes back with the new password.      *)
FinishChange ==
  /\ server = "up" /\ changing # NoChange
  /\ changing' = NoChange
  /\ \/ /\ qq_sql3_insert(changing.name, changing.pw, TRUE)
        /\ sent' = Write(changing.fd, Msg("BROCAST"))
     \/ /\ qq_sql3_insert(changing.name, changing.pw, FALSE)
        /\ sent' = Silence
  /\ UNCHANGED <<server, userHead, netVars, mediaVars>>

(* MSG_USER_UNREGIST.  The node found by the name is freed; when it is the *)
(* one of the connection, the handler goes on to read the descriptor the   *)
(* broadcasts spare (cur_fd) out of freed memory.                          *)
Unregister(fd) ==
  /\ Serving(fd)
  /\ UNCHANGED <<changing, netVars, mediaVars>>
  /\ \E i \in DOMAIN userHead :
       LET name == userHead[i].userId
           freed == findNodeByName(userHead, name, i)
       IN
       /\ findNodeBySocketID(userHead, fd, i)
       /\ \/ /\ qq_sql3_delete(name, FALSE)
             /\ sent' = Write(fd, Msg("BROCAST"))
             /\ UNCHANGED <<server, userHead>>
          \/ /\ qq_sql3_delete(name, TRUE)
             /\ deleteNodeByName(userHead, name, userHead')
             /\ \E cur_fd \in IF freed THEN Fds \cup {NoFd} ELSE {fd} :
                  sent' = WriteAndBrocast(fd, Msg("UNREGIST_OK"),
                                          userHead', cur_fd)
             /\ UNCHANGED server
          \/ LockForever

(* MSG_USER_LOGOUT: rtspPlayFlag stays as it is.                           *)
Logout(fd) ==
  /\ Serving(fd)
  /\ \E i \in DOMAIN userHead :
       /\ findNodeBySocketID(userHead, fd, i)
       /\ userHead' = [userHead EXCEPT ![i].logFlag = NO]
  /\ sent' = WriteAndBrocast(fd, Msg("LOGOUT_OK"), userHead', fd)
  /\ UNCHANGED <<server, dbVars, netVars, mediaVars>>

(* MSG_USER_REQ_MEDIA.  The first request forks the media sender.          *)
AddPlayer(fd, i) ==
  IF userHead[i].rtspPlayFlag # YES
  THEN /\ rtsp_client_num < MaxPlays
       /\ userHead' = [userHead EXCEPT ![i].rtspPlayFlag = YES]
       /\ rtsp_client_num' = rtsp_client_num + 1
       /\ sent' = Write(fd, Msg("MEDIA_PLAYING"))
  ELSE UNCHANGED <<userHead, rtsp_client_num>> /\ sent' = Silence

ReqMedia(fd) ==
  /\ Serving(fd)
  /\ \E i \in DOMAIN userHead :
       /\ findNodeBySocketID(userHead, fd, i)
       /\ \/ /\ rtsp_server_pid = NoPid /\ "fork" \in Faults
             /\ sent' = Silence
             /\ UNCHANGED <<userHead, mediaVars>>
          \/ /\ rtsp_server_pid' = Pid
             /\ AddPlayer(fd, i)
  /\ UNCHANGED <<server, dbVars, netVars>>

(* Mutant of DropPlayer: the sender is killed one player too early.        *)
DropPlayerEarly ==
  /\ rtsp_client_num' = rtsp_client_num - 1
  /\ rtsp_server_pid' = IF rtsp_client_num' <= 1 THEN NoPid ELSE rtsp_server_pid

(* A player is gone: when none is left, the media sender is killed.        *)
DropPlayer ==
  /\ rtsp_client_num' = rtsp_client_num - 1
  /\ rtsp_server_pid' = IF rtsp_client_num' = 0 THEN NoPid ELSE rtsp_server_pid

(* MSG_USER_STOP_PLAY_MEDIA.                                               *)
StopMedia(fd) ==
  /\ Serving(fd)
  /\ \E i \in DOMAIN userHead :
       /\ findNodeBySocketID(userHead, fd, i)
       /\ IF userHead[i].rtspPlayFlag = YES
          THEN /\ userHead' = [userHead EXCEPT ![i].rtspPlayFlag = NO]
               /\ DropPlayer
          ELSE UNCHANGED <<userHead, mediaVars>>
  /\ sent' = Silence
  /\ UNCHANGED <<server, dbVars, netVars>>

(* epollProcess on MSG_USER_QUIT or the end of the stream.  The descriptor *)
(* leaves epoll and is not closed; nothing else happens unless the first   *)
(* node of the connection is online.                                       *)
(* Mutant of QuitOnline: the user stays online.                            *)
QuitOnlineStays(fd, i) ==
  /\ userHead' = [userHead EXCEPT ![i].rtspPlayFlag = NO]
  /\ sent' = Brocast(userHead', fd)
  /\ IF userHead[i].rtspPlayFlag = YES THEN DropPlayer ELSE UNCHANGED mediaVars

QuitOnline(fd, i) ==
  /\ userHead' = [setLoginBySockID(userHead, fd, NO)
                    EXCEPT ![i].rtspPlayFlag = NO]
  /\ sent' = Brocast(userHead', fd)
  /\ IF userHead[i].rtspPlayFlag = YES THEN DropPlayer ELSE UNCHANGED mediaVars

Quit(fd) ==
  /\ Serving(fd)
  /\ watched' = watched \ {fd}
  /\ \/ /\ \A i \in DOMAIN userHead :
             findNodeBySocketID(userHead, fd, i) => userHead[i].logFlag = NO
        /\ sent' = Silence
        /\ UNCHANGED <<userHead, mediaVars>>
     \/ \E i \in DOMAIN userHead :
          /\ findNodeBySocketID(userHead, fd, i)
          /\ userHead[i].logFlag = YES
          /\ QuitOnline(fd, i)
  /\ UNCHANGED <<server, dbVars, conns>>

-----------------------------------------------------------------------------
(* Mutant of Accept: the wrong descriptor is added to epoll.               *)
AcceptWrongFd ==
  /\ server = "up" /\ changing = NoChange
  /\ conns < MaxFd
  /\ conns' = conns + 1
  /\ watched' = watched \cup {conns' + 1}
  /\ sent' = Silence
  /\ UNCHANGED <<server, dbVars, userHead, mediaVars>>

(* accept(): descriptors are handed out and never given back.              *)
Accept ==
  /\ server = "up" /\ changing = NoChange
  /\ conns < MaxFd
  /\ conns' = conns + 1
  /\ watched' = watched \cup {conns'}
  /\ sent' = Silence
  /\ UNCHANGED <<server, dbVars, userHead, mediaVars>>

(* What the process held in memory is gone with it.                        *)
Gone ==
  /\ writeLock' = "free"
  /\ changing' = NoChange
  /\ userHead' = <<>>
  /\ conns' = 0
  /\ watched' = {}
  /\ rtsp_server_pid' = NoPid
  /\ rtsp_client_num' = 0
  /\ sent' = Silence
  /\ UNCHANGED table

(* accept() fails, with EMFILE when the descriptors are used up: the       *)
(* server ends, whoever is connected.                                      *)
AcceptFail ==
  /\ server = "up" /\ changing = NoChange
  /\ conns = MaxFd \/ "accept" \in Faults
  /\ server' = "exited"
  /\ Gone

(* The process is killed, between two handlers or two writes of one.       *)
Crash ==
  /\ server \in {"up", "hung"}
  /\ server' = "off"
  /\ Gone

(* The table is created if it is not there; the lock is made anew.         *)
qq_sql3_init ==
  /\ writeLock' = "free"
  /\ UNCHANGED <<table, changing>>

(* Mutant of LoadUsers: the users of the last run are taken for online.    *)
LoadUsersOnline ==
  \E order \in SetToSeqs({r.name : r \in table}) :
    userHead' = [i \in DOMAIN order |->
                   [NewNode(order[i], NoFd) EXCEPT !.logFlag = YES]]
(* qq_sql3_get_all_users: everybody is offline.  The select has no ORDER   *)
(* BY: any order of the rows.                                              *)
LoadUsers ==
  \E order \in SetToSeqs({r.name : r \in table}) :
    userHead' = [i \in DOMAIN order |-> NewNode(order[i], NoFd)]

(* main, up to the loop.                                                   *)
Start ==
  /\ server \in {"off", "exited"}
  /\ server' = "up"
  /\ qq_sql3_init
  /\ LoadUsers
  /\ sent' = Silence
  /\ UNCHANGED <<netVars, mediaVars>>

-----------------------------------------------------------------------------
Init ==
  /\ server = "off"
  /\ table = {}
  /\ writeLock = "free"
  /\ changing = NoChange
  /\ userHead = <<>>
  /\ conns = 0 /\ watched = {}
  /\ rtsp_server_pid = NoPid /\ rtsp_client_num = 0
  /\ sent = Silence
  /\ shared = {}

Receive(fd) ==
  \/ Discard(fd)
  \/ \E name \in Names, pw \in Passwords : Register(fd, name, pw)
  \/ \E name \in Names, pw \in Passwords : Login(fd, name, pw)
  \/ ReqUsers(fd)
  \/ \E name \in Names \cup {Empty} : Rename(fd, name)
  \/ \E pw \in Passwords \cup {Empty} : ChangePassward(fd, pw)
  \/ Unregister(fd)
  \/ Logout(fd)
  \/ ReqMedia(fd)
  \/ StopMedia(fd)
  \/ Quit(fd)

Step ==
  \/ \E fd \in Fds : Receive(fd)
  \/ FinishChange
  \/ Accept \/ AcceptFail
  \/ Crash \/ Start

(* The auxiliary variable remembers, while the process lives, which        *)
(* connections were the descriptor of two nodes at once.                   *)
InSeveral(list) ==
  {g \in Fds : \E i, j \in DOMAIN list :
     i # j /\ list[i].socketfd = g /\ list[j].socketfd = g}
Remember ==
  shared' = IF server' = "up" \/ server' = "hung"
            THEN shared \cup InSeveral(userHead') ELSE {}

Next == Step /\ Remember

Spec == Init /\ [][Next]_vars

-----------------------------------------------------------------------------
(* Registering, renaming and changing a password, in whatever order they   *)
(* come, fail or are cut short, never leave two rows with one name: the    *)
(* table has no UNIQUE constraint, only the look-up that each of the       *)
(* callers in sqlite3_userInfo.c does before it writes.  (The look-ups     *)
(* themselves do not fail here: qq_sql3_search_by_name takes an error for  *)
(* an absent name.)                                                        *)
UniqueNames == \A r1, r2 \in table : r1.name = r2.name => r1 = r2

(* The media sender runs exactly while users are counted, and everyone     *)
(* who plays is counted: nobody's picture stops because somebody else's    *)
(* stop, exit or unregistration was counted twice.                         *)
MediaCounted ==
  /\ rtsp_server_pid = Pid <=> rtsp_client_num > 0
  /\ Cardinality(PlayingAt(userHead)) <= rtsp_client_num

(* Every online user is bound to a connection of this run of the server:   *)
(* a broadcast never writes to descriptor 0 or to one not handed out yet.  *)
OnlineConnected ==
  \A i \in OnlineAt(userHead) : userHead[i].socketfd \in 1..conns

(* Whoever is shown online is reachable: the handling of an end of stream  *)
(* misses a user only when his connection was in more than one node.       *)
GhostsWereShared ==
  \A i \in OnlineAt(userHead) : userHead[i].socketfd \in watched \cup shared

(* Nothing but a failing sqlite3_prepare_v2 makes the server wait for its  *)
(* own write lock: all the other ways out of the writers release it.       *)
NeverHung == "prepare" \notin Faults => server # "hung"

(* The server's table is a table of Accounts.                              *)
ChangingName == IF changing = NoChange THEN None ELSE changing.name
A == INSTANCE Accounts WITH accounts <- table, changing <- ChangingName

(* No handler, in any state of the list and of the connections, does to    *)
(* the user table what Accounts does not allow; only a change of password  *)
(* that is cut short loses an account.                                     *)
ImplementsAccounts == A!Spec
=============================================================================
