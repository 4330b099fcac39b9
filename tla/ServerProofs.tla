---------------------------- MODULE ServerProofs ----------------------------
(***************************************************************************)
(* Theorems about Server, for every set of names, prefix relation, number  *)
(* of connections and set of faults.                                       *)
(***************************************************************************)
EXTENDS Server, ListLemmas, TLAPS

-----------------------------------------------------------------------------
(* What the operations on the list return.                                 *)

(* A node linked at the head moves every other node one place down.        *)
LEMMA AddLemma ==
  ASSUME NEW S, NEW list \in Seq(S), NEW node \in S
  PROVE  /\ addUserToList(list, node) \in Seq(S)
         /\ Len(addUserToList(list, node)) = Len(list) + 1
         /\ DOMAIN addUserToList(list, node) = 1..(Len(list) + 1)
         /\ addUserToList(list, node)[1] = node
         /\ \A i \in 2..(Len(list) + 1) :
               addUserToList(list, node)[i] = list[i - 1]
  BY DEF addUserToList, Cons

(* Changing one node, or the first node of a descriptor, keeps the list.   *)
LEMMA ListLemma ==
  ASSUME NEW list \in Seq(Node)
  PROVE  /\ Len(list) \in Nat
         /\ DOMAIN list = 1..Len(list)
         /\ \A i \in DOMAIN list :
              /\ list[i] \in Node
              /\ list[i].userId \in Names
              /\ list[i].socketfd \in Fds \cup {NoFd}
              /\ list[i].logFlag \in {NO, YES}
              /\ list[i].rtspPlayFlag \in {NO, YES}
<1>1. /\ Len(list) \in Nat /\ DOMAIN list = 1..Len(list)
      /\ \A i \in 1..Len(list) : list[i] \in Node
  BY LenProperties, ElementOfSeq
<1> QED BY <1>1 DEF Node

LEMMA SetLoginLemma ==
  ASSUME NEW list \in Seq(Node), NEW fd, NEW flag \in {NO, YES}
  PROVE  /\ setLoginBySockID(list, fd, flag) \in Seq(Node)
         /\ DOMAIN setLoginBySockID(list, fd, flag) = DOMAIN list
         /\ Len(setLoginBySockID(list, fd, flag)) = Len(list)
<1> DEFINE f == setLoginBySockID(list, fd, flag)
<1>1. /\ Len(list) \in Nat /\ DOMAIN list = 1..Len(list)
      /\ \A i \in 1..Len(list) : list[i] \in Node
  BY ListLemma
<1>2. \A i \in 1..Len(list) :
        [list[i] EXCEPT !.logFlag = flag] \in Node
  BY <1>1 DEF Node
<1>3. f \in [1..Len(list) -> Node]
  BY <1>1, <1>2 DEF setLoginBySockID
<1> QED BY <1>1, <1>3

(* What a step can write is well formed.                                   *)
LEMMA MsgLemma ==
  ASSUME NEW t \in ReplyTypes
  PROVE  /\ Msg(t) \in Reply
         /\ \A n \in Names : [Msg(t) EXCEPT !.name = n] \in Reply
BY DEF Msg, Reply

LEMMA FlashLemma ==
  ASSUME NEW list \in Seq(Node)
  PROVE  FlashOnline(list) \in Reply /\ FlashAll(list) \in Reply
<1>1. /\ NamesAt(list, OnlineAt(list)) \in SUBSET Names
      /\ NamesAt(list, DOMAIN list) \in SUBSET Names
  BY ListLemma DEF NamesAt, OnlineAt
<1>2. /\ FlashOnline(list) = [type |-> "FLASH_OL_USERS", name |-> None,
                              users |-> NamesAt(list, OnlineAt(list))]
      /\ FlashAll(list) = [type |-> "FLASH_ALL_USERS", name |-> None,
                           users |-> NamesAt(list, DOMAIN list)]
  BY DEF FlashOnline, FlashAll, Msg
<1> QED BY <1>1, <1>2 DEF Reply, ReplyTypes

LEMMA SilenceLemma == Silence \in Output
BY DEF Silence, Output

LEMMA WriteLemma ==
  ASSUME NEW fd \in Fds, NEW m \in Reply
  PROVE  Write(fd, m) \in Output
<1>1. <<m>> \in Seq(Reply)
  OBVIOUS
<1> QED BY <1>1, SilenceLemma DEF Write, Output

(* ... and so is the plain answer to one connection.                       *)
LEMMA AnswerLemma ==
  ASSUME NEW fd \in Fds, NEW t \in ReplyTypes
  PROVE  Write(fd, Msg(t)) \in Output
BY MsgLemma, WriteLemma

LEMMA BrocastLemma ==
  ASSUME NEW fd \in Fds, NEW t \in ReplyTypes, NEW list \in Seq(Node), NEW c
  PROVE  /\ WriteAndBrocast(fd, Msg(t), list, c) \in Output
         /\ Brocast(list, c) \in Output
<1> DEFINE m == Msg(t)
<1>1. ASSUME NEW g \in Fds
      PROVE  /\ News(list, g, c) \in Seq(Reply)
             /\ (IF g = fd THEN <<m>> ELSE <<>>) \o News(list, g, c)
                  \in Seq(Reply)
  <2>1. Msg("BROCAST") \in Reply /\ FlashOnline(list) \in Reply /\ m \in Reply
    BY MsgLemma, FlashLemma DEF ReplyTypes
  <2>2. <<Msg("BROCAST"), FlashOnline(list)>> \in Seq(Reply)
    BY <2>1
  <2>3. <<m>> \in Seq(Reply) /\ <<>> \in Seq(Reply)
    BY <2>1
  <2>4. News(list, g, c) \in Seq(Reply)
    BY <2>2, <2>3 DEF News
  <2>5. (IF g = fd THEN <<m>> ELSE <<>>) \in Seq(Reply)
    BY <2>3
  <2> QED BY <2>4, <2>5, ConcatProperties
<1> QED BY <1>1 DEF WriteAndBrocast, Brocast, Output

-----------------------------------------------------------------------------
(* The writers of the table keep it a table.                               *)
LEMMA InsertLemma ==
  ASSUME table \subseteq Row, writeLock \in {"free", "leaked"},
         NEW name \in Names, NEW pw \in Passwords, NEW ok \in BOOLEAN,
         qq_sql3_insert(name, pw, ok)
  PROVE  table' \subseteq Row /\ writeLock' \in {"free", "leaked"}
<1>1. table \cup {[name |-> name, pw |-> pw]} \subseteq Row
  BY DEF Row
<1> QED BY <1>1 DEF qq_sql3_insert

LEMMA DeleteLemma ==
  ASSUME table \subseteq Row, writeLock \in {"free", "leaked"},
         NEW name, NEW ok \in BOOLEAN, qq_sql3_delete(name, ok)
  PROVE  table' \subseteq Row /\ writeLock' \in {"free", "leaked"}
BY DEF qq_sql3_delete

LEMMA ChangeNameLemma ==
  ASSUME table \subseteq Row, writeLock \in {"free", "leaked"},
         NEW old, NEW new \in Names, NEW ok \in BOOLEAN,
         ChangeName(old, new, ok)
  PROVE  table' \subseteq Row /\ writeLock' \in {"free", "leaked"}
<1>1. \A r \in table : Renamed(r, old, new) \in Row
  BY DEF Renamed, Row
<1> QED BY <1>1 DEF ChangeName, qq_sql3_rename

(* What the handlers do to the list leaves a list of users.                *)
LEMMA HandlerListLemma ==
  ASSUME NEW list \in Seq(Node), NEW i \in DOMAIN list, NEW fd \in Fds
  PROVE  /\ SetOnline(list, i, fd) \in Seq(Node)
         /\ [list EXCEPT ![i].logFlag = NO] \in Seq(Node)
         /\ \A flag \in {NO, YES} :
               [list EXCEPT ![i].rtspPlayFlag = flag] \in Seq(Node)
         /\ [setLoginBySockID(list, fd, NO) EXCEPT ![i].rtspPlayFlag = NO]
               \in Seq(Node)
         /\ \A new \in Names, k \in DOMAIN list :
               [list EXCEPT ![k].userId = new, ![i].userId = new] \in Seq(Node)
<1>1. /\ Len(list) \in Nat /\ DOMAIN list = 1..Len(list)
      /\ list \in [1..Len(list) -> Node]
  BY LenProperties
<1>2. \A l \in [1..Len(list) -> Node] : l \in Seq(Node)
  BY <1>1
<1>3. \A n \in Node :
        /\ \A flag \in {NO, YES} : [n EXCEPT !.logFlag = flag] \in Node
        /\ \A flag \in {NO, YES} : [n EXCEPT !.rtspPlayFlag = flag] \in Node
        /\ [n EXCEPT !.socketfd = fd] \in Node
        /\ \A new \in Names : [n EXCEPT !.userId = new] \in Node
  BY DEF Node
<1>4. SetOnline(list, i, fd) \in [1..Len(list) -> Node]
  <2> DEFINE l1 == [list EXCEPT ![i].logFlag = YES]
  <2>1. l1 \in [1..Len(list) -> Node]
    BY <1>1, <1>3
  <2>2. [l1 EXCEPT ![i].socketfd = fd] \in [1..Len(list) -> Node]
    <3> HIDE DEF l1
    <3> QED BY <1>1, <1>3, <2>1
  <2> QED BY <2>2 DEF SetOnline
<1>5. [list EXCEPT ![i].logFlag = NO] \in [1..Len(list) -> Node]
  BY <1>1, <1>3
<1>6. \A flag \in {NO, YES} :
        [list EXCEPT ![i].rtspPlayFlag = flag] \in [1..Len(list) -> Node]
  BY <1>1, <1>3
<1>7. [setLoginBySockID(list, fd, NO) EXCEPT ![i].rtspPlayFlag = NO]
        \in [1..Len(list) -> Node]
  <2> DEFINE l == setLoginBySockID(list, fd, NO)
  <2>1. l \in [1..Len(list) -> Node]
    BY <1>1, SetLoginLemma, LenProperties
  <2> HIDE DEF l
  <2>2. [l EXCEPT ![i].rtspPlayFlag = NO] \in [1..Len(list) -> Node]
    BY <1>1, <1>3, <2>1
  <2> QED BY <2>2 DEF l
<1>8. ASSUME NEW new \in Names, NEW k \in DOMAIN list
      PROVE  [list EXCEPT ![k].userId = new, ![i].userId = new]
               \in [1..Len(list) -> Node]
  <2> DEFINE l == [list EXCEPT ![k].userId = new]
  <2>1. l \in [1..Len(list) -> Node]
    BY <1>1, <1>3
  <2>2. [l EXCEPT ![i].userId = new] \in [1..Len(list) -> Node]
    <3> HIDE DEF l
    <3> QED BY <1>1, <1>3, <2>1
  <2> QED BY <2>2
<1> QED BY <1>2, <1>4, <1>5, <1>6, <1>7, <1>8

-----------------------------------------------------------------------------
(* One step of the server, whichever handler it runs, keeps the types.     *)
LEMMA TypeStep ==
  ASSUME TypeOK, Step, shared' \subseteq Fds
  PROVE  TypeOK'
<1> USE FdAssumption
<1>1. ASSUME NEW fd \in Fds, Discard(fd)
      PROVE  TypeOK'
  BY <1>1, SilenceLemma DEF TypeOK, Discard, dbVars, netVars, mediaVars
<1>2. ASSUME NEW fd \in Fds, NEW name \in Names, NEW pw \in Passwords,
             Register(fd, name, pw)
      PROVE  TypeOK'
  <2>1. table' \subseteq Row /\ writeLock' \in {"free", "leaked"}
    BY <1>2, InsertLemma DEF TypeOK, Register, LockForever, dbVars
  <2>2. userHead' \in Seq(Node)
    <3>1. NewNode(name, fd) \in Node
      BY DEF NewNode, Node
    <3>2. addUserToList(userHead, NewNode(name, fd)) \in Seq(Node)
      BY <3>1, AddLemma DEF TypeOK
    <3> QED BY <1>2, <3>2 DEF TypeOK, Register, LockForever
  <2>3. sent' \in Output
    BY <1>2, AnswerLemma, SilenceLemma
       DEF Register, LockForever, ReplyTypes
  <2>4. server' \in {"off", "up", "hung", "exited"}
    BY <1>2 DEF TypeOK, Register, LockForever
  <2> QED BY <1>2, <2>1, <2>2, <2>3, <2>4
          DEF TypeOK, Register, netVars, mediaVars
<1>3. ASSUME NEW fd \in Fds, NEW name \in Names, NEW pw \in Passwords,
             Login(fd, name, pw)
      PROVE  TypeOK'
  <2>1. userHead' \in Seq(Node)
    <3>1. userHead \in Seq(Node)
      BY DEF TypeOK
    <3>2. \A i \in DOMAIN userHead : SetOnline(userHead, i, fd) \in Seq(Node)
      BY <3>1, HandlerListLemma
    <3> QED BY <1>3, <3>1, <3>2 DEF Login
  <2>2. CheckPassward(name, pw) \in {"UN_EXIST", "LOGIN_OK", "LOGIN_FAIL"}
    BY DEF CheckPassward
  <2>3. sent' \in Output
    BY <1>3, <2>1, <2>2, AnswerLemma, BrocastLemma DEF Login, ReplyTypes
  <2> QED BY <1>3, <2>1, <2>3
          DEF TypeOK, Login, dbVars, netVars, mediaVars
<1>4. ASSUME NEW fd \in Fds, ReqUsers(fd)
      PROVE  TypeOK'
  <2>1. userHead \in Seq(Node)
    BY DEF TypeOK
  <2>2. sent' \in Output
    BY <1>4, <2>1, FlashLemma, WriteLemma, AnswerLemma, SilenceLemma
       DEF ReqUsers, WriteOnline, ReplyTypes
  <2> QED BY <1>4, <2>2 DEF TypeOK, ReqUsers, dbVars, netVars, mediaVars
<1>5. ASSUME NEW fd \in Fds, NEW new \in Names \cup {Empty}, Rename(fd, new)
      PROVE  TypeOK'
  <2>1. PICK i \in DOMAIN userHead :
          \/ /\ sent' = Write(fd, Msg("BROCAST"))
             /\ UNCHANGED <<server, table, writeLock, userHead>>
          \/ /\ new # Empty
             /\ ChangeName(userHead[i].userId, new, FALSE)
             /\ sent' = Silence
             /\ UNCHANGED <<server, userHead>>
          \/ /\ new # Empty
             /\ ChangeName(userHead[i].userId, new, TRUE)
             /\ RenameList(userHead, i, new, userHead')
             /\ sent' = Write(fd, [Msg("RENAME_OK") EXCEPT !.name = new])
             /\ UNCHANGED server
          \/ LockForever
    BY <1>5 DEF Rename
  <2>2. userHead[i].userId \in Names
    BY ListLemma DEF TypeOK
  <2>3. table' \subseteq Row /\ writeLock' \in {"free", "leaked"}
    <3>1. CASE new \in Names
      BY <2>1, <3>1, ChangeNameLemma DEF TypeOK, LockForever, dbVars
    <3>2. CASE new = Empty
      BY <2>1, <3>2 DEF TypeOK, LockForever, dbVars
    <3> QED BY <3>1, <3>2
  <2>4. userHead' \in Seq(Node)
    <3>1. CASE new \in Names
      <4>1. \A k \in DOMAIN userHead :
              [userHead EXCEPT ![k].userId = new, ![i].userId = new]
                \in Seq(Node)
        BY <3>1, HandlerListLemma DEF TypeOK
      <4> QED BY <2>1, <4>1 DEF TypeOK, RenameList, LockForever
    <3>2. CASE new = Empty
      BY <2>1, <3>2 DEF TypeOK, LockForever
    <3> QED BY <3>1, <3>2
  <2>5. sent' \in Output
    <3>1. CASE new \in Names
      BY <2>1, <3>1, MsgLemma, WriteLemma, SilenceLemma
         DEF LockForever, ReplyTypes
    <3>2. CASE new = Empty
      BY <2>1, <3>2, AnswerLemma, SilenceLemma DEF LockForever, ReplyTypes
    <3> QED BY <3>1, <3>2
  <2>6. server' \in {"off", "up", "hung", "exited"}
    BY <2>1 DEF TypeOK, LockForever
  <2> QED BY <1>5, <2>3, <2>4, <2>5, <2>6
          DEF TypeOK, Rename, netVars, mediaVars
<1>6. ASSUME NEW fd \in Fds, NEW pw \in Passwords \cup {Empty},
             ChangePassward(fd, pw)
      PROVE  TypeOK'
  <2>1. PICK i \in DOMAIN userHead :
          \/ sent' = Write(fd, Msg("BROCAST")) /\ UNCHANGED <<server, dbVars>>
          \/ /\ qq_sql3_delete(userHead[i].userId, FALSE)
             /\ sent' = Silence
             /\ UNCHANGED <<server, changing>>
          \/ /\ pw # Empty
             /\ qq_sql3_delete(userHead[i].userId, TRUE)
             /\ changing' = [fd |-> fd, name |-> userHead[i].userId, pw |-> pw]
             /\ sent' = Silence
             /\ UNCHANGED server
          \/ LockForever
    BY <1>6 DEF ChangePassward
  <2>2. userHead[i].userId \in Names
    BY ListLemma DEF TypeOK
  <2>3. table' \subseteq Row
    BY <2>1 DEF TypeOK, qq_sql3_delete, LockForever, dbVars
  <2>4. writeLock' \in {"free", "leaked"}
    BY <2>1 DEF TypeOK, qq_sql3_delete, LockForever, dbVars
  <2>5. changing' \in [fd : Fds, name : Names, pw : Passwords]
                         \cup {NoChange}
    <3>1. pw # Empty => [fd |-> fd, name |-> userHead[i].userId, pw |-> pw]
                          \in [fd : Fds, name : Names, pw : Passwords]
      BY <2>2
    <3> QED BY <2>1, <3>1 DEF TypeOK, LockForever, dbVars
  <2>6. sent' \in Output
    BY <2>1, AnswerLemma, SilenceLemma DEF LockForever, ReplyTypes
  <2>7. server' \in {"off", "up", "hung", "exited"}
    BY <2>1 DEF TypeOK, LockForever
  <2> QED BY <1>6, <2>3, <2>4, <2>5, <2>6, <2>7
          DEF TypeOK, ChangePassward, netVars, mediaVars
<1>7. ASSUME NEW fd \in Fds, Unregister(fd)
      PROVE  TypeOK'
  <2>1. PICK i \in DOMAIN userHead :
          \/ /\ qq_sql3_delete(userHead[i].userId, FALSE)
             /\ sent' = Write(fd, Msg("BROCAST"))
             /\ UNCHANGED <<server, userHead>>
          \/ /\ qq_sql3_delete(userHead[i].userId, TRUE)
             /\ deleteNodeByName(userHead, userHead[i].userId, userHead')
             /\ \E cur_fd \in Fds \cup {NoFd} :
                  sent' = WriteAndBrocast(fd, Msg("UNREGIST_OK"),
                                          userHead', cur_fd)
             /\ UNCHANGED server
          \/ LockForever
    BY <1>7 DEF Unregister
  <2>2. table' \subseteq Row
    BY <2>1 DEF TypeOK, qq_sql3_delete, LockForever, dbVars
  <2>3. writeLock' \in {"free", "leaked"}
    BY <2>1 DEF TypeOK, qq_sql3_delete, LockForever, dbVars
  <2>4. userHead' \in Seq(Node)
    <3>1. \A k \in DOMAIN userHead : RemoveAt(userHead, k) \in Seq(Node)
      BY RemoveLemma, ListLemma DEF TypeOK
    <3> QED BY <2>1, <3>1 DEF TypeOK, deleteNodeByName, LockForever
  <2>5. sent' \in Output
    BY <2>1, <2>4, AnswerLemma, BrocastLemma, SilenceLemma
       DEF LockForever, ReplyTypes
  <2>6. server' \in {"off", "up", "hung", "exited"}
    BY <2>1 DEF TypeOK, LockForever
  <2> QED BY <1>7, <2>2, <2>3, <2>4, <2>5, <2>6
          DEF TypeOK, Unregister, netVars, mediaVars
<1>8. ASSUME NEW fd \in Fds, Logout(fd)
      PROVE  TypeOK'
  <2>1. userHead' \in Seq(Node)
    BY <1>8, HandlerListLemma DEF TypeOK, Logout
  <2>2. sent' \in Output
    BY <1>8, <2>1, BrocastLemma DEF Logout, ReplyTypes
  <2> QED BY <1>8, <2>1, <2>2 DEF TypeOK, Logout, dbVars, netVars, mediaVars
<1>9. ASSUME NEW fd \in Fds, ReqMedia(fd)
      PROVE  TypeOK'
  <2>1. userHead' \in Seq(Node)
    BY <1>9, HandlerListLemma DEF TypeOK, ReqMedia, AddPlayer
  <2>2. sent' \in Output
    BY <1>9, AnswerLemma, SilenceLemma DEF ReqMedia, AddPlayer, ReplyTypes
  <2>3. rtsp_client_num' \in Int /\ rtsp_server_pid' \in {NoPid, Pid}
    BY <1>9 DEF TypeOK, ReqMedia, AddPlayer, mediaVars
  <2> QED BY <1>9, <2>1, <2>2, <2>3 DEF TypeOK, ReqMedia, dbVars, netVars
<1>10. ASSUME NEW fd \in Fds, StopMedia(fd)
       PROVE  TypeOK'
  <2>1. userHead' \in Seq(Node)
    BY <1>10, HandlerListLemma DEF TypeOK, StopMedia
  <2>2. rtsp_client_num' \in Int /\ rtsp_server_pid' \in {NoPid, Pid}
    BY <1>10 DEF TypeOK, StopMedia, DropPlayer, mediaVars
  <2> QED BY <1>10, <2>1, <2>2, SilenceLemma
          DEF TypeOK, StopMedia, dbVars, netVars
<1>11. ASSUME NEW fd \in Fds, Quit(fd)
       PROVE  TypeOK'
  <2>1. userHead' \in Seq(Node)
    <3>1. \A i \in DOMAIN userHead :
            [setLoginBySockID(userHead, fd, NO) EXCEPT ![i].rtspPlayFlag = NO]
              \in Seq(Node)
      BY HandlerListLemma DEF TypeOK
    <3> QED BY <1>11, <3>1 DEF TypeOK, Quit, QuitOnline
  <2>2. sent' \in Output
    BY <1>11, <2>1, SilenceLemma, BrocastLemma DEF Quit, QuitOnline, ReplyTypes
  <2>3. rtsp_client_num' \in Int /\ rtsp_server_pid' \in {NoPid, Pid}
    BY <1>11 DEF TypeOK, Quit, QuitOnline, DropPlayer, mediaVars
  <2>4. watched' \subseteq 1..conns'
    BY <1>11 DEF TypeOK, Quit
  <2> QED BY <1>11, <2>1, <2>2, <2>3, <2>4 DEF TypeOK, Quit, dbVars
<1>12. CASE FinishChange
  <2>1. changing.name \in Names /\ changing.pw \in Passwords
        /\ changing.fd \in Fds
    BY <1>12 DEF TypeOK, FinishChange
  <2>2. table' \subseteq Row /\ writeLock' \in {"free", "leaked"}
    BY <1>12, <2>1, InsertLemma DEF TypeOK, FinishChange
  <2>3. sent' \in Output
    BY <1>12, <2>1, AnswerLemma, SilenceLemma DEF FinishChange, ReplyTypes
  <2> QED BY <1>12, <2>2, <2>3 DEF TypeOK, FinishChange, netVars, mediaVars
<1>13. CASE Accept
  <2>1. conns' \in 0..MaxFd /\ watched' \subseteq 1..conns'
    BY <1>13 DEF TypeOK, Accept
  <2> QED BY <1>13, <2>1, SilenceLemma DEF TypeOK, Accept, dbVars, mediaVars
<1>14. CASE AcceptFail \/ Crash
  <2>1. Gone /\ server' \in {"off", "exited"}
    BY <1>14 DEF AcceptFail, Crash
  <2> QED BY <2>1, SilenceLemma, FdAssumption DEF TypeOK, Gone
<1>15. CASE Start
  <2> DEFINE S == {r.name : r \in table}
  <2>1. S \subseteq Names
    BY DEF TypeOK, Row
  <2>2. Cardinality(S) \in Nat
    BY <2>1, ServerAssumption, FS_Subset, FS_CardinalityType
  <2>3. ASSUME NEW order \in SetToSeqs(S)
        PROVE  [i \in DOMAIN order |-> NewNode(order[i], NoFd)] \in Seq(Node)
    <3>1. order \in [1..Cardinality(S) -> Names]
      BY <2>1, <2>2 DEF SetToSeqs
    <3>2. \A i \in 1..Cardinality(S) : NewNode(order[i], NoFd) \in Node
      BY <3>1 DEF NewNode, Node
    <3> DEFINE loaded == [i \in DOMAIN order |-> NewNode(order[i], NoFd)]
    <3>3. loaded \in [1..Cardinality(S) -> Node]
      BY <3>1, <3>2
    <3> HIDE DEF loaded
    <3>4. loaded \in Seq(Node)
      BY <2>2, <3>3, FunctionIsSeq
    <3> QED BY <3>4 DEF loaded
  <2>4. userHead' \in Seq(Node)
    BY <1>15, <2>3 DEF Start, qq_sql3_init, LoadUsers
  <2> QED BY <1>15, <2>4, SilenceLemma
          DEF TypeOK, Start, qq_sql3_init, LoadUsers, dbVars, netVars, mediaVars
<1> QED BY <1>1, <1>2, <1>3, <1>4, <1>5, <1>6, <1>7, <1>8, <1>9, <1>10,
           <1>11, <1>12, <1>13, <1>14, <1>15 DEF Step, Receive

(* The variables keep their types: no handler leaves the list, the table   *)
(* or the counters of the media sender in a state the next one could not   *)
(* have been written for.                                                  *)
THEOREM TypeCorrect == Spec => []TypeOK
<1>1. Init => TypeOK
  <2>1. <<>> \in Seq(Node)
    OBVIOUS
  <2> QED BY <2>1, SilenceLemma, FdAssumption DEF Init, TypeOK
<1>2. TypeOK /\ [Next]_vars => TypeOK'
  <2>1. CASE Next
    <3>1. ASSUME TypeOK, Next PROVE shared' \subseteq Fds
      BY <3>1 DEF Next, Remember, TypeOK, InSeveral
    <3> QED BY <2>1, <3>1, TypeStep DEF Next
  <2>2. CASE UNCHANGED vars
    BY <2>2 DEF vars, dbVars, netVars, mediaVars, TypeOK
  <2> QED BY <2>1, <2>2
<1> QED BY <1>1, <1>2, PTL DEF Spec

-----------------------------------------------------------------------------
(* UniqueNames is not inductive: a change of password inserts its row      *)
(* without looking the name up.  It needs that the name is still free,     *)
(* because no other handler runs between the two writes.                   *)
ChangingFree == changing # NoChange => ~ Taken(changing.name)
NamesInv == UniqueNames /\ ChangingFree

(* The writers of the table, called as the handlers call them.             *)
LEMMA RenameUnique ==
  ASSUME TypeOK, UniqueNames, NEW old, NEW new \in Names,
         NEW ok \in BOOLEAN, ChangeName(old, new, ok)
  PROVE  UniqueNames'
<1>1. \A r \in table : Renamed(r, old, new).name =
                          IF r.name = old THEN new ELSE r.name
  BY DEF TypeOK, Row, Renamed
<1>2. CASE UNCHANGED table
  BY <1>2 DEF UniqueNames
<1>3. CASE /\ ~ Taken(new)
           /\ table' = {Renamed(r, old, new) : r \in table}
  <2>1. SUFFICES ASSUME NEW r1 \in table, NEW r2 \in table,
                        Renamed(r1, old, new).name = Renamed(r2, old, new).name
                 PROVE  r1 = r2
    BY <1>3 DEF UniqueNames
  <2>2. r1.name = r2.name
    BY <1>1, <1>3, <2>1 DEF Taken
  <2> QED BY <2>2 DEF UniqueNames
<1> QED BY <1>2, <1>3 DEF ChangeName, qq_sql3_rename

LEMMA InsertUnique ==
  ASSUME UniqueNames, NEW name, NEW pw, NEW ok \in BOOLEAN, ~ Taken(name),
         qq_sql3_insert(name, pw, ok)
  PROVE  UniqueNames'
BY DEF UniqueNames, Taken, qq_sql3_insert

LEMMA NamesStep ==
  ASSUME TypeOK, NamesInv, Step
  PROVE  NamesInv'
<1> USE DEF NamesInv
<1>1. CASE table' = table /\ changing' = changing
  BY <1>1 DEF UniqueNames, ChangingFree, Taken
<1>2. ASSUME NEW fd \in Fds, NEW name \in Names, NEW pw \in Passwords,
             Register(fd, name, pw)
      PROVE  NamesInv'
  <2>1. changing = NoChange /\ changing' = NoChange
    BY <1>2 DEF Register, Serving
  <2>2. UNCHANGED table \/ /\ ~ Taken(name)
                           /\ \E ok \in BOOLEAN : qq_sql3_insert(name, pw, ok)
    BY <1>2 DEF Register, LockForever, dbVars
  <2> QED BY <2>1, <2>2, InsertUnique DEF UniqueNames, ChangingFree
<1>3. ASSUME NEW fd \in Fds, NEW new \in Names \cup {Empty}, Rename(fd, new)
      PROVE  NamesInv'
  <2>1. changing = NoChange /\ changing' = NoChange
    BY <1>3 DEF Rename, Serving
  <2>2. UNCHANGED table \/ /\ new \in Names
                           /\ \E i \in DOMAIN userHead, ok \in BOOLEAN :
                                 ChangeName(userHead[i].userId, new, ok)
    BY <1>3 DEF Rename, LockForever, dbVars
  <2> QED BY <2>1, <2>2, RenameUnique DEF UniqueNames, ChangingFree
<1>4. ASSUME NEW fd \in Fds, NEW pw \in Passwords \cup {Empty},
             ChangePassward(fd, pw)
      PROVE  NamesInv'
  <2>1. table' \subseteq table
    BY <1>4 DEF ChangePassward, qq_sql3_delete, LockForever, dbVars
  <2>2. \/ changing' = NoChange
        \/ \E i \in DOMAIN userHead :
              /\ changing'.name = userHead[i].userId
              /\ table' = {r \in table : r.name # userHead[i].userId}
    BY <1>4 DEF ChangePassward, Serving, qq_sql3_delete, LockForever, dbVars
  <2> QED BY <2>1, <2>2 DEF UniqueNames, ChangingFree, Taken
<1>5. ASSUME NEW fd \in Fds, Unregister(fd)
      PROVE  NamesInv'
  <2>1. table' \subseteq table /\ changing' = NoChange
    BY <1>5 DEF Unregister, Serving, qq_sql3_delete, LockForever, dbVars
  <2> QED BY <2>1 DEF UniqueNames, ChangingFree
<1>6. CASE FinishChange
  <2>1. changing' = NoChange /\ ~ Taken(changing.name)
    BY <1>6 DEF FinishChange, ChangingFree
  <2>2. \E ok \in BOOLEAN : qq_sql3_insert(changing.name, changing.pw, ok)
    BY <1>6 DEF FinishChange
  <2> QED BY <2>1, <2>2, InsertUnique DEF ChangingFree
<1>7. CASE AcceptFail \/ Crash
  BY <1>7 DEF AcceptFail, Crash, Gone, UniqueNames, ChangingFree
<1>8. ASSUME NEW fd \in Fds, Receive(fd)
      PROVE  NamesInv'
  <2>1. ASSUME NEW name \in Names, NEW pw \in Passwords, Login(fd, name, pw)
        PROVE  table' = table /\ changing' = changing
    BY <2>1 DEF Login, dbVars
  <2>2. ASSUME \/ Discard(fd) \/ ReqUsers(fd) \/ Logout(fd) \/ ReqMedia(fd)
               \/ StopMedia(fd) \/ Quit(fd)
        PROVE  table' = table /\ changing' = changing
    BY <2>2 DEF Discard, ReqUsers, Logout, ReqMedia, StopMedia, Quit, dbVars
  <2> QED BY <1>1, <1>2, <1>3, <1>4, <1>5, <1>8, <2>1, <2>2 DEF Receive
<1>9. CASE Accept \/ Start
  BY <1>1, <1>9 DEF Accept, Start, qq_sql3_init, LoadUsers, dbVars
<1> QED BY <1>6, <1>7, <1>8, <1>9 DEF Step

LEMMA NamesInvariant == Spec => []NamesInv
<1>1. Init => NamesInv
  BY DEF Init, NamesInv, UniqueNames, ChangingFree
<1>2. TypeOK /\ NamesInv /\ [Next]_vars => NamesInv'
  <2>1. CASE Next
    BY <2>1, NamesStep DEF Next
  <2>2. CASE UNCHANGED vars
    BY <2>2 DEF vars, dbVars, NamesInv, UniqueNames, ChangingFree, Taken
  <2> QED BY <2>1, <2>2
<1> QED BY <1>1, <1>2, TypeCorrect, PTL DEF Spec

(* However registrations, renamings and changes of passwords interleave,   *)
(* fail or are cut short by a crash, no name is ever in two rows.          *)
THEOREM NamesAreUnique == Spec => []UniqueNames
<1>1. NamesInv => UniqueNames
  BY DEF NamesInv
<1> QED BY <1>1, NamesInvariant, PTL

-----------------------------------------------------------------------------
(* How many nodes of a list play.                                          *)
Players(list) == Cardinality(PlayingAt(list))

LEMMA PlayersType ==
  ASSUME NEW list \in Seq(Node)
  PROVE  IsFiniteSet(PlayingAt(list)) /\ Players(list) \in Nat
<1>1. PlayingAt(list) \in SUBSET (1..Len(list)) /\ Len(list) \in Nat
  BY ListLemma DEF PlayingAt
<1>2. IsFiniteSet(1..Len(list))
  BY <1>1, FS_Interval
<1> QED BY <1>1, <1>2, FS_Subset, FS_CardinalityType DEF Players

(* Nodes that are neither added nor moved play as before when the flag is  *)
(* not written.                                                            *)
LEMMA PlayersSame ==
  ASSUME NEW list, NEW after, DOMAIN after = DOMAIN list,
         \A i \in DOMAIN list : after[i].rtspPlayFlag = list[i].rtspPlayFlag
  PROVE  Players(after) = Players(list)
BY DEF Players, PlayingAt

(* One node starts or stops playing.                                       *)
LEMMA PlayersSet ==
  ASSUME NEW list \in Seq(Node), NEW after, NEW i \in DOMAIN list,
         DOMAIN after = DOMAIN list,
         \A j \in DOMAIN list : j # i =>
            after[j].rtspPlayFlag = list[j].rtspPlayFlag
  PROVE  /\ list[i].rtspPlayFlag = NO /\ after[i].rtspPlayFlag = YES
              => Players(after) = Players(list) + 1
         /\ list[i].rtspPlayFlag = YES /\ after[i].rtspPlayFlag = NO
              => Players(after) = Players(list) - 1 /\ Players(list) > 0
<1> USE DEF NO, YES
<1>1. IsFiniteSet(PlayingAt(list)) /\ Players(list) \in Nat
  BY PlayersType
<1>2. CASE list[i].rtspPlayFlag = NO /\ after[i].rtspPlayFlag = YES
  <2>1. PlayingAt(after) = PlayingAt(list) \cup {i} /\ i \notin PlayingAt(list)
    BY <1>2 DEF PlayingAt
  <2>2. Cardinality(PlayingAt(list) \cup {i}) = Cardinality(PlayingAt(list)) + 1
    BY <1>1, <2>1, FS_AddElement
  <2> QED BY <1>2, <2>1, <2>2 DEF Players
<1>3. CASE list[i].rtspPlayFlag = YES /\ after[i].rtspPlayFlag = NO
  <2>1. PlayingAt(after) = PlayingAt(list) \ {i} /\ i \in PlayingAt(list)
    BY <1>3 DEF PlayingAt
  <2>2. Players(list) # 0
    BY <1>1, <2>1, FS_EmptySet DEF Players
  <2>3. Cardinality(PlayingAt(list) \ {i}) = Cardinality(PlayingAt(list)) - 1
    BY <1>1, <2>1, FS_RemoveElement
  <2>4. Players(after) = Players(list) - 1 /\ Players(list) > 0
    BY <1>1, <2>1, <2>2, <2>3 DEF Players
  <2> QED BY <1>3, <2>4
<1> QED BY <1>2, <1>3

(* A new node does not play, and a node that is removed is no more counted *)
(* in the list, whether it played or not.                                  *)
LEMMA PlayersAdd ==
  ASSUME NEW list \in Seq(Node), NEW node \in Node, node.rtspPlayFlag = NO
  PROVE  Players(addUserToList(list, node)) = Players(list)
<1>1. Len(list) \in Nat /\ DOMAIN list = 1..Len(list)
  BY ListLemma
<1> DEFINE after == addUserToList(list, node)
           f == [j \in PlayingAt(after) |-> j - 1]
           h == [j \in PlayingAt(list) |-> j + 1]
<1> HIDE DEF after
<1>2. /\ DOMAIN after = 1..(Len(list) + 1)
      /\ after[1] = node
      /\ \A j \in 2..(Len(list) + 1) : after[j] = list[j - 1]
  <2>1. list \in Seq(Node) /\ node \in Node
    OBVIOUS
  <2> QED BY <2>1, AddLemma DEF after
<1>3. \A j \in PlayingAt(after) : j \in Int /\ j - 1 \in PlayingAt(list)
  BY <1>1, <1>2 DEF PlayingAt, NO, YES
<1>4. \A j \in PlayingAt(list) : j \in Int /\ j + 1 \in PlayingAt(after)
  <2>1. ASSUME NEW j \in PlayingAt(list)
        PROVE  j \in Int /\ j + 1 \in 2..(Len(list) + 1) /\ (j + 1) - 1 = j
    BY <1>1 DEF PlayingAt
  <2> QED BY <1>1, <1>2, <2>1 DEF PlayingAt
<1>5. f \in Injection(PlayingAt(after), PlayingAt(list))
  BY <1>3 DEF Injection, IsInjective
<1>6. h \in Injection(PlayingAt(list), PlayingAt(after))
  BY <1>4 DEF Injection, IsInjective
<1>7. /\ IsFiniteSet(PlayingAt(list)) /\ Players(list) \in Nat
      /\ IsFiniteSet(PlayingAt(after)) /\ Players(after) <= Players(list)
  BY <1>5, PlayersType, FS_Injection DEF Players
<1>8. Players(after) \in Nat /\ Players(list) <= Players(after)
  BY <1>6, <1>7, FS_Injection, FS_CardinalityType DEF Players
<1> QED BY <1>7, <1>8 DEF after

LEMMA PlayersRemove ==
  ASSUME NEW list \in Seq(Node), NEW k \in DOMAIN list
  PROVE  Players(RemoveAt(list, k)) <= Players(list)
<1> DEFINE after == RemoveAt(list, k)
           f == [j \in PlayingAt(after) |-> IF j < k THEN j ELSE j + 1]
<1>1. Len(list) \in Nat /\ DOMAIN list = 1..Len(list)
  BY ListLemma
<1>2. /\ DOMAIN after = 1..(Len(list) - 1)
      /\ \A j \in 1..(Len(list) - 1) :
            after[j] = IF j < k THEN list[j] ELSE list[j + 1]
  BY <1>1, RemoveLemma
<1> HIDE DEF after
<1>3. \A j \in PlayingAt(after) :
        /\ j \in Int
        /\ (IF j < k THEN j ELSE j + 1) \in PlayingAt(list)
  BY <1>1, <1>2 DEF PlayingAt
<1>4. f \in Injection(PlayingAt(after), PlayingAt(list))
  BY <1>1, <1>3 DEF Injection, IsInjective
<1> QED BY <1>4, PlayersType, FS_Injection DEF Players, after

(* How each handler changes the number of nodes that play.                 *)
LEMMA PlayersStep ==
  ASSUME TypeOK, NEW fd \in Fds
  PROVE  /\ \A name \in Names, pw \in Passwords :
              Register(fd, name, pw) => Players(userHead') = Players(userHead)
         /\ \A name \in Names, pw \in Passwords :
              Login(fd, name, pw) => Players(userHead') = Players(userHead)
         /\ \A new \in Names \cup {Empty} :
              Rename(fd, new) => Players(userHead') = Players(userHead)
         /\ Unregister(fd) => Players(userHead') <= Players(userHead)
         /\ Logout(fd) => Players(userHead') = Players(userHead)
<1> DEFINE list == userHead
<1>1. /\ list \in Seq(Node) /\ Players(list) \in Nat
      /\ list \in [1..Len(list) -> Node] /\ Len(list) \in Nat
      /\ DOMAIN list = 1..Len(list)
      /\ \A i \in DOMAIN list : list[i] \in Node
  BY PlayersType, ListLemma, LenProperties DEF TypeOK
<1>2. ASSUME NEW name \in Names, NEW pw \in Passwords, Register(fd, name, pw)
      PROVE  Players(userHead') = Players(userHead)
  <2>1. NewNode(name, fd) \in Node /\ NewNode(name, fd).rtspPlayFlag = NO
    BY DEF NewNode, Node
  <2>2. Players(addUserToList(list, NewNode(name, fd))) = Players(list)
    BY <1>1, <2>1, PlayersAdd
  <2>3. userHead' \in {list, addUserToList(list, NewNode(name, fd))}
    BY <1>2 DEF Register, LockForever
  <2> QED BY <1>1, <2>2, <2>3
<1>3. ASSUME NEW name \in Names, NEW pw \in Passwords, Login(fd, name, pw)
      PROVE  Players(userHead') = Players(userHead)
  <2>1. userHead' = userHead
          \/ \E i \in DOMAIN list : userHead' = SetOnline(list, i, fd)
    BY <1>3 DEF Login
  <2>2. ASSUME NEW i \in DOMAIN list
        PROVE  Players(SetOnline(list, i, fd)) = Players(list)
    <3>1. DOMAIN SetOnline(list, i, fd) = DOMAIN list
      BY DEF SetOnline
    <3>2. \A j \in DOMAIN list :
            SetOnline(list, i, fd)[j].rtspPlayFlag = list[j].rtspPlayFlag
      BY <1>1 DEF SetOnline, Node
    <3> QED BY <3>1, <3>2, PlayersSame
  <2> QED BY <2>1, <2>2
<1>4. ASSUME NEW new \in Names \cup {Empty}, Rename(fd, new)
      PROVE  Players(userHead') = Players(userHead)
  <2>1. userHead' = userHead
          \/ \E i, k \in DOMAIN list : userHead' =
                [list EXCEPT ![k].userId = new, ![i].userId = new]
    BY <1>4 DEF Rename, RenameList, LockForever
  <2>2. ASSUME NEW i \in DOMAIN list, NEW k \in DOMAIN list
        PROVE  Players([list EXCEPT ![k].userId = new, ![i].userId = new])
                 = Players(list)
    <3> DEFINE after == [list EXCEPT ![k].userId = new, ![i].userId = new]
    <3>1. DOMAIN after = DOMAIN list
      OBVIOUS
    <3>2. \A j \in DOMAIN list : after[j].rtspPlayFlag = list[j].rtspPlayFlag
      BY <1>1 DEF Node
    <3> HIDE DEF after
    <3>3. Players(after) = Players(list)
      BY <3>1, <3>2, PlayersSame
    <3> QED BY <3>3 DEF after
  <2>3. CASE userHead' # userHead
    <3>1. PICK i \in DOMAIN list, k \in DOMAIN list : userHead' =
                [list EXCEPT ![k].userId = new, ![i].userId = new]
      BY <2>1, <2>3
    <3> QED BY <2>2, <3>1
  <2> QED BY <2>3
<1>5. ASSUME Unregister(fd)
      PROVE  Players(userHead') <= Players(userHead)
  <2>1. userHead' = list \/ \E k \in DOMAIN list : userHead' = RemoveAt(list, k)
    BY <1>5 DEF Unregister, deleteNodeByName, LockForever
  <2> QED BY <1>1, <2>1, PlayersRemove
<1>6. ASSUME Logout(fd)
      PROVE  Players(userHead') = Players(userHead)
  <2>1. PICK i \in DOMAIN list : userHead' = [list EXCEPT ![i].logFlag = NO]
    BY <1>6 DEF Logout
  <2>2. /\ DOMAIN userHead' = DOMAIN list
        /\ \A j \in DOMAIN list :
              userHead'[j].rtspPlayFlag = list[j].rtspPlayFlag
    BY <1>1, <2>1 DEF Node
  <2> QED BY <2>2, PlayersSame
<1> QED BY <1>2, <1>3, <1>4, <1>5, <1>6

(* MediaCounted is inductive: the counter covers the nodes that play, so   *)
(* a node that stops finds it above 0.                                     *)
LEMMA MediaStep ==
  ASSUME TypeOK, TypeOK', MediaCounted, Step
  PROVE  MediaCounted'
<1> USE DEF NoPid, Pid
<1>1. /\ userHead \in Seq(Node) /\ userHead' \in Seq(Node)
      /\ Players(userHead) \in Nat /\ Players(userHead') \in Nat
      /\ rtsp_client_num \in Int
      /\ rtsp_server_pid \in {NoPid, Pid}
      /\ rtsp_server_pid = Pid <=> rtsp_client_num > 0
      /\ Players(userHead) <= rtsp_client_num
  BY PlayersType DEF TypeOK, MediaCounted, Players
<1>2. ASSUME UNCHANGED mediaVars, Players(userHead') <= Players(userHead)
      PROVE  MediaCounted'
  BY <1>1, <1>2 DEF mediaVars, MediaCounted, Players
<1>3. \A flag \in {NO, YES}, i \in DOMAIN userHead :
        LET after == [userHead EXCEPT ![i].rtspPlayFlag = flag] IN
        /\ DOMAIN after = DOMAIN userHead
        /\ after[i].rtspPlayFlag = flag
        /\ \A j \in DOMAIN userHead : j # i =>
              after[j].rtspPlayFlag = userHead[j].rtspPlayFlag
  BY <1>1, ListLemma DEF Node
<1>4. ASSUME NEW fd \in Fds, ReqMedia(fd)
      PROVE  MediaCounted'
  <2>1. PICK i \in DOMAIN userHead :
          \/ UNCHANGED <<userHead, mediaVars>>
          \/ rtsp_server_pid' = Pid /\ AddPlayer(fd, i)
    BY <1>4 DEF ReqMedia
  <2>2. CASE UNCHANGED <<userHead, mediaVars>>
    BY <1>1, <1>2, <2>2
  <2>3. CASE rtsp_server_pid' = Pid /\ AddPlayer(fd, i)
    <3>1. userHead[i].rtspPlayFlag \in {NO, YES}
      BY <1>1, ListLemma
    <3>2. CASE userHead[i].rtspPlayFlag = NO
      <4>1. /\ userHead' = [userHead EXCEPT ![i].rtspPlayFlag = YES]
            /\ rtsp_client_num' = rtsp_client_num + 1
        BY <2>3, <3>2 DEF AddPlayer, NO, YES
      <4>2. Players(userHead') = Players(userHead) + 1
        BY <1>1, <1>3, <3>2, <4>1, PlayersSet
      <4> QED BY <1>1, <2>3, <4>1, <4>2 DEF MediaCounted, Players
    <3>3. CASE userHead[i].rtspPlayFlag = YES
      <4>1. i \in PlayingAt(userHead)
        BY <3>3 DEF PlayingAt
      <4>2. Players(userHead) # 0
        BY <1>1, <4>1, PlayersType, FS_EmptySet DEF Players
      <4>3. UNCHANGED <<userHead, rtsp_client_num>>
        BY <2>3, <3>3 DEF AddPlayer
      <4> QED BY <1>1, <2>3, <4>2, <4>3 DEF MediaCounted, Players
    <3> QED BY <3>1, <3>2, <3>3
  <2> QED BY <2>1, <2>2, <2>3
<1>5. ASSUME DropPlayer, Players(userHead') = Players(userHead) - 1,
             Players(userHead) > 0
      PROVE  MediaCounted'
  BY <1>1, <1>5 DEF DropPlayer, MediaCounted, Players
<1>6. ASSUME NEW fd \in Fds, StopMedia(fd)
      PROVE  MediaCounted'
  <2>1. PICK i \in DOMAIN userHead :
          IF userHead[i].rtspPlayFlag = YES
          THEN /\ userHead' = [userHead EXCEPT ![i].rtspPlayFlag = NO]
               /\ DropPlayer
          ELSE UNCHANGED <<userHead, mediaVars>>
    BY <1>6 DEF StopMedia
  <2>2. CASE userHead[i].rtspPlayFlag = YES
    <3>1. Players(userHead') = Players(userHead) - 1 /\ Players(userHead) > 0
      BY <1>1, <1>3, <2>1, <2>2, PlayersSet
    <3> QED BY <1>5, <2>1, <2>2, <3>1
  <2>3. CASE userHead[i].rtspPlayFlag # YES
    BY <1>1, <1>2, <2>1, <2>3
  <2> QED BY <2>2, <2>3
<1>7. ASSUME NEW fd \in Fds, Quit(fd)
      PROVE  MediaCounted'
  <2>1. CASE UNCHANGED <<userHead, mediaVars>>
    BY <1>1, <1>2, <2>1
  <2>2. CASE \E i \in DOMAIN userHead : QuitOnline(fd, i)
    <3>1. PICK i \in DOMAIN userHead : QuitOnline(fd, i)
      BY <2>2
    <3> DEFINE off == setLoginBySockID(userHead, fd, NO)
    <3>2. /\ DOMAIN off = DOMAIN userHead
          /\ off \in Seq(Node)
          /\ \A j \in DOMAIN userHead :
                off[j].rtspPlayFlag = userHead[j].rtspPlayFlag
      <4>1. DOMAIN off = DOMAIN userHead /\ off \in Seq(Node)
        BY <1>1, SetLoginLemma
      <4>2. \A j \in DOMAIN userHead :
              off[j].rtspPlayFlag = userHead[j].rtspPlayFlag
        BY <1>1, ListLemma DEF setLoginBySockID, Node
      <4> QED BY <4>1, <4>2
    <3>3. userHead' = [off EXCEPT ![i].rtspPlayFlag = NO]
      BY <3>1 DEF QuitOnline
    <3> HIDE DEF off
    <3>4. /\ DOMAIN userHead' = DOMAIN userHead
          /\ userHead'[i].rtspPlayFlag = NO
          /\ \A j \in DOMAIN userHead : j # i =>
                userHead'[j].rtspPlayFlag = userHead[j].rtspPlayFlag
      BY <3>2, <3>3, ListLemma DEF Node
    <3>5. CASE userHead[i].rtspPlayFlag = YES
      <4>1. Players(userHead') = Players(userHead) - 1 /\ Players(userHead) > 0
        BY <1>1, <3>4, <3>5, PlayersSet
      <4> QED BY <1>5, <3>1, <3>5, <4>1 DEF QuitOnline
    <3>6. CASE userHead[i].rtspPlayFlag = NO
      <4>1. \A j \in DOMAIN userHead :
              userHead'[j].rtspPlayFlag = userHead[j].rtspPlayFlag
        BY <3>4, <3>6
      <4>2. Players(userHead') = Players(userHead)
        BY <3>4, <4>1, PlayersSame
      <4> QED BY <1>1, <1>2, <3>1, <3>6, <4>2 DEF QuitOnline, NO, YES
    <3> QED BY <1>1, <3>5, <3>6, ListLemma
  <2> QED BY <1>7, <2>1, <2>2 DEF Quit
<1>8. ASSUME NEW fd \in Fds, Receive(fd)
      PROVE  MediaCounted'
  <2>1. CASE Discard(fd) \/ ReqUsers(fd)
             \/ \E pw \in Passwords \cup {Empty} : ChangePassward(fd, pw)
    <3>1. UNCHANGED <<userHead, mediaVars>>
      BY <2>1 DEF Discard, ReqUsers, ChangePassward
    <3> QED BY <1>1, <1>2, <3>1
  <2>2. CASE \/ \E name \in Names, pw \in Passwords : Register(fd, name, pw)
             \/ \E name \in Names, pw \in Passwords : Login(fd, name, pw)
             \/ \E new \in Names \cup {Empty} : Rename(fd, new)
             \/ Unregister(fd) \/ Logout(fd)
    <3>1. UNCHANGED mediaVars
      BY <2>2 DEF Register, Login, Rename, Unregister, Logout
    <3>2. Players(userHead') <= Players(userHead)
      BY <1>1, <2>2, PlayersStep
    <3> QED BY <1>2, <3>1, <3>2
  <2> QED BY <1>4, <1>6, <1>7, <1>8, <2>1, <2>2 DEF Receive
<1>9. CASE FinishChange \/ Accept
  <2>1. UNCHANGED <<userHead, mediaVars>>
    BY <1>9 DEF FinishChange, Accept
  <2> QED BY <1>1, <1>2, <2>1
<1>10. CASE AcceptFail \/ Crash
  <2>1. userHead' = <<>> /\ rtsp_server_pid' = NoPid /\ rtsp_client_num' = 0
    BY <1>10 DEF AcceptFail, Crash, Gone
  <2>2. PlayingAt(<<>>) = {}
    BY DEF PlayingAt
  <2>3. Cardinality(PlayingAt(userHead')) = 0
    BY <2>1, <2>2, FS_EmptySet
  <2> QED BY <2>1, <2>3 DEF MediaCounted
<1>11. CASE Start
  <2>1. UNCHANGED mediaVars
    BY <1>11 DEF Start, qq_sql3_init, LoadUsers
  <2>2. \A i \in DOMAIN userHead' : userHead'[i].rtspPlayFlag = NO
    BY <1>11 DEF Start, qq_sql3_init, LoadUsers, NewNode
  <2>3. PlayingAt(userHead') = {}
    BY <2>2 DEF PlayingAt, NO, YES
  <2>4. Players(userHead') = 0
    BY <2>3, FS_EmptySet DEF Players
  <2> QED BY <1>1, <1>2, <2>1, <2>4
<1> QED BY <1>8, <1>9, <1>10, <1>11 DEF Step

(* For every number of users and connections: the media sender runs just   *)
(* while the counter is above 0, and the counter never runs below the      *)
(* number of users who play.                                               *)
THEOREM MediaIsCounted == Spec => []MediaCounted
<1>1. Init => MediaCounted
  <2>1. PlayingAt(<<>>) = {}
    BY DEF PlayingAt
  <2> QED BY <2>1, FS_EmptySet DEF Init, MediaCounted, NoPid, Pid
<1>2. TypeOK /\ TypeOK' /\ MediaCounted /\ [Next]_vars => MediaCounted'
  <2>1. CASE Next
    BY <2>1, MediaStep DEF Next
  <2>2. CASE UNCHANGED vars
    BY <2>2 DEF vars, mediaVars, MediaCounted, PlayingAt
  <2> QED BY <2>1, <2>2
<1> QED BY <1>1, <1>2, TypeCorrect, PTL DEF Spec

-----------------------------------------------------------------------------
(* Every step of the server is a step of Accounts or leaves it alone.      *)
LEMMA AccountsStep ==
  ASSUME TypeOK, NamesInv, Step
  PROVE  A!Next \/ UNCHANGED <<table, ChangingName>>
<1> USE DEF ChangingName
<1>1. CASE table' = table /\ changing' = changing
  BY <1>1
<1>2. ASSUME NEW fd \in Fds, NEW name \in Names, NEW pw \in Passwords,
             Register(fd, name, pw)
      PROVE  A!Next \/ UNCHANGED <<table, ChangingName>>
  <2>1. changing = NoChange /\ changing' = NoChange
    BY <1>2 DEF Register, Serving
  <2>2. table' = table \/ A!Open(name, pw)
    BY <1>2, <2>1
       DEF Register, LockForever, dbVars, qq_sql3_insert, A!Open, A!Taken, Taken
  <2> QED BY <2>1, <2>2 DEF A!Next
<1>3. ASSUME NEW fd \in Fds, NEW new \in Names \cup {Empty}, Rename(fd, new)
      PROVE  A!Next \/ UNCHANGED <<table, ChangingName>>
  <2>1. changing = NoChange /\ changing' = NoChange
    BY <1>3 DEF Rename, Serving
  <2>2. PICK i \in DOMAIN userHead :
          \/ table' = table
          \/ /\ new \in Names /\ ~ Taken(new)
             /\ table' = {Renamed(r, userHead[i].userId, new) : r \in table}
    BY <1>3 DEF Rename, ChangeName, qq_sql3_rename, LockForever, dbVars
  <2> DEFINE old == userHead[i].userId
  <2>3. old \in Names
    BY ListLemma DEF TypeOK
  <2>4. CASE table' = table
    BY <2>1, <2>4
  <2>5. CASE /\ new \in Names /\ ~ Taken(new)
             /\ table' = {Renamed(r, old, new) : r \in table}
    <3>1. CASE ~ Taken(old)
      <4>1. \A r \in table : Renamed(r, old, new) = r
        BY <3>1 DEF Taken, Renamed
      <4>2. table' = table
        BY <2>5, <4>1
      <4> QED BY <2>1, <4>2
    <3>2. CASE Taken(old)
      <4>1. PICK q \in table : q.name = old
        BY <3>2 DEF Taken
      <4>2. \A r \in table : Renamed(r, old, new) =
               IF r = q THEN [q EXCEPT !.name = new] ELSE r
        BY <4>1 DEF NamesInv, UniqueNames, Renamed
      <4>3. table' = (table \ {q}) \cup {[q EXCEPT !.name = new]}
        BY <2>5, <4>2
      <4>4. A!Move(old, new)
        BY <2>1, <2>5, <4>1, <4>3 DEF A!Move, A!Taken, Taken
      <4> QED BY <2>3, <2>5, <4>4 DEF A!Next
    <3> QED BY <3>1, <3>2
  <2> QED BY <2>2, <2>4, <2>5
<1>4. ASSUME NEW fd \in Fds, NEW pw \in Passwords \cup {Empty},
             ChangePassward(fd, pw)
      PROVE  A!Next \/ UNCHANGED <<table, ChangingName>>
  <2>1. changing = NoChange
    BY <1>4 DEF ChangePassward, Serving
  <2>2. PICK i \in DOMAIN userHead :
          \/ table' = table /\ changing' = changing
          \/ /\ changing' = [fd |-> fd, name |-> userHead[i].userId, pw |-> pw]
             /\ table' = {r \in table : r.name # userHead[i].userId}
    BY <1>4 DEF ChangePassward, qq_sql3_delete, LockForever, dbVars
  <2>3. CASE /\ changing' = [fd |-> fd, name |-> userHead[i].userId, pw |-> pw]
             /\ table' = {r \in table : r.name # userHead[i].userId}
    <3>1. userHead[i].userId \in Names
      BY ListLemma DEF TypeOK
    <3>2. ChangingName' = userHead[i].userId /\ ChangingName = None
      BY <2>1, <2>3, <3>1 DEF NoChange, Fds, NoFd
    <3>3. A!BeginChange(userHead[i].userId)
      BY <2>3, <3>2 DEF A!BeginChange
    <3> QED BY <3>1, <3>3 DEF A!Next
  <2> QED BY <1>1, <2>2, <2>3
<1>5. ASSUME NEW fd \in Fds, Unregister(fd)
      PROVE  A!Next \/ UNCHANGED <<table, ChangingName>>
  <2>1. changing = NoChange /\ changing' = NoChange
    BY <1>5 DEF Unregister, Serving
  <2>2. PICK i \in DOMAIN userHead :
          \/ table' = table
          \/ table' = {r \in table : r.name # userHead[i].userId}
    BY <1>5 DEF Unregister, qq_sql3_delete, LockForever, dbVars
  <2>3. userHead[i].userId \in Names
    BY ListLemma DEF TypeOK
  <2>4. table' = table \/ A!Close(userHead[i].userId)
    BY <2>1, <2>2 DEF A!Close
  <2> QED BY <2>1, <2>3, <2>4 DEF A!Next
<1>6. CASE FinishChange
  <2>1. /\ changing # NoChange /\ changing' = NoChange
        /\ changing.name \in Names /\ changing.pw \in Passwords
        /\ ~ Taken(changing.name)
    BY <1>6 DEF FinishChange, TypeOK, NamesInv, ChangingFree
  <2>2. ChangingName = changing.name /\ ChangingName' = None
    BY <2>1
  <2>3. ChangingName # None
    BY <2>1, <2>2, ServerAssumption
  <2>4. table' = table
          \/ table' = table \cup {[name |-> changing.name, pw |-> changing.pw]}
    BY <1>6 DEF FinishChange, qq_sql3_insert
  <2>5. A!LoseChange \/ A!EndChange(changing.pw)
    BY <2>1, <2>2, <2>3, <2>4 DEF A!LoseChange, A!EndChange, A!Taken, Taken
  <2> QED BY <2>1, <2>5 DEF A!Next
<1>7. CASE AcceptFail \/ Crash
  <2>1. table' = table /\ changing' = NoChange
    BY <1>7 DEF AcceptFail, Crash, Gone
  <2>2. ChangingName # None => A!LoseChange
    BY <2>1 DEF A!LoseChange
  <2> QED BY <2>1, <2>2 DEF A!Next
<1>8. ASSUME NEW fd \in Fds, Receive(fd)
      PROVE  A!Next \/ UNCHANGED <<table, ChangingName>>
  <2>1. ASSUME NEW name \in Names, NEW pw \in Passwords, Login(fd, name, pw)
        PROVE  table' = table /\ changing' = changing
    BY <2>1 DEF Login, dbVars
  <2>2. ASSUME \/ Discard(fd) \/ ReqUsers(fd) \/ Logout(fd) \/ ReqMedia(fd)
               \/ StopMedia(fd) \/ Quit(fd)
        PROVE  table' = table /\ changing' = changing
    BY <2>2 DEF Discard, ReqUsers, Logout, ReqMedia, StopMedia, Quit, dbVars
  <2> QED BY <1>1, <1>2, <1>3, <1>4, <1>5, <1>8, <2>1, <2>2 DEF Receive
<1>9. CASE Accept \/ Start
  BY <1>1, <1>9 DEF Accept, Start, qq_sql3_init, LoadUsers, dbVars
<1> QED BY <1>6, <1>7, <1>8, <1>9 DEF Step

(* The server implements Accounts, for every set of names and passwords,   *)
(* every prefix relation among the names and every combination of faults:  *)
(* whatever the list of users, the descriptors and the crashes do, an      *)
(* account is never overwritten, and it is lost only by a change of        *)
(* password that was cut short.                                            *)
THEOREM ServerImplementsAccounts == Spec => ImplementsAccounts
<1>1. Init => A!Init
  BY DEF Init, A!Init, ChangingName
<1>2. TypeOK /\ NamesInv /\ [Next]_vars => [A!Next]_<<table, ChangingName>>
  <2>1. CASE Next
    BY <2>1, AccountsStep DEF Next
  <2>2. CASE UNCHANGED vars
    BY <2>2 DEF vars, dbVars, ChangingName
  <2> QED BY <2>1, <2>2
<1> QED BY <1>1, <1>2, TypeCorrect, NamesInvariant, PTL
        DEF Spec, A!Spec, ImplementsAccounts
-----------------------------------------------------------------------------
(* The write lock: every way out of a writer but the failed preparation of *)
(* an insert leaves it free, so that no writer finds it locked.            *)
LockInv == "prepare" \notin Faults => writeLock = "free" /\ server # "hung"

LEMMA LockStep ==
  ASSUME LockInv, Step, "prepare" \notin Faults
  PROVE  writeLock' = "free" /\ server' # "hung"
<1>1. writeLock = "free" /\ server # "hung"
  BY DEF LockInv
<1>2. ASSUME NEW ok \in BOOLEAN, NEW n, NEW m, NEW p,
             \/ qq_sql3_insert(n, p, ok) \/ qq_sql3_delete(n, ok)
             \/ ChangeName(n, m, ok)
      PROVE  writeLock' = "free"
  BY <1>1, <1>2
     DEF qq_sql3_insert, qq_sql3_delete, ChangeName, qq_sql3_rename
<1>3. ~ LockForever
  BY <1>1 DEF LockForever
<1>4. ASSUME NEW fd \in Fds, Receive(fd)
      PROVE  writeLock' = "free" /\ server' # "hung"
  <2>1. ASSUME NEW name \in Names, NEW pw \in Passwords, Register(fd, name, pw)
        PROVE  writeLock' = "free" /\ server' = server
    BY <1>1, <1>2, <1>3, <2>1 DEF Register
  <2>2. ASSUME NEW name \in Names, NEW pw \in Passwords, Login(fd, name, pw)
        PROVE  writeLock' = "free" /\ server' = server
    BY <1>1, <2>2 DEF Login, dbVars
  <2>3. ASSUME NEW new \in Names \cup {Empty}, Rename(fd, new)
        PROVE  writeLock' = "free" /\ server' = server
    BY <1>1, <1>2, <1>3, <2>3 DEF Rename
  <2>4. ASSUME NEW pw \in Passwords \cup {Empty}, ChangePassward(fd, pw)
        PROVE  writeLock' = "free" /\ server' = server
    BY <1>1, <1>2, <1>3, <2>4 DEF ChangePassward, dbVars
  <2>5. ASSUME Unregister(fd)
        PROVE  writeLock' = "free" /\ server' = server
    BY <1>1, <1>2, <1>3, <2>5 DEF Unregister
  <2>6. ASSUME \/ Discard(fd) \/ ReqUsers(fd) \/ Logout(fd) \/ ReqMedia(fd)
               \/ StopMedia(fd) \/ Quit(fd)
        PROVE  writeLock' = "free" /\ server' = server
    BY <1>1, <2>6
       DEF Discard, ReqUsers, Logout, ReqMedia, StopMedia, Quit, dbVars
  <2> QED  BY <1>1, <1>4, <2>1, <2>2, <2>3, <2>4, <2>5, <2>6 DEF Receive
<1>5. CASE FinishChange
  BY <1>1, <1>2, <1>5 DEF FinishChange
<1>6. CASE Accept \/ AcceptFail \/ Crash \/ Start
  BY <1>1, <1>6 DEF Accept, AcceptFail, Crash, Start, qq_sql3_init, LoadUsers, Gone, dbVars
<1> QED  BY <1>4, <1>5, <1>6 DEF Step

(* The server waits forever for its write lock only when the preparation   *)
(* of an insert fails: for any names, passwords and other faults, and in   *)
(* whatever order messages come.                                           *)
THEOREM ServerNeverHangs == Spec => []NeverHung
<1>1. Init => LockInv
  BY DEF Init, LockInv
<1>2. LockInv /\ [Next]_vars => LockInv'
  <2>1. CASE Next
    BY <2>1, LockStep DEF Next, LockInv
  <2>2. CASE UNCHANGED vars
    BY <2>2 DEF vars, dbVars, LockInv
  <2> QED  BY <2>1, <2>2
<1>3. LockInv => NeverHung
  BY DEF LockInv, NeverHung
<1> QED  BY <1>1, <1>2, <1>3, PTL DEF Spec
=============================================================================
