---------------------------- MODULE OnlineProofs ----------------------------
(***************************************************************************)
(* Whom the server shows online: every online node has the descriptor of   *)
(* a connection of this run, and of one that is still served unless the    *)
(* descriptor was in two nodes at once.                                    *)
(***************************************************************************)
EXTENDS ServerProofs

(* The descriptors of the nodes that are online.                           *)
OnlineFds(list) == {list[i].socketfd : i \in OnlineAt(list)}

-----------------------------------------------------------------------------
(* What the operations on the list do to these descriptors.                *)

(* Nobody goes online and no descriptor is written.                        *)
LEMMA OnlineSame ==
  ASSUME NEW list, NEW after, DOMAIN after = DOMAIN list,
         \A i \in DOMAIN list :
            /\ after[i].socketfd = list[i].socketfd
            /\ after[i].logFlag = YES => list[i].logFlag = YES
  PROVE  OnlineFds(after) \subseteq OnlineFds(list)
BY DEF OnlineFds, OnlineAt

(* A new node is offline; the others move.                                 *)
LEMMA OnlineAdd ==
  ASSUME NEW list \in Seq(Node), NEW node \in Node, node.logFlag = NO
  PROVE  OnlineFds(addUserToList(list, node)) \subseteq OnlineFds(list)
<1> DEFINE after == addUserToList(list, node)
<1>1. Len(list) \in Nat /\ DOMAIN list = 1..Len(list)
  BY ListLemma
<1>2. list \in Seq(Node) /\ node \in Node
  OBVIOUS
<1>3. /\ DOMAIN after = 1..(Len(list) + 1)
      /\ after[1] = node
      /\ \A j \in 2..(Len(list) + 1) : after[j] = list[j - 1]
  BY <1>2, AddLemma
<1> HIDE DEF after
<1>4. ASSUME NEW j \in OnlineAt(after)
      PROVE  j - 1 \in OnlineAt(list) /\ after[j] = list[j - 1]
  BY <1>1, <1>3 DEF OnlineAt, NO, YES
<1>5. OnlineFds(after) \subseteq OnlineFds(list)
  BY <1>4 DEF OnlineFds
<1> QED  BY <1>5 DEF after

(* A node is removed; the others stay or move.                             *)
LEMMA OnlineRemove ==
  ASSUME NEW list \in Seq(Node), NEW k \in DOMAIN list
  PROVE  OnlineFds(RemoveAt(list, k)) \subseteq OnlineFds(list)
<1> DEFINE after == RemoveAt(list, k)
<1>1. Len(list) \in Nat /\ DOMAIN list = 1..Len(list)
  BY ListLemma
<1>2. /\ DOMAIN after = 1..(Len(list) - 1)
      /\ \A j \in 1..(Len(list) - 1) :
            after[j] = IF j < k THEN list[j] ELSE list[j + 1]
  BY <1>1, RemoveLemma
<1> HIDE DEF after
<1>3. ASSUME NEW j \in OnlineAt(after)
      PROVE  \E i \in OnlineAt(list) : after[j] = list[i]
  BY <1>1, <1>2 DEF OnlineAt
<1>4. OnlineFds(after) \subseteq OnlineFds(list)
  BY <1>3 DEF OnlineFds
<1> QED  BY <1>4 DEF after

(* The node that logs in is the only one that goes online, on the          *)
(* connection its login came from.                                         *)
LEMMA OnlineSet ==
  ASSUME NEW list \in Seq(Node), NEW i \in DOMAIN list, NEW fd \in Fds
  PROVE  OnlineFds(SetOnline(list, i, fd)) \subseteq OnlineFds(list) \cup {fd}
<1> DEFINE after == SetOnline(list, i, fd)
<1>1. /\ DOMAIN list = 1..Len(list) /\ list \in [1..Len(list) -> Node]
      /\ \A j \in DOMAIN list : list[j] \in Node
  BY ListLemma, LenProperties
<1>2. /\ DOMAIN after = DOMAIN list
      /\ after[i].socketfd = fd
      /\ \A j \in DOMAIN list : j # i => after[j] = list[j]
  BY <1>1 DEF SetOnline, Node
<1> HIDE DEF after
<1>3. OnlineFds(after) \subseteq OnlineFds(list) \cup {fd}
  BY <1>2 DEF OnlineFds, OnlineAt
<1> QED  BY <1>3 DEF after

(* The end of a stream: the first node of the descriptor goes offline.     *)
AfterQuit(list, i, fd) ==
  [setLoginBySockID(list, fd, NO) EXCEPT ![i].rtspPlayFlag = NO]

(* Nobody else does, and no descriptor is written.                         *)
LEMMA OnlineQuit ==
  ASSUME NEW list \in Seq(Node), NEW i \in DOMAIN list, NEW fd \in Fds
  PROVE  /\ DOMAIN AfterQuit(list, i, fd) = DOMAIN list
         /\ \A j \in DOMAIN list :
              /\ AfterQuit(list, i, fd)[j].socketfd = list[j].socketfd
              /\ AfterQuit(list, i, fd)[j].logFlag = YES
                    => list[j].logFlag = YES
              /\ findNodeBySocketID(list, fd, j)
                    => AfterQuit(list, i, fd)[j].logFlag = NO
<1> DEFINE after == AfterQuit(list, i, fd)
<1>1. /\ DOMAIN list = 1..Len(list)
      /\ \A j \in DOMAIN list : list[j] \in Node
  BY ListLemma
<1> DEFINE l == setLoginBySockID(list, fd, NO)
<1>2. /\ DOMAIN l = DOMAIN list
      /\ \A j \in DOMAIN list :
           /\ l[j] \in Node
           /\ l[j].socketfd = list[j].socketfd
           /\ l[j].logFlag = YES => list[j].logFlag = YES
           /\ findNodeBySocketID(list, fd, j) => l[j].logFlag = NO
  BY <1>1 DEF setLoginBySockID, Node, NO, YES
<1> HIDE DEF l
<1>3. after = [l EXCEPT ![i].rtspPlayFlag = NO]
  BY DEF l, AfterQuit
<1> HIDE DEF after
<1>4. DOMAIN after = DOMAIN list
  BY <1>2, <1>3
<1>5. \A j \in DOMAIN list : /\ after[j].socketfd = l[j].socketfd
                             /\ after[j].logFlag = l[j].logFlag
  BY <1>2, <1>3 DEF Node
<1> QED  BY <1>2, <1>4, <1>5 DEF after

-----------------------------------------------------------------------------
(* Only a login puts anybody online, and only at its own connection.       *)
LEMMA OnlineStep ==
  ASSUME TypeOK, NEW fd \in Fds, Receive(fd)
  PROVE  OnlineFds(userHead') \subseteq OnlineFds(userHead) \cup {fd}
<1> DEFINE list == userHead
           bound == OnlineFds(list) \cup {fd}
<1>1. /\ list \in Seq(Node) /\ Len(list) \in Nat
      /\ DOMAIN list = 1..Len(list) /\ list \in [1..Len(list) -> Node]
      /\ \A i \in DOMAIN list : list[i] \in Node
  BY ListLemma, LenProperties DEF TypeOK
<1>2. CASE UNCHANGED userHead
  BY <1>2
<1>3. ASSUME NEW name \in Names, NEW pw \in Passwords, Register(fd, name, pw)
      PROVE  OnlineFds(userHead') \subseteq bound
  <2>1. NewNode(name, fd) \in Node /\ NewNode(name, fd).logFlag = NO
    BY DEF NewNode, Node
  <2>2. OnlineFds(addUserToList(list, NewNode(name, fd))) \subseteq bound
    BY <1>1, <2>1, OnlineAdd
  <2>3. userHead' \in {list, addUserToList(list, NewNode(name, fd))}
    BY <1>3 DEF Register, LockForever
  <2> QED  BY <2>2, <2>3
<1>4. ASSUME NEW name \in Names, NEW pw \in Passwords, Login(fd, name, pw)
      PROVE  OnlineFds(userHead') \subseteq bound
  <2>1. userHead' = list
          \/ \E i \in DOMAIN list : userHead' = SetOnline(list, i, fd)
    BY <1>4 DEF Login
  <2> QED  BY <1>1, <2>1, OnlineSet
<1>5. ASSUME NEW new \in Names \cup {Empty}, Rename(fd, new)
      PROVE  OnlineFds(userHead') \subseteq bound
  <2>1. userHead' = list
          \/ \E i, k \in DOMAIN list : userHead' =
                [list EXCEPT ![k].userId = new, ![i].userId = new]
    BY <1>5 DEF Rename, RenameList, LockForever
  <2>2. ASSUME NEW i \in DOMAIN list, NEW k \in DOMAIN list,
               userHead' = [list EXCEPT ![k].userId = new, ![i].userId = new]
        PROVE  /\ DOMAIN userHead' = DOMAIN list
               /\ \A j \in DOMAIN list :
                    /\ userHead'[j].socketfd = list[j].socketfd
                    /\ userHead'[j].logFlag = list[j].logFlag
    BY <1>1, <2>2 DEF Node
  <2>3. CASE userHead' # list
    <3>1. /\ DOMAIN userHead' = DOMAIN list
          /\ \A j \in DOMAIN list :
               /\ userHead'[j].socketfd = list[j].socketfd
               /\ userHead'[j].logFlag = list[j].logFlag
      BY <2>1, <2>2, <2>3
    <3> QED  BY <3>1, OnlineSame
  <2> QED  BY <2>3
<1>6. ASSUME Unregister(fd)
      PROVE  OnlineFds(userHead') \subseteq bound
  <2>1. userHead' = list \/ \E k \in DOMAIN list : userHead' = RemoveAt(list, k)
    BY <1>6 DEF Unregister, deleteNodeByName, LockForever
  <2> QED  BY <1>1, <2>1, OnlineRemove
<1>7. ASSUME Logout(fd)
      PROVE  OnlineFds(userHead') \subseteq bound
  <2>1. PICK i \in DOMAIN list : userHead' = [list EXCEPT ![i].logFlag = NO]
    BY <1>7 DEF Logout
  <2>2. /\ DOMAIN userHead' = DOMAIN list
        /\ \A j \in DOMAIN list :
             /\ userHead'[j].socketfd = list[j].socketfd
             /\ userHead'[j].logFlag = YES => list[j].logFlag = YES
    BY <1>1, <2>1 DEF Node, NO, YES
  <2> QED  BY <2>2, OnlineSame
<1>8. ASSUME ReqMedia(fd) \/ StopMedia(fd)
      PROVE  OnlineFds(userHead') \subseteq bound
  <2>1. userHead' = list \/ \E i \in DOMAIN list, flag \in {NO, YES} :
          userHead' = [list EXCEPT ![i].rtspPlayFlag = flag]
    <3>1. CASE ReqMedia(fd)
      BY <3>1 DEF ReqMedia, AddPlayer
    <3>2. CASE StopMedia(fd)
      BY <3>2 DEF StopMedia
    <3> QED  BY <1>8, <3>1, <3>2
  <2>2. ASSUME NEW i \in DOMAIN list, NEW flag \in {NO, YES},
               userHead' = [list EXCEPT ![i].rtspPlayFlag = flag]
        PROVE  /\ DOMAIN userHead' = DOMAIN list
               /\ \A j \in DOMAIN list :
                    /\ userHead'[j].socketfd = list[j].socketfd
                    /\ userHead'[j].logFlag = list[j].logFlag
    BY <1>1, <2>2 DEF Node
  <2>3. CASE userHead' # list
    <3>1. /\ DOMAIN userHead' = DOMAIN list
          /\ \A j \in DOMAIN list :
               /\ userHead'[j].socketfd = list[j].socketfd
               /\ userHead'[j].logFlag = list[j].logFlag
      BY <2>1, <2>2, <2>3
    <3> QED  BY <3>1, OnlineSame
  <2> QED  BY <2>3
<1>9. ASSUME Quit(fd)
      PROVE  OnlineFds(userHead') \subseteq bound
  <2>1. userHead' = list
          \/ \E i \in DOMAIN list : userHead' = AfterQuit(list, i, fd)
    BY <1>9 DEF Quit, QuitOnline, AfterQuit
  <2>2. CASE userHead' # list
    <3>1. PICK i \in DOMAIN list : userHead' = AfterQuit(list, i, fd)
      BY <2>1, <2>2
    <3>2. /\ DOMAIN userHead' = DOMAIN list
          /\ \A j \in DOMAIN list :
               /\ userHead'[j].socketfd = list[j].socketfd
               /\ userHead'[j].logFlag = YES => list[j].logFlag = YES
      BY <1>1, <3>1, OnlineQuit
    <3> QED  BY <3>2, OnlineSame
  <2> QED  BY <2>2
<1>10. Discard(fd) \/ ReqUsers(fd)
          \/ (\E pw \in Passwords \cup {Empty} : ChangePassward(fd, pw))
         => UNCHANGED userHead
  BY DEF Discard, ReqUsers, ChangePassward
<1> QED  BY <1>2, <1>3, <1>4, <1>5, <1>6, <1>7, <1>8, <1>9, <1>10 DEF Receive

-----------------------------------------------------------------------------
(* The invariant: OnlineConnected and GhostsWereShared as one statement    *)
(* about descriptors.                                                      *)
OnlineInv == OnlineFds(userHead) \subseteq (1..conns) \cap (watched \cup shared)

(* The stream of fd ends.  Whoever is still online at fd afterwards is not *)
(* the first node of fd, so that fd was in two nodes.                      *)
LEMMA QuitShares ==
  ASSUME TypeOK, NEW fd \in Fds, Quit(fd),
         fd \in OnlineFds(userHead')
  PROVE  fd \in InSeveral(userHead')
<1> DEFINE list == userHead
<1>1. /\ list \in Seq(Node) /\ Len(list) \in Nat /\ DOMAIN list = 1..Len(list)
  BY ListLemma DEF TypeOK
<1>2. /\ DOMAIN userHead' = DOMAIN list
      /\ \A j \in DOMAIN list :
           /\ userHead'[j].socketfd = list[j].socketfd
           /\ findNodeBySocketID(list, fd, j) => userHead'[j].logFlag = NO
  <2>1. CASE /\ UNCHANGED userHead
             /\ \A j \in DOMAIN list :
                  findNodeBySocketID(list, fd, j) => list[j].logFlag = NO
    BY <2>1
  <2>2. CASE \E i \in DOMAIN list : userHead' = AfterQuit(list, i, fd)
    <3>1. PICK i \in DOMAIN list : userHead' = AfterQuit(list, i, fd)
      BY <2>2
    <3> QED  BY <1>1, <3>1, OnlineQuit
  <2> QED  BY <2>1, <2>2 DEF Quit, QuitOnline, AfterQuit
<1>3. PICK j \in DOMAIN list : /\ list[j].socketfd = fd
                               /\ userHead'[j].logFlag = YES
  BY <1>2 DEF OnlineFds, OnlineAt
<1>4. ~ findNodeBySocketID(list, fd, j)
  BY <1>2, <1>3 DEF NO, YES
<1>5. PICK i \in 1..(j - 1) : list[i].socketfd = fd
  BY <1>3, <1>4 DEF findNodeBySocketID
<1>6. i \in DOMAIN list /\ i # j
  BY <1>1, <1>3, <1>5
<1> QED  BY <1>2, <1>3, <1>5, <1>6 DEF InSeveral

(* A handler runs for a connection that is watched, and accepts none.      *)
LEMMA ReceiveNet ==
  ASSUME NEW fd \in Fds, Receive(fd)
  PROVE  /\ server = "up" /\ server' \in {"up", "hung"}
         /\ fd \in watched /\ conns' = conns /\ changing = NoChange
         /\ watched' = watched \/ (Quit(fd) /\ watched' = watched \ {fd})
<1> USE DEF Serving, netVars
<1>1. CASE Discard(fd) \/ ReqUsers(fd) \/ Logout(fd)
           \/ ReqMedia(fd) \/ StopMedia(fd)
  BY <1>1 DEF Discard, ReqUsers, Logout, ReqMedia, StopMedia
<1>2. CASE \E name \in Names, pw \in Passwords :
              Register(fd, name, pw) \/ Login(fd, name, pw)
  BY <1>2 DEF Register, Login, LockForever
<1>3. CASE \E name \in Names \cup {Empty} : Rename(fd, name)
  BY <1>3 DEF Rename, LockForever
<1>4. CASE \E pw \in Passwords \cup {Empty} : ChangePassward(fd, pw)
  BY <1>4 DEF ChangePassward, LockForever
<1>5. CASE Unregister(fd)
  BY <1>5 DEF Unregister, LockForever
<1>6. CASE Quit(fd)
  BY <1>6 DEF Quit
<1> QED BY <1>1, <1>2, <1>3, <1>4, <1>5, <1>6 DEF Receive

LEMMA OnlineInvStep ==
  ASSUME TypeOK, TypeOK', OnlineInv, Next
  PROVE  OnlineInv'
<1>1. Step /\ Remember
  BY DEF Next
<1>2. ASSUME NEW fd \in Fds, Receive(fd)
      PROVE  OnlineInv'
  <2>1. /\ server = "up" /\ server' \in {"up", "hung"}
        /\ fd \in watched /\ conns' = conns
        /\ watched' = watched \/ (Quit(fd) /\ watched' = watched \ {fd})
    BY <1>2, ReceiveNet
  <2>2. shared' = shared \cup InSeveral(userHead')
    BY <1>1, <2>1 DEF Remember
  <2>3. fd \in 1..conns
    BY <2>1 DEF TypeOK
  <2>4. OnlineFds(userHead') \subseteq OnlineFds(userHead) \cup {fd}
    BY <1>2, OnlineStep
  <2>5. CASE watched' = watched
    BY <2>1, <2>2, <2>3, <2>4, <2>5 DEF OnlineInv
  <2>6. CASE Quit(fd) /\ watched' = watched \ {fd}
    <3>1. fd \in OnlineFds(userHead') => fd \in shared'
      BY <2>2, <2>6, QuitShares
    <3> QED  BY <2>1, <2>2, <2>3, <2>4, <2>6, <3>1 DEF OnlineInv
  <2> QED  BY <2>1, <2>5, <2>6
<1>3. CASE FinishChange
  BY <1>1, <1>3 DEF FinishChange, Remember, OnlineInv, netVars
<1>4. CASE Accept
  <2>1. /\ server' = "up" /\ conns \in Nat /\ conns' = conns + 1
        /\ watched \subseteq watched' /\ userHead' = userHead
    BY <1>4, FdAssumption DEF Accept, TypeOK
  <2>2. shared \subseteq shared'
    BY <1>1, <2>1 DEF Remember
  <2>3. 1..conns \subseteq 1..conns'
    BY <2>1
  <2> QED  BY <2>1, <2>2, <2>3 DEF OnlineInv
<1>5. CASE AcceptFail \/ Crash
  <2>1. userHead' = <<>>
    BY <1>5 DEF AcceptFail, Crash, Gone
  <2> QED  BY <2>1 DEF OnlineInv, OnlineFds, OnlineAt
<1>6. CASE Start
  <2>1. \A i \in DOMAIN userHead' : userHead'[i].logFlag = NO
    BY <1>6 DEF Start, qq_sql3_init, LoadUsers, NewNode
  <2> QED  BY <2>1 DEF OnlineInv, OnlineFds, OnlineAt, NO, YES
<1> QED  BY <1>1, <1>2, <1>3, <1>4, <1>5, <1>6 DEF Step

LEMMA OnlineInvariant == Spec => []OnlineInv
<1>1. Init => OnlineInv
  BY DEF Init, OnlineInv, OnlineFds, OnlineAt
<1>2. TypeOK /\ TypeOK' /\ OnlineInv /\ [Next]_vars => OnlineInv'
  <2>1. CASE UNCHANGED vars
    BY <2>1 DEF vars, netVars, OnlineInv
  <2> QED  BY <2>1, OnlineInvStep
<1> QED  BY <1>1, <1>2, TypeCorrect, PTL DEF Spec

(* Every online user is bound to a connection of this run of the server    *)
(* (handleMessage, login; epollProcess; the list loaded by main).          *)
THEOREM OnlineAreConnected == Spec => []OnlineConnected
<1>1. OnlineInv => OnlineConnected
  BY DEF OnlineInv, OnlineFds, OnlineConnected
<1> QED  BY <1>1, OnlineInvariant, PTL

(* epollProcess leaves a user online at the end of his stream only when    *)
(* the descriptor was in two nodes at once.                                *)
THEOREM OnlyTheSharedStay == Spec => []GhostsWereShared
<1>1. OnlineInv => GhostsWereShared
  BY DEF OnlineInv, OnlineFds, GhostsWereShared
<1> QED  BY <1>1, OnlineInvariant, PTL
=============================================================================
