------------------------------ MODULE UserList ------------------------------
(***************************************************************************)
(* The linked list of users of userList.c, as operators over a sequence:   *)
(* element 1 is head->next, the node every search meets first.  The list   *)
(* has no lock and no owner; server.c calls these operations from its one  *)
(* epoll thread.                                                           *)
(***************************************************************************)
EXTENDS Integers, FiniteSets, SequencesExt

CONSTANTS
  Names,      \* the user names
  PrefixOf,   \* <<a, b>> in PrefixOf: name a is a prefix of name b
  MaxFd       \* connections the process can accept before it has no more
              \* file descriptors; connection number k stands for its fd

ASSUME PrefixAssumption ==
  /\ PrefixOf \subseteq Names \X Names
  /\ \A n \in Names : <<n, n>> \in PrefixOf

ASSUME FdAssumption == MaxFd \in Nat \ {0}

Fds == 1..MaxFd

(* The descriptor of a node loaded from the database: memset to 0, which   *)
(* is no connection (it is the standard input of the server).              *)
NoFd == 0

(* LOGIN_NO and LOGIN_YES, and the same two values of rtspPlayFlag.        *)
NO == 0
YES == 1

(* UIfo.                                                                   *)
Node == [userId : Names, socketfd : Fds \cup {NoFd},
         logFlag : {NO, YES}, rtspPlayFlag : {NO, YES}]

NewNode(name, fd) ==
  [userId |-> name, socketfd |-> fd, logFlag |-> NO, rtspPlayFlag |-> NO]

-----------------------------------------------------------------------------
(* addUserToList links the new node right after the head.                  *)
addUserToList(list, node) == Cons(node, list)

(* strncmp(p->nodeInfo.userId, name, strlen(name)) == 0: name needs only   *)
(* be a prefix of the userId of the node.                                  *)
Matches(node, name) == <<name, node.userId>> \in PrefixOf

(* findNodeByName(list, name) returns the node at position i.              *)
findNodeByName(list, name, i) ==
  /\ i \in DOMAIN list
  /\ Matches(list[i], name)
  /\ \A j \in 1..(i - 1) : ~ Matches(list[j], name)

(* findNodeByName(list, name) returns NULL.                                *)
NoNodeByName(list, name) == \A i \in DOMAIN list : ~ Matches(list[i], name)

(* findNodeBySocketID(list, fd) returns the node at position i.            *)
findNodeBySocketID(list, fd, i) ==
  /\ i \in DOMAIN list
  /\ list[i].socketfd = fd
  /\ \A j \in 1..(i - 1) : list[j].socketfd # fd

(* findNodeBySocketID(list, fd) returns NULL.                              *)
NoNodeBySocketID(list, fd) == \A i \in DOMAIN list : list[i].socketfd # fd

(* Mutant of deleteNodeByName: the predecessor is linked to nothing.       *)
deleteNodeByNameTail(list, name, after) ==
  \/ NoNodeByName(list, name) /\ after = list
  \/ \E k \in DOMAIN list :
        findNodeByName(list, name, k) /\ after = SubSeq(list, 1, k - 1)

(* Mutant of deleteNodeByName: nothing is unlinked.                        *)
deleteNodeByNameNot(list, name, after) == after = list

(* deleteNodeByName unlinks and frees the node findNodeByName would find.  *)
deleteNodeByName(list, name, after) ==
  \/ NoNodeByName(list, name) /\ after = list
  \/ \E k \in DOMAIN list :
        findNodeByName(list, name, k) /\ after = RemoveAt(list, k)

(* setLoginBySockID changes the first node of the descriptor, and no other *)
(* node that carries the same descriptor.                                  *)
setLoginBySockID(list, fd, flag) ==
  [i \in DOMAIN list |->
     IF findNodeBySocketID(list, fd, i)
     THEN [list[i] EXCEPT !.logFlag = flag] ELSE list[i]]

(* The positions of the nodes that are online, and of those that play.     *)
OnlineAt(list) == {i \in DOMAIN list : list[i].logFlag = YES}
PlayingAt(list) == {i \in DOMAIN list : list[i].rtspPlayFlag = YES}
=============================================================================
