--------------------------- MODULE ProcessesProofs ---------------------------
(***************************************************************************)
(* Theorems about the processes around MyQQ: what holds the ports, and     *)
(* whether the server and its clients agree on who plays.                  *)
(*                                                                         *)
(* The first part needs no more than the assumptions of the modules.  In   *)
(* the second one, names are not prefixes of each other, nobody renames    *)
(* himself, and the users keep to names of their own: who logs in under a  *)
(* name that somebody else has just logged out of takes over the node, and *)
(* with it the flag that says that the other one plays.                    *)
(***************************************************************************)
EXTENDS Processes, MyQQProofs

(* The server knows of every media sender that lives, but may think that   *)
(* one lives that could not attach to its port; and a UDP server that      *)
(* starts meets no receiver.                                               *)
SenderInv ==
  IF Alive THEN /\ heirs # {} => rtsp_server_pid = Pid
                /\ rtsp_server_pid = Pid => heirs # {} \/ "attach" \in Faults
           ELSE rtsp_server_pid = NoPid
BootInv == parent = "booting" => ~ receiver

-----------------------------------------------------------------------------
(* The hypothesis of the second part, and what it says of the messages and *)
(* of the nodes.                                                           *)
NamesOf(fd) == {typed[1] : typed \in Types[fd]}
OwnNames == \A f, g \in Fds : f # g => NamesOf(f) \cap NamesOf(g) = {}

Foreign(fd) ==
  {m \in Request : m.type \in {"REGIST", "LOGIN"} /\ m.name \notin NamesOf(fd)}
OwnNodes(list) ==
  \A i \in DOMAIN list : \/ list[i].socketfd = NoFd
                         \/ list[i].userId \in NamesOf(list[i].socketfd)

(* A player that is counted and whose node is gone: the sender will run    *)
(* until the server ends.                                                  *)
Orphan == Players(userHead) < rtsp_client_num

EnterReq == {m \in Request : m.type \in {"REGIST", "LOGIN"}}
PlayReq == {m \in Request : m.type = "REQ_MEDIA"}
StopReq == {m \in Request : m.type = "STOP_MEDIA"}
Playing == {"MEDIA_PLAYING"}

(* Before the client talks, what is left of an earlier talk comes before   *)
(* the login that will lead to the next one; and when this login was       *)
(* handled, a node that played then is known to be one.                    *)
MenuInv(fd) == at[fd] \in Waiting \cup Asking =>
  /\ NeverAfter(toClient[fd], InReply, Playing)
  /\ NeverAfter(toServer[fd], InReq, PlayReq)
  /\ Has(toClient[fd], InReply) => ~ Has(toServer[fd], PlayReq)
  /\ at[fd] = "reoffer" => /\ ~ Has(toClient[fd], Playing)
                           /\ ~ Has(toServer[fd], PlayReq)
  /\ at[fd] = "reoffer" \/ Has(toClient[fd], InReply) => (Plays(fd) => fd \in left)

(* While it talks, the client that plays or is about to has its node       *)
(* counted, unless a stop crossed the answer or the user is unregistered;  *)
(* and a node that is counted has a client that plays or is about to, or   *)
(* could not fork its receiver, or a stop or the end of the talk is under  *)
(* way.                                                                    *)
Sounds(fd) == player[fd] \/ Has(toClient[fd], Playing)
TalkInv(fd) == at[fd] \in {"talk", "udp"} =>
  /\ NeverAfter(toServer[fd], PlayReq, EnterReq)
  /\ Sounds(fd) => ~ Has(toServer[fd], EnterReq)
  /\ fd \notin crossed =>
       /\ NeverAfter(toServer[fd], PlayReq, StopReq)
       /\ Sounds(fd) => /\ ~ Has(toServer[fd], StopReq)
                        /\ Plays(fd) \/ (Orphan /\ Has(toClient[fd], {"UNREGIST_OK"}))
  /\ Plays(fd) /\ fd \notin left \cup unforked =>
       \/ Sounds(fd)
       \/ Has(toServer[fd], StopReq) \/ Has(toClient[fd], OutReply)

OwnInv ==
  /\ \A fd \in Fds : ~ Has(toServer[fd], Foreign(fd))
  /\ \A fd \in Fds : player[fd] => at[fd] \in Talking
  /\ OwnNodes(userHead)
PlayersInv == Alive => \A fd \in Fds : MenuInv(fd) /\ TalkInv(fd)

-----------------------------------------------------------------------------
(* The server and its clients take their own steps, and nothing happens to *)
(* them when the other processes do.                                       *)
LEMMA ProcessesMove == ProcessesNext => MyQQNext \/ UNCHANGED myqqVars
<1>1. ASSUME NEW fd \in Fds, ByUser(fd) \/ ByServer(fd)
      PROVE  MyQQNext
  BY <1>1 DEF ByUser, ByServer, MyQQNext
<1>2. CASE Processes
  BY <1>2 DEF Processes, UdpStarts, UdpQuits, ReceiverDies, BootAll, StopAll,
              KillLeftovers, MyQQNext
<1> QED BY <1>1, <1>2 DEF ProcessesNext

LEMMA CoreKept ==
  ASSUME CoreInv, [ProcessesNext]_processVars
  PROVE  CoreInv'
<1>1. CASE UNCHANGED myqqVars
  <2>1. ServerInv'
    <3>1. Quiet
      BY <1>1 DEF myqqVars, vars, Quiet
    <3> QED BY <3>1, ServerInvStep DEF CoreInv
  <2> QED BY <1>1, <2>1 DEF myqqVars, vars, clientVars, netVars, CoreInv, MyQQTypeOK,
                            MessagesInv, WellTyped, TriesInv, FreshInv, Alive
<1>2. CASE MyQQNext
  BY <1>2, CoreInvStep
<1> QED BY <1>1, <1>2, ProcessesMove DEF processVars

ProcessesInv == parent \in {"none", "booting", "up"} /\ receiver \in BOOLEAN
                  /\ crossed \subseteq Fds /\ left \subseteq Fds /\ unforked \subseteq Fds
                  /\ BootInv /\ SenderInv

(* The processes that the server knows of, and those that it does not.     *)
LEMMA SenderStep ==
  ASSUME CoreInv, SenderInv, MyQQNext
  PROVE  SenderInv'
<1>1. /\ rtsp_server_pid \in {NoPid, Pid} /\ Pid # NoPid
      /\ conns \in Nat /\ watched \subseteq 1..conns
      /\ rtsp_server_pid' \in {NoPid, Pid}
  <2>1. TypeOK /\ TypeOK'
    BY CoreInvStep DEF CoreInv, ServerInv
  <2> QED BY <2>1 DEF TypeOK, Pid, NoPid
<1>2. ASSUME Quiet, heirs' = heirs
      PROVE  SenderInv'
  BY <1>2 DEF Quiet, mediaVars, SenderInv, Alive
<1>3. ASSUME NEW fd \in Fds, User(fd)
      PROVE  SenderInv'
  <2>1. \E places : Client(fd, places)
    BY <1>3 DEF User, Read, AskRegister, AskLogin, Decide, ReadRegister, ReadLogin,
                ReadTalk, Command, QuitTalk, TalkToOthers, Exit
  <2> QED BY <1>2, <1>3, <2>1, UserQuiet DEF Client
<1>4. ASSUME Carry, Alive, Alive', 1..conns # {} \/ rtsp_server_pid' = rtsp_server_pid
      PROVE  SenderInv'
  BY <1>1, <1>4 DEF Carry, SenderInv
<1>5. ASSUME NEW fd \in Fds, Deliver(fd)
      PROVE  SenderInv'
  <2>1. Receive(fd) /\ Carry
    BY <1>5, FirstLemma, HandleLemma DEF Deliver, CoreInv
  <2>2. Alive /\ Alive' /\ fd \in 1..conns
    BY <1>1, <2>1, ReceiveNet DEF Alive
  <2> QED BY <1>4, <2>1, <2>2
<1>6. CASE FinishHandler
  BY <1>4, <1>6 DEF FinishHandler, FinishChange, mediaVars, Alive
<1>7. CASE Connect
  BY <1>7 DEF Connect, Accept, mediaVars, SenderInv, Alive
<1>8. CASE Boot
  <2>1. MediaCounted /\ ~ Alive /\ heirs' = {}
    BY <1>8 DEF CoreInv, ServerInv, Boot, Start, Alive
  <2>2. rtsp_server_pid' = rtsp_server_pid
    BY <1>8 DEF Boot, Start, mediaVars
  <2>3. rtsp_server_pid = NoPid
    BY <2>1 DEF SenderInv
  <2> QED BY <1>1, <2>1, <2>2, <2>3 DEF SenderInv
<1>9. CASE Stop
  BY <1>9 DEF Stop, AcceptFail, Crash, Gone, SenderInv, Alive
<1>10. CASE SenderFails \/ KillSender
  <2>1. /\ heirs' = {} /\ (Alive' <=> Alive) /\ rtsp_server_pid' = rtsp_server_pid
        /\ Alive => "attach" \in Faults
    BY <1>10, SenderGoneLemma DEF mediaVars, SenderFails, KillSender
  <2> QED BY <2>1 DEF SenderInv
<1> QED BY <1>3, <1>5, <1>6, <1>7, <1>8, <1>9, <1>10 DEF MyQQNext

LEMMA ProcessesStep ==
  ASSUME CoreInv, ProcessesInv, [ProcessesNext]_processVars
  PROVE  ProcessesInv'
<1> USE DEF ProcessesInv, BootInv
<1>1. SenderInv'
  <2>1. CASE MyQQNext
    BY <2>1, SenderStep
  <2>2. CASE UNCHANGED myqqVars
    BY <2>2 DEF myqqVars, vars, mediaVars, clientVars, SenderInv, Alive
  <2> QED BY <2>1, <2>2, ProcessesMove DEF processVars
<1>2. ASSUME UNCHANGED udpVars, crossed' \subseteq Fds, left' \subseteq Fds,
             unforked' \subseteq Fds
      PROVE  ProcessesInv'
  BY <1>1, <1>2 DEF udpVars
<1>3. CASE UNCHANGED processVars
  BY <1>2, <1>3 DEF processVars, auxVars
<1>4. ASSUME NEW fd \in Fds, ByUser(fd) \/ ByServer(fd)
      PROVE  ProcessesInv'
  BY <1>2, <1>4 DEF ByUser, ByServer
<1>5. CASE Processes
  <2>1. CASE UdpStarts \/ UdpQuits \/ ReceiverDies \/ StopAll \/ KillLeftovers
    <3>1. UNCHANGED auxVars
      BY <2>1 DEF UdpStarts, UdpQuits, ReceiverDies, StopAll, KillLeftovers
    <3> DEFINE Goal == receiver' \in BOOLEAN /\ parent' \in {"none", "booting", "up"}
                         /\ (parent' = "booting" => ~ receiver')
    <3>2. ASSUME UdpStarts PROVE Goal
      BY <3>2 DEF UdpStarts
    <3>3. ASSUME UdpQuits PROVE Goal
      <4>1. parent' = "none" /\ (receiver' = FALSE \/ receiver' = receiver)
        BY <3>3 DEF UdpQuits, QuitRace
      <4> QED BY <4>1
    <3>4. ASSUME ReceiverDies PROVE Goal
      BY <3>4 DEF ReceiverDies
    <3>5. ASSUME StopAll PROVE Goal
      <4>0. UNCHANGED udpVars => parent' = parent /\ receiver' = receiver
        BY DEF udpVars
      <4>1. \/ parent' = "none" /\ receiver' = receiver
            \/ parent' = parent /\ receiver' = receiver
            \/ parent' = "none" /\ receiver' = FALSE
        BY <3>5, <4>0, Zenon DEF StopAll
      <4>2. receiver' \in BOOLEAN
        BY <4>1
      <4>3. parent' \in {"none", "booting", "up"}
        BY <4>1
      <4>4. parent' = "booting" => ~ receiver'
        <5>1. "none" # "booting"
          OBVIOUS
        <5> QED BY <4>1, <5>1, Zenon
      <4> QED BY <4>2, <4>3, <4>4
    <3>6. ASSUME KillLeftovers PROVE Goal
      BY <3>6 DEF KillLeftovers
    <3>7. Goal
      BY <2>1, <3>2, <3>3, <3>4, <3>5, <3>6
    <3> QED BY <1>1, <3>1, <3>7 DEF auxVars
  <2>2. CASE BootAll
    BY <1>1, <2>2 DEF BootAll, ListenFree
  <2>3. CASE UNCHANGED <<udpVars, auxVars>>
    BY <1>2, <2>3 DEF auxVars
  <2> QED BY <1>5, <2>1, <2>2, <2>3 DEF Processes
<1> QED BY <1>3, <1>4, <1>5 DEF ProcessesNext

LEMMA ProcessesInvariant == ProcessesSpec => [](CoreInv /\ ProcessesInv)
<1>1. ProcessesInit => CoreInv /\ ProcessesInv
  <2> SUFFICES ASSUME ProcessesInit PROVE CoreInv /\ ProcessesInv
    OBVIOUS
  <2>1. CoreInv
    BY CoreInvInit DEF ProcessesInit
  <2>2. ProcessesInv
    BY DEF ProcessesInit, MyQQInit, Init, ProcessesInv, BootInv, SenderInv, Alive
  <2> QED BY <2>1, <2>2
<1>2. CoreInv /\ ProcessesInv /\ [ProcessesNext]_processVars => (CoreInv /\ ProcessesInv)'
  BY CoreKept, ProcessesStep
<1> QED BY <1>1, <1>2, PTL DEF ProcessesSpec

(* The processes around MyQQ keep its types and their own.                 *)
THEOREM ProcessesTypeCorrect == ProcessesSpec => []ProcessesTypeOK
<1>1. CoreInv /\ ProcessesInv => ProcessesTypeOK
  BY DEF CoreInv, ProcessesInv, ProcessesTypeOK
<1> QED BY <1>1, ProcessesInvariant, PTL

(* The processes around MyQQ leave it what it is: every theorem about it   *)
(* holds among them.                                                       *)
THEOREM ProcessesImplementMyQQ == ProcessesSpec => MyQQSpec
<1>1. ProcessesInit => MyQQInit
  BY DEF ProcessesInit
<1>2. [ProcessesNext]_processVars => [MyQQNext]_myqqVars
  BY ProcessesMove DEF processVars
<1> QED BY <1>1, <1>2, PTL DEF ProcessesSpec, MyQQSpec

(* However often the processes are started, stopped, killed or die: a UDP  *)
(* server is not started while the receiver of another one lives, nor a    *)
(* media sender while another one does.                                    *)
THEOREM PortsStayFree == ProcessesSpec => PortsAreFree
<1> DEFINE Free == /\ parent' = "booting" => ~ receiver'
                   /\ rtsp_server_pid = NoPid /\ rtsp_server_pid' = Pid => heirs = {}
<1>1. ASSUME CoreInv, ProcessesInv, ProcessesInv', [ProcessesNext]_processVars
      PROVE  Free
  <2>1. parent' = "booting" => ~ receiver'
    BY <1>1 DEF ProcessesInv, BootInv
  <2>2. ASSUME rtsp_server_pid = NoPid, rtsp_server_pid' = Pid, ~ Alive
        PROVE  FALSE
    <3>1. CASE MyQQNext
      <4>1. Next \/ Quiet
        BY <1>1, <3>1, ServerMoves DEF CoreInv
      <4>2. CASE Quiet
        BY <2>2, <4>2 DEF Quiet, mediaVars, Pid, NoPid
      <4>3. ASSUME NEW fd \in Fds, Receive(fd)
            PROVE  FALSE
        BY <2>2, <4>3, ReceiveNet DEF Alive
      <4>4. CASE FinishChange \/ Accept \/ AcceptFail \/ Crash \/ Start
        BY <2>2, <4>4 DEF FinishChange, Accept, AcceptFail, Crash, Start, Gone,
                          mediaVars, Alive, Pid, NoPid
      <4> QED BY <4>1, <4>2, <4>3, <4>4 DEF Next, Step
    <3>2. CASE UNCHANGED myqqVars
      BY <2>2, <3>2 DEF myqqVars, vars, mediaVars, Pid, NoPid
    <3> QED BY <1>1, <3>1, <3>2, ProcessesMove DEF processVars
  <2>3. rtsp_server_pid = NoPid /\ Alive => heirs = {}
    BY <1>1 DEF ProcessesInv, SenderInv, Pid, NoPid
  <2> QED BY <2>1, <2>2, <2>3
<1>2. CoreInv /\ ProcessesInv /\ ProcessesInv' /\ [ProcessesNext]_processVars
      => [Free]_processVars
  BY <1>1
<1> QED BY <1>2, ProcessesInvariant, PTL DEF ProcessesSpec, PortsAreFree

-----------------------------------------------------------------------------
(* Whether the first node of a descriptor plays, after each of the         *)
(* operations on the list.                                                 *)
PlaysIn(list, g) ==
  \E i \in DOMAIN list : findNodeBySocketID(list, g, i) /\ list[i].rtspPlayFlag = YES

LEMMA PlaysSame ==
  ASSUME NEW list \in Seq(Node), NEW after, NEW g, DOMAIN after = DOMAIN list,
         \A i \in DOMAIN list :
            /\ after[i].socketfd = g <=> list[i].socketfd = g
            /\ list[i].socketfd = g => after[i].rtspPlayFlag = list[i].rtspPlayFlag
  PROVE  PlaysIn(after, g) <=> PlaysIn(list, g)
<1>1. Len(list) \in Nat /\ DOMAIN list = 1..Len(list)
  BY ListLemma
<1>2. ASSUME NEW i \in DOMAIN list
      PROVE  findNodeBySocketID(after, g, i) <=> findNodeBySocketID(list, g, i)
  <2>1. \A j \in 1..(i - 1) : j \in DOMAIN list
    BY <1>1
  <2> QED BY <2>1 DEF findNodeBySocketID
<1> QED BY <1>2 DEF PlaysIn, findNodeBySocketID

LEMMA PlaysAdd ==
  ASSUME NEW list \in Seq(Node), NEW node \in Node, NEW g
  PROVE  /\ node.socketfd # g =>
              (PlaysIn(addUserToList(list, node), g) <=> PlaysIn(list, g))
         /\ node.socketfd = g /\ node.rtspPlayFlag = NO =>
              ~ PlaysIn(addUserToList(list, node), g)
<1> DEFINE after == addUserToList(list, node)
           n == Len(list)
<1>1. n \in Nat /\ DOMAIN list = 1..n
  BY ListLemma
<1>2. list \in Seq(Node) /\ node \in Node
  OBVIOUS
<1>3. /\ DOMAIN after = 1..(n + 1)
      /\ after[1] = node
      /\ \A j \in 2..(n + 1) : after[j] = list[j - 1]
  BY <1>2, AddLemma
<1> HIDE DEF after, n
<1>4. CASE node.socketfd = g
  <2>1. \A i \in DOMAIN after : findNodeBySocketID(after, g, i) => i = 1
    BY <1>1, <1>3, <1>4 DEF findNodeBySocketID
  <2>2. node.rtspPlayFlag = NO => ~ PlaysIn(after, g)
    BY <1>3, <2>1 DEF PlaysIn, NO, YES
  <2> QED BY <1>4, <2>2 DEF after
<1>5. CASE node.socketfd # g
  <2>1. ASSUME NEW i \in DOMAIN list
        PROVE  /\ i + 1 \in DOMAIN after /\ after[i + 1] = list[i]
               /\ findNodeBySocketID(after, g, i + 1) <=> findNodeBySocketID(list, g, i)
    <3>1. i + 1 \in DOMAIN after /\ after[i + 1] = list[i]
      BY <1>1, <1>3
    <3>2. ASSUME findNodeBySocketID(after, g, i + 1)
          PROVE  findNodeBySocketID(list, g, i)
      <4>1. \A j \in 1..(i - 1) : j + 1 \in 1..((i + 1) - 1) /\ after[j + 1] = list[j]
        BY <1>1, <1>3
      <4> QED BY <3>1, <3>2, <4>1 DEF findNodeBySocketID
    <3>3. ASSUME findNodeBySocketID(list, g, i)
          PROVE  findNodeBySocketID(after, g, i + 1)
      <4>1. \A j \in 1..((i + 1) - 1) : j = 1 \/ (j - 1 \in 1..(i - 1) /\ after[j] = list[j - 1])
        BY <1>1, <1>3
      <4> QED BY <1>3, <1>5, <3>1, <3>3, <4>1 DEF findNodeBySocketID
    <3> QED BY <3>1, <3>2, <3>3
  <2>2. \A i \in DOMAIN after : i = 1 \/ (i - 1 \in DOMAIN list /\ (i - 1) + 1 = i)
    BY <1>1, <1>3
  <2>3. ~ findNodeBySocketID(after, g, 1)
    BY <1>3, <1>5 DEF findNodeBySocketID
  <2>4. PlaysIn(list, g) => PlaysIn(after, g)
    BY <2>1 DEF PlaysIn
  <2>5. ASSUME PlaysIn(after, g)
        PROVE  PlaysIn(list, g)
    <3>1. PICK i \in DOMAIN after :
            findNodeBySocketID(after, g, i) /\ after[i].rtspPlayFlag = YES
      BY <2>5 DEF PlaysIn
    <3>2. i # 1
      BY <2>3, <3>1
    <3>3. i - 1 \in DOMAIN list /\ (i - 1) + 1 = i
      BY <2>2, <3>2
    <3>4. findNodeBySocketID(list, g, i - 1) /\ list[i - 1].rtspPlayFlag = YES
      BY <2>1, <3>1, <3>3
    <3> QED BY <3>3, <3>4 DEF PlaysIn
  <2> QED BY <1>5, <2>4, <2>5 DEF after
<1> QED BY <1>4, <1>5

(* A node that is not the first one of the descriptor is removed.          *)
LEMMA PlaysRemove ==
  ASSUME NEW list \in Seq(Node), NEW k \in DOMAIN list, NEW g,
         list[k].socketfd # g
  PROVE  PlaysIn(RemoveAt(list, k), g) <=> PlaysIn(list, g)
<1> DEFINE after == RemoveAt(list, k)
           n == Len(list)
<1>1. n \in Nat /\ DOMAIN list = 1..n
  BY ListLemma
<1>2. /\ DOMAIN after = 1..(n - 1)
      /\ \A j \in 1..(n - 1) : after[j] = IF j < k THEN list[j] ELSE list[j + 1]
  BY <1>1, RemoveLemma
<1> HIDE DEF after, n
<1>3. ASSUME PlaysIn(list, g)
      PROVE  PlaysIn(after, g)
  <2>1. PICK i \in DOMAIN list :
          findNodeBySocketID(list, g, i) /\ list[i].rtspPlayFlag = YES
    BY <1>3 DEF PlaysIn
  <2>2. i # k
    BY <2>1 DEF findNodeBySocketID
  <2>3. CASE i < k
    <3>1. i \in DOMAIN after /\ after[i] = list[i]
          /\ \A j \in 1..(i - 1) : after[j] = list[j]
      BY <1>1, <1>2, <2>3
    <3> QED BY <2>1, <3>1 DEF PlaysIn, findNodeBySocketID
  <2>4. CASE i > k
    <3>1. i - 1 \in DOMAIN after /\ after[i - 1] = list[i]
      BY <1>1, <1>2, <2>4
    <3>2. \A j \in 1..((i - 1) - 1) : \E l \in 1..(i - 1) : after[j] = list[l]
      <4> SUFFICES ASSUME NEW j \in 1..((i - 1) - 1)
                   PROVE  \E l \in 1..(i - 1) : after[j] = list[l]
        OBVIOUS
      <4>1. j \in 1..(i - 1) /\ j + 1 \in 1..(i - 1)
            /\ (after[j] = list[j] \/ after[j] = list[j + 1])
        BY <1>1, <1>2, <2>4
      <4> QED BY <4>1
    <3>3. findNodeBySocketID(after, g, i - 1)
      BY <2>1, <3>1, <3>2 DEF findNodeBySocketID
    <3> QED BY <2>1, <3>1, <3>3 DEF PlaysIn
  <2> QED BY <1>1, <2>2, <2>3, <2>4
<1>4. ASSUME PlaysIn(after, g)
      PROVE  PlaysIn(list, g)
  <2>1. PICK i \in DOMAIN after :
          findNodeBySocketID(after, g, i) /\ after[i].rtspPlayFlag = YES
    BY <1>4 DEF PlaysIn
  <2>2. CASE i < k
    <3>1. i \in DOMAIN list /\ after[i] = list[i]
          /\ \A j \in 1..(i - 1) : after[j] = list[j]
      BY <1>1, <1>2, <2>2
    <3> QED BY <2>1, <3>1 DEF PlaysIn, findNodeBySocketID
  <2>3. CASE i >= k
    <3>1. i + 1 \in DOMAIN list /\ after[i] = list[i + 1]
      BY <1>1, <1>2, <2>3
    <3>2. ASSUME NEW j \in 1..((i + 1) - 1)
          PROVE  list[j].socketfd # g
      <4>1. CASE j < k
        <5>1. j \in 1..(i - 1) /\ after[j] = list[j]
          BY <1>1, <1>2, <2>3, <4>1
        <5> QED BY <2>1, <5>1 DEF findNodeBySocketID
      <4>2. CASE j > k
        <5>1. j - 1 \in 1..(i - 1) /\ after[j - 1] = list[j]
          BY <1>1, <1>2, <2>3, <4>2
        <5> QED BY <2>1, <5>1 DEF findNodeBySocketID
      <4> QED BY <1>1, <4>1, <4>2
    <3>3. findNodeBySocketID(list, g, i + 1)
      BY <2>1, <3>1, <3>2 DEF findNodeBySocketID
    <3> QED BY <2>1, <3>1, <3>3 DEF PlaysIn
  <2> QED BY <1>1, <1>2, <2>2, <2>3
<1> QED BY <1>3, <1>4 DEF after

(* The flag of the first node is written.                                  *)
LEMMA PlaysSet ==
  ASSUME NEW list \in Seq(Node), NEW after, NEW i, NEW g,
         findNodeBySocketID(list, g, i), DOMAIN after = DOMAIN list,
         \A j \in DOMAIN list : after[j].socketfd = list[j].socketfd
  PROVE  PlaysIn(after, g) <=> after[i].rtspPlayFlag = YES
<1>1. Len(list) \in Nat /\ DOMAIN list = 1..Len(list)
  BY ListLemma
<1>2. ASSUME NEW j \in DOMAIN list
      PROVE  findNodeBySocketID(after, g, j) <=> findNodeBySocketID(list, g, j)
  <2>1. \A l \in 1..(j - 1) : l \in DOMAIN list
    BY <1>1
  <2> QED BY <2>1 DEF findNodeBySocketID
<1>3. ASSUME NEW j \in DOMAIN list, findNodeBySocketID(list, g, j)
      PROVE  j = i
  <2>1. ~ (j < i) /\ ~ (i < j)
    BY <1>1, <1>3 DEF findNodeBySocketID
  <2> QED BY <1>1, <1>3, <2>1 DEF findNodeBySocketID
<1>4. i \in DOMAIN list
  BY DEF findNodeBySocketID
<1> QED BY <1>2, <1>3, <1>4 DEF PlaysIn

(* A node that plays is removed: the counter is not told.                  *)
LEMMA PlayersLost ==
  ASSUME NEW list \in Seq(Node), NEW k \in DOMAIN list,
         list[k].rtspPlayFlag = YES
  PROVE  Players(RemoveAt(list, k)) < Players(list)
<1> DEFINE after == RemoveAt(list, k)
           n == Len(list)
           P == PlayingAt(list) \ {k}
           f == [j \in PlayingAt(after) |-> IF j < k THEN j ELSE j + 1]
<1>1. n \in Nat /\ DOMAIN list = 1..n
  BY ListLemma
<1>2. /\ DOMAIN after = 1..(n - 1)
      /\ \A j \in 1..(n - 1) : after[j] = IF j < k THEN list[j] ELSE list[j + 1]
  BY <1>1, RemoveLemma
<1>3. IsFiniteSet(PlayingAt(list)) /\ Cardinality(PlayingAt(list)) \in Nat
  BY PlayersType DEF Players
<1>4. k \in PlayingAt(list)
  BY DEF PlayingAt
<1>5. IsFiniteSet(P) /\ Cardinality(P) = Cardinality(PlayingAt(list)) - 1
  BY <1>3, <1>4, FS_RemoveElement
<1> HIDE DEF after, n
<1>6. \A j \in PlayingAt(after) :
        /\ j \in Int
        /\ (IF j < k THEN j ELSE j + 1) \in P
  BY <1>1, <1>2 DEF PlayingAt
<1>7. f \in Injection(PlayingAt(after), P)
  BY <1>1, <1>6 DEF Injection, IsInjective
<1> HIDE DEF P, f
<1>8. IsFiniteSet(PlayingAt(after)) /\ Cardinality(PlayingAt(after)) <= Cardinality(P)
  BY <1>5, <1>7, FS_Injection
<1>9. Cardinality(PlayingAt(after)) \in Nat
  BY <1>8, FS_CardinalityType
<1> QED BY <1>3, <1>5, <1>8, <1>9 DEF Players, after

-----------------------------------------------------------------------------
(* A player whose node is gone stays counted, whatever the handlers do.    *)
LEMMA OrphanStep ==
  ASSUME TypeOK, TypeOK', Orphan, NEW fd \in Fds, NEW m, WellTyped(m), Handle(fd, m)
  PROVE  Orphan'
<1>1. /\ Players(userHead) \in Nat /\ Players(userHead') \in Nat
      /\ rtsp_client_num \in Int /\ rtsp_client_num' \in Int
  BY PlayersType DEF TypeOK
<1>2. rtsp_client_num' - Players(userHead') >= rtsp_client_num - Players(userHead)
  BY SurplusStep DEF Surplus
<1> QED BY <1>1, <1>2 DEF Orphan

-----------------------------------------------------------------------------
(* What the handler of the message m from fd does to who plays.            *)
MediaEffects(fd, m) ==
  /\ \A g \in Fds \ {fd} : Plays(g)' <=> Plays(g)
  /\ m.type = "STOP_MEDIA" => ~ Plays(fd)'
  /\ Plays(fd) /\ m.type \notin {"REGIST", "LOGIN", "STOP_MEDIA", "QUIT", "EOF"}
       => Plays(fd)' \/ (Orphan' /\ Wrote(fd, {"UNREGIST_OK"}))
  /\ ~ Plays(fd) /\ Plays(fd)'
       => m.type = "LOGIN" \/ Wrote(fd, Playing) \/ Wrote(fd, OutReply)
  /\ Wrote(fd, Playing) => Plays(fd)'
  /\ OwnNodes(userHead')

(* Only a request to play is answered by "playing".                        *)
LEMMA PlayingLemma ==
  ASSUME NEW fd \in Fds, NEW m, Handle(fd, m), NEW g \in Fds, Wrote(g, Playing)
  PROVE  g = fd /\ m.type = "REQ_MEDIA" /\ ReqMedia(fd)
<1>1. Playing \cap Chatter = {} /\ \A t : Msg(t).type = t
  BY DEF Playing, Chatter, Msg
<1>2. ASSUME NEW message, sent' = Write(fd, message), message.type \notin Playing
      PROVE  FALSE
  BY <1>2, AnsweredLemma
<1>3. CASE sent' = Silence
  BY <1>3, SilentLemma
<1>4. ASSUME NEW message, NEW c, message.type \notin Playing,
             sent' = WriteAndBrocast(fd, message, userHead', c)
      PROVE  FALSE
  BY <1>1, <1>4, ToldLemma
<1>5. CASE m.type = "REGIST" /\ Register(fd, m.name, m.pw)
  <2>1. \/ \E t \in {"EXIST", "REGIST_OK", "FAIL"} : sent' = Write(fd, Msg(t))
        \/ sent' = Silence
    BY <1>5 DEF Register, LockForever
  <2>2. \A t \in {"EXIST", "REGIST_OK", "FAIL"} : Msg(t).type \notin Playing
    BY <1>1 DEF Playing
  <2> QED BY <1>2, <1>3, <2>1, <2>2
<1>6. CASE m.type = "LOGIN" /\ Login(fd, m.name, m.pw)
  <2>1. \/ \E t \in {"UN_EXIST", "HAS_ONLINE", "LOGIN_FAIL", "LOGIN_OK"} :
             sent' = Write(fd, Msg(t))
        \/ sent' = WriteAndBrocast(fd, Msg("LOGIN_OK"), userHead', fd)
    BY <1>6 DEF Login, CheckPassward
  <2>2. \A t \in {"UN_EXIST", "HAS_ONLINE", "LOGIN_FAIL", "LOGIN_OK"} :
           Msg(t).type \notin Playing
    BY <1>1 DEF Playing
  <2> QED BY <1>2, <1>4, <2>1, <2>2
<1>7. CASE Quit(fd)
  <2>1. sent' = Silence \/ sent' = Brocast(userHead', fd)
    BY <1>7 DEF Quit, QuitOnline
  <2> QED BY <1>1, <1>3, <2>1, CastLemma
<1>8. CASE Discard(fd) \/ StopMedia(fd)
  BY <1>3, <1>8 DEF Discard, StopMedia
<1>9. CASE ReqUsers(fd)
  <2>1. /\ FlashOnline(userHead).type \in Chatter /\ FlashAll(userHead).type \in Chatter
        /\ Msg("BROCAST").type \in Chatter
    BY DEF FlashOnline, FlashAll, Msg, Chatter
  <2>2. \/ sent' = Silence \/ sent' = Write(fd, FlashOnline(userHead))
        \/ sent' = Write(fd, FlashAll(userHead)) \/ sent' = Write(fd, Msg("BROCAST"))
    BY <1>9 DEF ReqUsers, WriteOnline
  <2> QED BY <1>1, <1>2, <1>3, <2>1, <2>2
<1>10. CASE m.type = "RENAME" /\ Rename(fd, m.name)
  <2> DEFINE ok == [Msg("RENAME_OK") EXCEPT !.name = m.name]
  <2>1. ok.type \notin Playing /\ Msg("BROCAST").type \notin Playing
    BY DEF Msg, Playing
  <2> HIDE DEF ok
  <2>2. sent' = Silence \/ sent' = Write(fd, ok) \/ sent' = Write(fd, Msg("BROCAST"))
    BY <1>10 DEF Rename, LockForever, ok
  <2> QED BY <1>2, <1>3, <2>1, <2>2
<1>11. CASE m.type = "CHG_PW" /\ ChangePassward(fd, m.pw)
  <2>1. sent' = Silence \/ sent' = Write(fd, Msg("BROCAST"))
    BY <1>11 DEF ChangePassward, LockForever
  <2>2. Msg("BROCAST").type \notin Playing
    BY <1>1 DEF Playing
  <2> QED BY <1>2, <1>3, <2>1, <2>2
<1>12. CASE m.type = "UNREGIST" /\ Unregister(fd)
  <2>1. \/ sent' = Silence \/ sent' = Write(fd, Msg("BROCAST"))
        \/ \E c : sent' = WriteAndBrocast(fd, Msg("UNREGIST_OK"), userHead', c)
    BY <1>12 DEF Unregister, LockForever
  <2>2. Msg("BROCAST").type \notin Playing /\ Msg("UNREGIST_OK").type \notin Playing
    BY <1>1 DEF Playing
  <2> QED BY <1>2, <1>3, <1>4, <2>1, <2>2
<1>13. CASE m.type = "LOGOUT" /\ Logout(fd)
  <2>1. sent' = WriteAndBrocast(fd, Msg("LOGOUT_OK"), userHead', fd)
    BY <1>13 DEF Logout
  <2>2. Msg("LOGOUT_OK").type \notin Playing
    BY <1>1 DEF Playing
  <2> QED BY <1>4, <2>1, <2>2
<1>14. CASE m.type = "REQ_MEDIA" /\ ReqMedia(fd)
  <2>1. sent' = Silence \/ sent' = Write(fd, Msg("MEDIA_PLAYING"))
    BY <1>14 DEF ReqMedia, AddPlayer
  <2>2. sent' = Write(fd, Msg("MEDIA_PLAYING")) => g = fd
    BY AnsweredLemma
  <2> QED BY <1>3, <1>14, <2>1, <2>2
<1> QED BY <1>5, <1>6, <1>7, <1>8, <1>9, <1>10, <1>11, <1>12, <1>13, <1>14 DEF Handle

LEMMA MediaEffectsLemma ==
  ASSUME PrefixesAreNames, NobodyRenames, OwnNames, TypeOK, TypeOK', MediaCounted,
         OwnNodes(userHead), NEW fd \in Fds, NEW m \in Request, WellTyped(m),
         m \notin Foreign(fd), Handle(fd, m)
  PROVE  MediaEffects(fd, m)
<1>1. /\ userHead \in Seq(Node) /\ \A i \in DOMAIN userHead : userHead[i] \in Node
      /\ userHead' \in Seq(Node)
  BY ListLemma DEF TypeOK
<1>2. /\ \A g : Plays(g) <=> PlaysIn(userHead, g)
      /\ \A g : Plays(g)' <=> PlaysIn(userHead', g)
  BY DEF Plays, PlaysIn
<1>3. Wrote(fd, Playing) => m.type = "REQ_MEDIA" /\ ReqMedia(fd)
  BY PlayingLemma
<1>4. ASSUME userHead' = userHead, ~ Wrote(fd, Playing),
             m.type = "STOP_MEDIA" => ~ Plays(fd)
      PROVE  MediaEffects(fd, m)
  BY <1>2, <1>4 DEF MediaEffects
<1>5. ASSUME NEW after, DOMAIN after = DOMAIN userHead,
             \A i \in DOMAIN userHead : /\ after[i].socketfd = userHead[i].socketfd
                                        /\ after[i].userId = userHead[i].userId
      PROVE  OwnNodes(after)
  BY <1>5 DEF OwnNodes
<1>6. CASE m.type = "REGIST" /\ Register(fd, m.name, m.pw)
  <2>1. m.name \in Names /\ m.name \in NamesOf(fd)
    BY <1>6 DEF WellTyped, Foreign
  <2> DEFINE node == NewNode(m.name, fd)
  <2>2. /\ node \in Node /\ node.socketfd = fd /\ node.rtspPlayFlag = NO
        /\ node.userId = m.name
    BY <2>1 DEF NewNode, Node
  <2>3. userHead' = userHead \/ userHead' = addUserToList(userHead, node)
    BY <1>6 DEF Register, LockForever
  <2> HIDE DEF node
  <2>4. CASE userHead' = addUserToList(userHead, node)
    <3>1. \A g \in Fds \ {fd} : PlaysIn(userHead', g) <=> PlaysIn(userHead, g)
      BY <1>1, <2>2, <2>4, PlaysAdd
    <3>2. ~ PlaysIn(userHead', fd)
      BY <1>1, <2>2, <2>4, PlaysAdd
    <3>3. OwnNodes(userHead')
      <4>1. Len(userHead) \in Nat /\ DOMAIN userHead = 1..Len(userHead)
        BY <1>1, ListLemma
      <4>2. /\ DOMAIN userHead' = 1..(Len(userHead) + 1)
            /\ userHead'[1] = node
            /\ \A j \in 2..(Len(userHead) + 1) : userHead'[j] = userHead[j - 1]
        <5> DEFINE after == addUserToList(userHead, node)
        <5>1. userHead \in Seq(Node) /\ node \in Node
          BY <1>1, <2>2
        <5>2. /\ DOMAIN after = 1..(Len(userHead) + 1)
              /\ after[1] = node
              /\ \A j \in 2..(Len(userHead) + 1) : after[j] = userHead[j - 1]
          BY <5>1, AddLemma
        <5> QED BY <2>4, <5>2, Zenon
      <4>3. \A j \in DOMAIN userHead' :
              userHead'[j] = node \/ \E i \in DOMAIN userHead : userHead'[j] = userHead[i]
        <5>1. \A j \in DOMAIN userHead' :
                j = 1 \/ (j \in 2..(Len(userHead) + 1) /\ j - 1 \in DOMAIN userHead)
          BY <4>1, <4>2
        <5> QED BY <4>2, <5>1
      <4> QED BY <2>1, <2>2, <4>3 DEF OwnNodes
    <3> QED BY <1>2, <1>3, <1>6, <3>1, <3>2, <3>3 DEF MediaEffects
  <2> QED BY <1>3, <1>4, <1>6, <2>3, <2>4
<1>7. CASE m.type = "LOGIN" /\ Login(fd, m.name, m.pw)
  <2>1. m.name \in Names /\ m.name \in NamesOf(fd)
    BY <1>7 DEF WellTyped, Foreign
  <2>2. \/ userHead' = userHead
        \/ \E i \in DOMAIN userHead : /\ findNodeByName(userHead, m.name, i)
                                      /\ userHead' = SetOnline(userHead, i, fd)
    BY <1>7 DEF Login
  <2>3. CASE \E i \in DOMAIN userHead : /\ findNodeByName(userHead, m.name, i)
                                        /\ userHead' = SetOnline(userHead, i, fd)
    <3>1. PICK i \in DOMAIN userHead : /\ findNodeByName(userHead, m.name, i)
                                       /\ userHead' = SetOnline(userHead, i, fd)
      BY <2>3
    <3>2. userHead[i].userId = m.name
      <4>1. userHead[i].userId \in Names
        BY <1>1 DEF Node
      <4>2. <<m.name, userHead[i].userId>> \in PrefixOf
        BY <3>1 DEF findNodeByName, Matches
      <4> QED BY <2>1, <4>1, <4>2, Zenon DEF PrefixesAreNames
    <3>3. \A g \in Fds : userHead[i].socketfd = g => g = fd
      BY <2>1, <3>2, ClientAssumption DEF OwnNodes, OwnNames, Fds, NoFd
    <3>4. /\ DOMAIN userHead' = DOMAIN userHead
          /\ userHead'[i].socketfd = fd
          /\ \A j \in DOMAIN userHead :
               /\ userHead'[j].userId = userHead[j].userId
               /\ userHead'[j].rtspPlayFlag = userHead[j].rtspPlayFlag
               /\ j # i => userHead'[j].socketfd = userHead[j].socketfd
      BY <1>1, <3>1 DEF SetOnline, Node
    <3>5. \A g \in Fds \ {fd} : PlaysIn(userHead', g) <=> PlaysIn(userHead, g)
      <4> SUFFICES ASSUME NEW g \in Fds \ {fd}
                   PROVE  PlaysIn(userHead', g) <=> PlaysIn(userHead, g)
        OBVIOUS
      <4>1. \A j \in DOMAIN userHead :
              /\ userHead'[j].socketfd = g <=> userHead[j].socketfd = g
              /\ userHead[j].socketfd = g =>
                   userHead'[j].rtspPlayFlag = userHead[j].rtspPlayFlag
        BY <3>3, <3>4
      <4> QED BY <1>1, <3>4, <4>1, PlaysSame
    <3>6. OwnNodes(userHead')
      BY <2>1, <3>2, <3>4 DEF OwnNodes
    <3>7. ~ Wrote(fd, Playing)
      BY <1>3, <1>7
    <3> QED BY <1>2, <1>7, <3>5, <3>6, <3>7 DEF MediaEffects
  <2> QED BY <1>3, <1>4, <1>7, <2>2, <2>3
<1>8. CASE m.type \in {"QUIT", "EOF"} /\ Quit(fd)
  <2>1. \/ userHead' = userHead
        \/ \E i \in DOMAIN userHead : /\ findNodeBySocketID(userHead, fd, i)
                                      /\ userHead' = AfterQuit(userHead, i, fd)
    BY <1>8 DEF Quit, QuitOnline, AfterQuit
  <2>2. CASE \E i \in DOMAIN userHead : /\ findNodeBySocketID(userHead, fd, i)
                                        /\ userHead' = AfterQuit(userHead, i, fd)
    <3>1. PICK i \in DOMAIN userHead : /\ findNodeBySocketID(userHead, fd, i)
                                       /\ userHead' = AfterQuit(userHead, i, fd)
      BY <2>2
    <3>2. /\ DOMAIN userHead' = DOMAIN userHead
          /\ userHead'[i].rtspPlayFlag = NO
          /\ userHead[i].socketfd = fd
          /\ \A j \in DOMAIN userHead :
               /\ userHead'[j].socketfd = userHead[j].socketfd
               /\ userHead'[j].userId = userHead[j].userId
               /\ j # i => userHead'[j].rtspPlayFlag = userHead[j].rtspPlayFlag
      BY <1>1, <3>1, QuitFlags DEF findNodeBySocketID
    <3>3. \A g \in Fds \ {fd} : PlaysIn(userHead', g) <=> PlaysIn(userHead, g)
      <4> SUFFICES ASSUME NEW g \in Fds \ {fd}
                   PROVE  PlaysIn(userHead', g) <=> PlaysIn(userHead, g)
        OBVIOUS
      <4> QED BY <1>1, <3>2, PlaysSame
    <3>4. ~ PlaysIn(userHead', fd)
      BY <1>1, <3>1, <3>2, PlaysSet DEF NO, YES
    <3> QED BY <1>2, <1>3, <1>5, <1>8, <3>2, <3>3, <3>4 DEF MediaEffects
  <2> QED BY <1>3, <1>4, <1>8, <2>1, <2>2
<1>9. CASE NeedsNode(m.type) /\ (NoNodeBySocketID(userHead, fd) \/ m.type = "CHAT")
             /\ Discard(fd)
  <2>1. NoNodeBySocketID(userHead, fd) => ~ Plays(fd)
    BY DEF NoNodeBySocketID, Plays, findNodeBySocketID
  <2>2. userHead' = userHead /\ ~ Wrote(fd, Playing)
    BY <1>9, SilentLemma DEF Discard
  <2> QED BY <1>4, <1>9, <2>1, <2>2
<1>10. CASE m.type \in {"REQ_OL", "SEARCH"} /\ ReqUsers(fd)
  BY <1>3, <1>4, <1>10 DEF ReqUsers
<1>11. CASE m.type = "RENAME" /\ Rename(fd, m.name)
  BY <1>11 DEF WellTyped, NobodyRenames
<1>12. CASE m.type = "CHG_PW" /\ ChangePassward(fd, m.pw)
  BY <1>3, <1>4, <1>12 DEF ChangePassward
<1>13. CASE m.type = "UNREGIST" /\ Unregister(fd)
  <2>1. PICK i \in DOMAIN userHead :
          /\ findNodeBySocketID(userHead, fd, i)
          /\ \/ userHead' = userHead
             \/ /\ deleteNodeByName(userHead, userHead[i].userId, userHead')
                /\ \E c : sent' = WriteAndBrocast(fd, Msg("UNREGIST_OK"), userHead', c)
                /\ UNCHANGED mediaVars
    BY <1>13 DEF Unregister, LockForever
  <2>2. CASE /\ deleteNodeByName(userHead, userHead[i].userId, userHead')
             /\ \E c : sent' = WriteAndBrocast(fd, Msg("UNREGIST_OK"), userHead', c)
             /\ UNCHANGED mediaVars
    <3>1. userHead[i].userId \in Names /\ userHead[i].socketfd = fd
      BY <1>1, <2>1 DEF Node, findNodeBySocketID
    <3>2. ~ NoNodeByName(userHead, userHead[i].userId)
      BY <3>1, PrefixAssumption DEF NoNodeByName, Matches
    <3>3. PICK k \in DOMAIN userHead :
            /\ findNodeByName(userHead, userHead[i].userId, k)
            /\ userHead' = RemoveAt(userHead, k)
      BY <2>2, <3>2 DEF deleteNodeByName
    <3>4. userHead[k].userId = userHead[i].userId
      BY <1>1, <3>1, <3>3, FindLemma
    <3>5. \A g \in Fds : userHead[k].socketfd = g => g = fd
      BY <3>1, <3>4 DEF OwnNodes, OwnNames, Fds, NoFd
    <3>6. Wrote(fd, {"UNREGIST_OK"}) /\ Wrote(fd, OutReply)
      <4>1. /\ Msg("UNREGIST_OK").type \in OutReply
            /\ Msg("UNREGIST_OK").type \in {"UNREGIST_OK"}
            /\ OutReply \cap Chatter = {} /\ {"UNREGIST_OK"} \cap Chatter = {}
        BY DEF OutReply, Msg, Chatter
      <4> QED BY <2>2, <4>1, ToldLemma
    <3>7. \A g \in Fds \ {fd} : PlaysIn(userHead', g) <=> PlaysIn(userHead, g)
      <4> SUFFICES ASSUME NEW g \in Fds \ {fd}
                   PROVE  PlaysIn(userHead', g) <=> PlaysIn(userHead, g)
        OBVIOUS
      <4>1. userHead[k].socketfd # g
        BY <3>5
      <4> QED BY <1>1, <3>3, <4>1, PlaysRemove
    <3>8. PlaysIn(userHead, fd) => PlaysIn(userHead', fd) \/ Orphan'
      <4>1. CASE userHead[k].socketfd # fd
        BY <1>1, <3>3, <4>1, PlaysRemove
      <4>2. ASSUME userHead[k].socketfd = fd, PlaysIn(userHead, fd)
            PROVE  Orphan'
        <5>1. Len(userHead) \in Nat /\ DOMAIN userHead = 1..Len(userHead)
          BY <1>1, ListLemma
        <5>2. k = i
          <6>1. ~ (k < i)
            BY <2>1, <4>2, <5>1 DEF findNodeBySocketID
          <6>2. ~ (i < k)
            <7>1. Matches(userHead[i], userHead[i].userId)
              BY <3>1, PrefixAssumption DEF Matches
            <7> QED BY <3>3, <5>1, <7>1 DEF findNodeByName
          <6> QED BY <5>1, <6>1, <6>2
        <5>3. userHead[i].rtspPlayFlag = YES
          BY <1>1, <2>1, <4>2, PlaysSet
        <5>4. Players(userHead') < Players(userHead)
          BY <1>1, <3>3, <5>2, <5>3, PlayersLost
        <5>5. /\ Players(userHead) <= rtsp_client_num /\ rtsp_client_num' = rtsp_client_num
              /\ rtsp_client_num \in Int
              /\ Players(userHead) \in Nat /\ Players(userHead') \in Nat
          BY <1>1, <2>2, PlayersType DEF MediaCounted, Players, mediaVars, TypeOK
        <5> QED BY <5>4, <5>5 DEF Orphan
      <4> QED BY <4>1, <4>2
    <3>9. OwnNodes(userHead')
      <4>1. Len(userHead) \in Nat /\ DOMAIN userHead = 1..Len(userHead)
        BY <1>1, ListLemma
      <4>2. /\ DOMAIN userHead' = 1..(Len(userHead) - 1)
            /\ \A j \in 1..(Len(userHead) - 1) :
                 userHead'[j] = IF j < k THEN userHead[j] ELSE userHead[j + 1]
        BY <1>1, <3>3, <4>1, RemoveLemma
      <4>3. \A j \in DOMAIN userHead' : \E l \in DOMAIN userHead : userHead'[j] = userHead[l]
        BY <4>1, <4>2
      <4> QED BY <4>3 DEF OwnNodes
    <3> QED BY <1>2, <1>3, <1>13, <3>6, <3>7, <3>8, <3>9 DEF MediaEffects
  <2> QED BY <1>3, <1>4, <1>13, <2>1, <2>2
<1>14. CASE m.type = "LOGOUT" /\ Logout(fd)
  <2>1. PICK i \in DOMAIN userHead : userHead' = [userHead EXCEPT ![i].logFlag = NO]
    BY <1>14 DEF Logout
  <2>2. /\ DOMAIN userHead' = DOMAIN userHead
        /\ \A j \in DOMAIN userHead :
             /\ userHead'[j].socketfd = userHead[j].socketfd
             /\ userHead'[j].userId = userHead[j].userId
             /\ userHead'[j].rtspPlayFlag = userHead[j].rtspPlayFlag
    BY <1>1, <2>1 DEF Node
  <2>3. \A g \in Fds : PlaysIn(userHead', g) <=> PlaysIn(userHead, g)
    BY <1>1, <2>2, PlaysSame
  <2> QED BY <1>2, <1>3, <1>5, <1>14, <2>2, <2>3 DEF MediaEffects
<1>15. ASSUME NEW i, NEW flag \in {NO, YES}, findNodeBySocketID(userHead, fd, i),
              userHead' = [userHead EXCEPT ![i].rtspPlayFlag = flag]
       PROVE  /\ \A g \in Fds \ {fd} : PlaysIn(userHead', g) <=> PlaysIn(userHead, g)
              /\ PlaysIn(userHead', fd) <=> flag = YES
              /\ OwnNodes(userHead')
  <2>1. /\ DOMAIN userHead' = DOMAIN userHead /\ i \in DOMAIN userHead
        /\ userHead'[i].rtspPlayFlag = flag
        /\ userHead[i].socketfd = fd
        /\ \A j \in DOMAIN userHead :
             /\ userHead'[j].socketfd = userHead[j].socketfd
             /\ userHead'[j].userId = userHead[j].userId
             /\ j # i => userHead'[j].rtspPlayFlag = userHead[j].rtspPlayFlag
    BY <1>1, <1>15 DEF findNodeBySocketID, Node
  <2>2. \A g \in Fds \ {fd} : PlaysIn(userHead', g) <=> PlaysIn(userHead, g)
    <3> SUFFICES ASSUME NEW g \in Fds \ {fd}
                 PROVE  PlaysIn(userHead', g) <=> PlaysIn(userHead, g)
      OBVIOUS
    <3> QED BY <1>1, <2>1, PlaysSame
  <2>3. PlaysIn(userHead', fd) <=> flag = YES
    BY <1>1, <1>15, <2>1, PlaysSet
  <2> QED BY <1>5, <2>1, <2>2, <2>3
<1>16. CASE m.type = "REQ_MEDIA" /\ ReqMedia(fd)
  <2>1. PICK i \in DOMAIN userHead :
          /\ findNodeBySocketID(userHead, fd, i)
          /\ \/ userHead' = userHead /\ sent' = Silence
             \/ /\ userHead' = [userHead EXCEPT ![i].rtspPlayFlag = YES]
                /\ sent' = Write(fd, Msg("MEDIA_PLAYING"))
    BY <1>16 DEF ReqMedia, AddPlayer
  <2>2. CASE userHead' = userHead /\ sent' = Silence
    BY <1>4, <1>16, <2>2, SilentLemma
  <2>3. CASE /\ userHead' = [userHead EXCEPT ![i].rtspPlayFlag = YES]
             /\ sent' = Write(fd, Msg("MEDIA_PLAYING"))
    <3>1. Wrote(fd, Playing)
      BY <2>3, AnsweredLemma DEF Msg, Playing
    <3> QED BY <1>2, <1>15, <1>16, <2>1, <2>3, <3>1 DEF MediaEffects
  <2> QED BY <2>1, <2>2, <2>3
<1>17. CASE m.type = "STOP_MEDIA" /\ StopMedia(fd)
  <2>1. PICK i \in DOMAIN userHead :
          /\ findNodeBySocketID(userHead, fd, i)
          /\ \/ userHead' = userHead /\ userHead[i].rtspPlayFlag # YES
             \/ userHead' = [userHead EXCEPT ![i].rtspPlayFlag = NO]
    BY <1>17 DEF StopMedia
  <2>2. CASE userHead' = userHead /\ userHead[i].rtspPlayFlag # YES
    <3>1. ~ Plays(fd)
      BY <1>1, <1>2, <2>1, <2>2, PlaysSet
    <3> QED BY <1>3, <1>4, <1>17, <2>2, <3>1
  <2>3. CASE userHead' = [userHead EXCEPT ![i].rtspPlayFlag = NO]
    <3>1. NO \in {NO, YES} /\ NO # YES
      BY DEF NO, YES
    <3>2. /\ \A g \in Fds \ {fd} : PlaysIn(userHead', g) <=> PlaysIn(userHead, g)
          /\ PlaysIn(userHead', fd) <=> NO = YES
          /\ OwnNodes(userHead')
      BY <1>15, <2>1, <2>3, <3>1
    <3>3. ~ Wrote(fd, Playing)
      BY <1>3, <1>17
    <3> QED BY <1>2, <1>17, <3>1, <3>2, <3>3 DEF MediaEffects
  <2> QED BY <2>1, <2>2, <2>3
<1> QED BY <1>6, <1>7, <1>8, <1>9, <1>10, <1>11, <1>12, <1>13, <1>14, <1>16, <1>17,
           Zenon DEF Handle

-----------------------------------------------------------------------------
(* A client's player, when its user acts.                                  *)
PlayerMoves(fd) ==
  \/ at[fd] \in Waiting \cup Asking /\ player' = player
  \/ Exit(fd)
  \/ /\ at[fd] = "talk" /\ at'[fd] = "menu"
     /\ Takes(fd) /\ Keeps(fd) /\ Head(toClient[fd]) \in OutReply
     /\ ~ player'[fd]
  \/ /\ at[fd] = "talk" /\ at'[fd] = "talk"
     /\ Takes(fd) /\ Keeps(fd) /\ Head(toClient[fd]) \notin OutReply
     /\ \/ player'[fd] <=> player[fd] \/ Head(toClient[fd]) = "MEDIA_PLAYING"
        \/ Head(toClient[fd]) = "MEDIA_PLAYING" /\ ~ player[fd] /\ ~ player'[fd]
  \/ /\ at[fd] = "talk" /\ at'[fd] = "talk" /\ toClient'[fd] = toClient[fd]
     /\ \E t \in Uses[fd] : \E m \in Payload(t) :
          /\ toServer'[fd] = IF Alive THEN toServer[fd] \o <<m>> ELSE toServer[fd]
          /\ player'[fd] <=> player[fd] /\ t # "STOP_MEDIA"
  \/ at[fd] = "talk" /\ at'[fd] = "leaving" /\ player' = player
  \/ /\ at[fd] \in {"talk", "udp"} /\ at'[fd] \in {"talk", "udp"}
     /\ Keeps(fd) /\ toClient'[fd] = toClient[fd] /\ player' = player

LEMMA PlayerLemma ==
  ASSUME MyQQTypeOK, MessagesInv, TriesInv, NEW fd \in Fds, User(fd)
  PROVE  /\ PlayerMoves(fd)
         /\ \A g \in Fds \ {fd} : player'[g] <=> player[g]
<1>1. /\ at \in [Fds -> Places] /\ player \in [Fds -> BOOLEAN] /\ Queues
      /\ MyQQTypeOK'
  BY UserLemma DEF MyQQTypeOK, Queues
<1>2. ASSUME NEW b \in BOOLEAN, player' = [player EXCEPT ![fd] = b]
      PROVE  /\ player'[fd] <=> b
             /\ \A g \in Fds \ {fd} : player'[g] <=> player[g]
  BY <1>1, <1>2
<1>3. ASSUME NEW p \in Places, Go(fd, p)
      PROVE  at'[fd] = p
  BY <1>1, <1>3, GoLemma
<1>4. ASSUME toClient[fd] # <<>>, Take(fd)
      PROVE  Takes(fd)
  BY <1>1, <1>4, TakeLemma DEF Takes
<1>5. ASSUME NEW msgs \in Seq(Request), \A i \in DOMAIN msgs : WellTyped(msgs[i]),
             Send(fd, msgs)
      PROVE  toServer'[fd] = IF Alive THEN toServer[fd] \o msgs ELSE toServer[fd]
  BY <1>1, <1>5, SendLemma
<1>6. {"talk", "udp", "menu", "leaving"} \subseteq Places
  BY DEF Places, Talking, Asking
<1>7. CASE Exit(fd)
  BY <1>2, <1>7 DEF Exit, StopPlayer, PlayerMoves
<1>8. CASE AskRegister(fd) \/ AskLogin(fd) \/ Decide(fd)
  BY <1>8 DEF AskRegister, AskLogin, Decide, Client, Asking, PlayerMoves
<1>9. CASE (ReadRegister(fd) \/ ReadLogin(fd)) /\ ~ Exit(fd)
  BY <1>9 DEF ReadRegister, ReadLogin, Client, Waiting, PlayerMoves
<1>10. CASE Command(fd)
  <2>0. PICK t \in Uses[fd] :
          /\ \E m \in Payload(t) : Send(fd, <<m>>)
          /\ IF t = "STOP_MEDIA" THEN StopPlayer(fd) ELSE player' = player
    BY <1>10 DEF Command
  <2>1. PICK m \in Payload(t) : Send(fd, <<m>>)
    BY <2>0
  <2>2. at[fd] = "talk" /\ at' = at /\ toClient' = toClient
    BY <1>10 DEF Command, Client
  <2>3. m \in Request /\ WellTyped(m)
    BY RequestLemma
  <2>4. toServer'[fd] = IF Alive THEN toServer[fd] \o <<m>> ELSE toServer[fd]
    <3>1. <<m>> \in Seq(Request) /\ \A i \in DOMAIN <<m>> : WellTyped(<<m>>[i])
      BY <2>3
    <3> QED BY <1>5, <2>1, <3>1
  <2>5. CASE t = "STOP_MEDIA"
    <3>1. /\ ~ player'[fd]
          /\ \A g \in Fds \ {fd} : player'[g] <=> player[g]
      BY <1>2, <2>0, <2>5 DEF StopPlayer
    <3> QED BY <2>2, <2>4, <2>5, <3>1 DEF PlayerMoves
  <2>6. CASE t # "STOP_MEDIA"
    <3>1. player' = player
      BY <2>0, <2>6
    <3> QED BY <2>2, <2>4, <2>6, <3>1 DEF PlayerMoves
  <2> QED BY <2>5, <2>6
<1>11. CASE QuitTalk(fd) \/ TalkToOthers(fd)
  <2>1. CASE QuitTalk(fd)
    BY <1>3, <1>6, <2>1 DEF QuitTalk, Client, PlayerMoves
  <2>2. CASE TalkToOthers(fd)
    <3>1. /\ at[fd] \in {"talk", "udp"} /\ at'[fd] \in {"talk", "udp"}
          /\ UNCHANGED <<player, toServer, toClient>>
      BY <1>3, <1>6, <2>2 DEF TalkToOthers, Client
    <3> QED BY <3>1 DEF PlayerMoves, Keeps
  <2> QED BY <1>11, <2>1, <2>2
<1>12. CASE ReadTalk(fd) /\ ~ Exit(fd)
  <2> DEFINE h == Head(toClient[fd])
  <2>1. /\ at[fd] = "talk" /\ toClient[fd] # <<>> /\ Take(fd) /\ toServer' = toServer
        /\ \/ h \in OutReply /\ Go(fd, "menu") /\ StopPlayer(fd)
           \/ h = "MEDIA_PLAYING" /\ player' = [player EXCEPT ![fd] = TRUE] /\ at' = at
           \/ h = "MEDIA_PLAYING" /\ ~ player[fd] /\ player' = player /\ at' = at
           \/ h \notin OutReply \cup {"MEDIA_PLAYING"} /\ player' = player /\ at' = at
    BY <1>12 DEF ReadTalk, Client, OutReply
  <2>2. Takes(fd) /\ Keeps(fd)
    BY <1>4, <2>1 DEF Keeps
  <2> HIDE DEF h
  <2>3. CASE h \in OutReply /\ Go(fd, "menu") /\ StopPlayer(fd)
    <3>1. at'[fd] = "menu"
      BY <1>3, <1>6, <2>3
    <3>2. ~ player'[fd] /\ \A g \in Fds \ {fd} : player'[g] <=> player[g]
      BY <1>2, <2>3 DEF StopPlayer
    <3> QED BY <2>1, <2>2, <2>3, <3>1, <3>2 DEF PlayerMoves, h
  <2>4. CASE h = "MEDIA_PLAYING" /\ player' = [player EXCEPT ![fd] = TRUE] /\ at' = at
    <3>1. player'[fd] /\ \A g \in Fds \ {fd} : player'[g] <=> player[g]
      BY <1>2, <2>4
    <3>2. h \notin OutReply
      BY <2>4 DEF OutReply
    <3> QED BY <2>1, <2>2, <2>4, <3>1, <3>2 DEF PlayerMoves, h
  <2>5. CASE h \notin OutReply \cup {"MEDIA_PLAYING"} /\ player' = player /\ at' = at
    BY <2>1, <2>2, <2>5 DEF PlayerMoves, h
  <2>6. CASE h = "MEDIA_PLAYING" /\ ~ player[fd] /\ player' = player /\ at' = at
    <3>1. h \notin OutReply
      BY <2>6 DEF OutReply
    <3> QED BY <2>1, <2>2, <2>6, <3>1 DEF PlayerMoves, h
  <2> QED BY <2>1, <2>3, <2>4, <2>5, <2>6
<1> QED BY <1>7, <1>8, <1>9, <1>10, <1>11, <1>12 DEF User, Read

(* The clients that stop while a request to play is under way.             *)
LEMMA CrossedLemma ==
  ASSUME MyQQTypeOK, NEW fd \in Fds, ByUser(fd)
  PROVE  /\ \A g \in Fds \ {fd} : g \in crossed' <=> g \in crossed
         /\ Stops(fd) /\ fd \notin crossed'
              => ~ Has(toServer[fd], PlayReq) /\ ~ Has(toClient[fd], Playing)
         /\ ~ Stops(fd) /\ ~ Returns(fd) => (fd \in crossed' <=> fd \in crossed)
<1>1. crossed' = IF Stops(fd) /\ AskedToPlay(fd) THEN crossed \cup {fd}
                 ELSE IF Stops(fd) \/ Returns(fd) THEN crossed \ {fd} ELSE crossed
  BY DEF ByUser
<1>2. Has(toServer[fd], PlayReq) \/ Has(toClient[fd], Playing) => AskedToPlay(fd)
  BY DEF AskedToPlay, Has, PlayReq, Playing, Range
<1> QED BY <1>1, <1>2

(* And those that were told to play and could not.                         *)
LEMMA UnforkedLemma ==
  ASSUME NEW fd \in Fds, ByUser(fd)
  PROVE  /\ \A g \in Fds \ {fd} : g \in unforked' <=> g \in unforked
         /\ fd \in unforked => fd \in unforked' \/ Stops(fd) \/ Returns(fd) \/ player'[fd]
         /\ CannotFork(fd) => fd \in unforked'
<1>1. unforked' = IF CannotFork(fd) THEN unforked \cup {fd}
                  ELSE IF Stops(fd) \/ Returns(fd) \/ player'[fd]
                  THEN unforked \ {fd} ELSE unforked
  BY DEF ByUser
<1> QED BY <1>1

(* What is in the queues after one message more or less.                   *)
LEMMA MoreLemma ==
  ASSUME NEW S, NEW s \in Seq(S), NEW m \in S, NEW X, NEW Y
  PROVE  /\ Has(s \o <<m>>, X) <=> Has(s, X) \/ m \in X
         /\ NeverAfter(s \o <<m>>, X, Y) <=>
              NeverAfter(s, X, Y) /\ (Has(s, X) => m \notin Y)
<1> DEFINE t == <<m>>
<1>1. t \in Seq(S)
  OBVIOUS
<1>2. (Has(t, X) <=> m \in X) /\ NeverAfter(t, X, Y)
  BY ShortLemma
<1>3. Has(t, Y) <=> m \in Y
  BY ShortLemma
<1> HIDE DEF t
<1>4. /\ Has(s \o t, X) <=> Has(s, X) \/ Has(t, X)
      /\ NeverAfter(s \o t, X, Y) <=>
           /\ NeverAfter(s, X, Y) /\ NeverAfter(t, X, Y)
           /\ Has(s, X) => ~ Has(t, Y)
  BY <1>1, ConcatLemma
<1> QED BY <1>2, <1>3, <1>4 DEF t

LEMMA LessLemma ==
  ASSUME MyQQTypeOK, NEW fd \in Fds, Takes(fd), NEW X, "EOF" \notin X, NEW Y
  PROVE  /\ Has(toClient[fd], X) <=> Head(toClient[fd]) \in X \/ Has(toClient'[fd], X)
         /\ NeverAfter(toClient[fd], X, Y) =>
              /\ NeverAfter(toClient'[fd], X, Y)
              /\ Head(toClient[fd]) \in X => ~ Has(toClient'[fd], Y)
<1> DEFINE c == toClient[fd]
           d == toClient'[fd]
           S == ReplyTypes \cup {"EOF"}
<1>1. c \in Seq(S) /\ c # <<>>
  BY DEF MyQQTypeOK, Takes
<1>2. d = Tail(c) \/ (c = <<"EOF">> /\ d = c)
  BY DEF Takes
<1> HIDE DEF c, d, S
<1>3. CASE d = Tail(c)
  <2>1. /\ Has(c, X) <=> Head(c) \in X \/ Has(d, X)
        /\ NeverAfter(c, X, Y) <=>
             /\ NeverAfter(d, X, Y)
             /\ Head(c) \in X => ~ Has(d, Y)
    BY <1>1, <1>3, HeadLemma
  <2> QED BY <2>1 DEF c, d
<1>4. CASE c = <<"EOF">> /\ d = c
  <2>1. Head(c) = "EOF"
    BY <1>4
  <2> QED BY <1>4, <2>1 DEF c, d
<1> QED BY <1>2, <1>3, <1>4

(* Where neither the queues, the place, the player, nor the node change as *)
(* far as the players go.                                                  *)
LEMMA KeptLemma ==
  ASSUME NEW g \in Fds, MenuInv(g), TalkInv(g), at'[g] = at[g],
         toServer'[g] = toServer[g], player'[g] <=> player[g],
         at[g] \notin {"none", "gone"} =>
           /\ Has(toClient'[g], InReply) <=> Has(toClient[g], InReply)
           /\ Has(toClient'[g], OutReply) <=> Has(toClient[g], OutReply)
           /\ Has(toClient'[g], Playing) <=> Has(toClient[g], Playing)
           /\ Has(toClient[g], {"UNREGIST_OK"}) => Has(toClient'[g], {"UNREGIST_OK"})
           /\ NeverAfter(toClient[g], InReply, Playing)
                => NeverAfter(toClient'[g], InReply, Playing),
         g \in crossed' <=> g \in crossed, g \in left' <=> g \in left,
         g \in unforked' <=> g \in unforked,
         Plays(g)' <=> Plays(g), Orphan => Orphan'
  PROVE  MenuInv(g)' /\ TalkInv(g)'
<1>1. Sounds(g)' <=> player'[g] \/ Has(toClient'[g], Playing)
  BY DEF Sounds
<1>2. Sounds(g) <=> player[g] \/ Has(toClient[g], Playing)
  BY DEF Sounds
<1>3. at[g] \in Waiting \cup Asking \cup {"talk", "udp"} => at[g] \notin {"none", "gone"}
  BY DEF Waiting, Asking
<1>4. MenuInv(g)'
  BY <1>3 DEF MenuInv
<1>5. TalkInv(g)'
  BY <1>1, <1>2, <1>3 DEF TalkInv
<1> QED BY <1>4, <1>5

-----------------------------------------------------------------------------
(* The requests, by what they mean for a player.                           *)
LEMMA KindsOfRequest ==
  ASSUME NEW fd \in Fds
  PROVE  /\ \A m \in Request :
              /\ m \in InReq <=> m.type = "LOGIN"
              /\ m \in EnterReq <=> m.type \in {"REGIST", "LOGIN"}
              /\ m \in PlayReq <=> m.type = "REQ_MEDIA"
              /\ m \in StopReq <=> m.type = "STOP_MEDIA"
              /\ m \in EndReq <=> m.type \in {"QUIT", "EOF"}
              /\ m \in Foreign(fd) <=> /\ m.type \in {"REGIST", "LOGIN"}
                                       /\ m.name \notin NamesOf(fd)
         /\ \A t \in {"REQ_OL", "STOP_MEDIA", "QUIT", "EOF"} :
              Req(t) \in Request /\ Req(t).type = t
         /\ \A t \in {"REGIST", "LOGIN"}, typed \in Types[fd] :
              /\ WithAccount(t, typed) \in Request /\ WithAccount(t, typed).type = t
              /\ WithAccount(t, typed) \notin Foreign(fd)
         /\ \A t \in Uses[fd] : \A m \in Payload(t) :
              /\ m \in Request /\ m.type = t
              /\ t \notin {"REGIST", "LOGIN", "QUIT", "EOF"}
<1>1. \A m \in Request :
              /\ m \in InReq <=> m.type = "LOGIN"
              /\ m \in EnterReq <=> m.type \in {"REGIST", "LOGIN"}
              /\ m \in PlayReq <=> m.type = "REQ_MEDIA"
              /\ m \in StopReq <=> m.type = "STOP_MEDIA"
              /\ m \in EndReq <=> m.type \in {"QUIT", "EOF"}
              /\ m \in Foreign(fd) <=> /\ m.type \in {"REGIST", "LOGIN"}
                                       /\ m.name \notin NamesOf(fd)
  BY DEF InReq, EnterReq, PlayReq, StopReq, EndReq, Foreign
<1>2. \A t \in {"REQ_OL", "STOP_MEDIA", "QUIT", "EOF"} :
              Req(t) \in Request /\ Req(t).type = t
  BY RequestLemma DEF Req
<1>3. ASSUME NEW t \in {"REGIST", "LOGIN"}, NEW typed \in Types[fd]
      PROVE  /\ WithAccount(t, typed) \in Request /\ WithAccount(t, typed).type = t
             /\ WithAccount(t, typed) \notin Foreign(fd)
  <2>1. WithAccount(t, typed).name \in NamesOf(fd)
    BY DEF WithAccount, NamesOf
  <2> QED BY <2>1, RequestLemma DEF Foreign
<1>4. ASSUME NEW t \in Uses[fd], NEW m \in Payload(t)
      PROVE  /\ m \in Request /\ m.type = t
             /\ t \notin {"REGIST", "LOGIN", "QUIT", "EOF"}
  BY RequestLemma, ClientAssumption
<1> QED BY <1>1, <1>2, <1>3, <1>4

(* A step of a user keeps to his own names, and his player to the talk.    *)
LEMMA OwnUser ==
  ASSUME CoreInv, OwnInv, NEW fd \in Fds, User(fd)
  PROVE  OwnInv'
<1> DEFINE s == toServer[fd]
           t == toServer'[fd]
           Clean(q) == ~ Has(q, Foreign(fd))
<1>1. /\ Stays(fd) /\ UserMoves(fd) /\ PlayerMoves(fd)
      /\ \A g \in Fds \ {fd} : player'[g] <=> player[g]
  BY UserLemma, PlayerLemma DEF CoreInv
<1>2. userHead' = userHead
  BY UserQuiet DEF Quiet
<1>3. s \in Seq(Request) /\ Clean(s)
  BY DEF CoreInv, MyQQTypeOK, OwnInv
<1> HIDE DEF s, t
<1>4. ASSUME NEW q \in Seq(Request), NEW m \in Request, Clean(q), m \notin Foreign(fd)
      PROVE  q \o <<m>> \in Seq(Request) /\ Clean(q \o <<m>>)
  <2>1. q \o <<m>> \in Seq(Request)
    OBVIOUS
  <2>2. Has(q \o <<m>>, Foreign(fd)) <=> Has(q, Foreign(fd)) \/ m \in Foreign(fd)
    BY MoreLemma
  <2> QED BY <1>4, <2>1, <2>2
<1>5. ASSUME NEW m \in Request, m \notin Foreign(fd),
             t = IF Alive THEN s \o <<m>> ELSE s
      PROVE  Clean(t)
  BY <1>3, <1>4, <1>5
<1>6. \A k \in {"REQ_OL", "STOP_MEDIA", "QUIT", "EOF"} :
        Req(k) \in Request /\ Req(k) \notin Foreign(fd)
  BY KindsOfRequest
<1>7. Clean(t)
  <2>1. CASE Asks(fd, "REGIST", {"regist"}) \/ Asks(fd, "LOGIN", {"login", "relogin"})
    <3>1. PICK m \in Request : /\ m \notin Foreign(fd)
                               /\ t = IF Alive THEN s \o <<m>> ELSE s
      BY <2>1, KindsOfRequest DEF Asks, s, t
    <3> QED BY <1>5, <3>1
  <2>2. CASE Keeps(fd)
    BY <1>3, <2>2 DEF Keeps, s, t
  <2>3. CASE Enters(fd)
    <3>1. t = IF Alive THEN s \o <<Req("REQ_OL")>> ELSE s
      BY <2>3 DEF Enters, s, t
    <3> QED BY <1>5, <1>6, <3>1
  <2>4. CASE \E k \in Uses[fd] : \E m \in Payload(k) :
               t = IF Alive THEN s \o <<m>> ELSE s
    <3>1. PICK k \in Uses[fd] : \E m \in Payload(k) :
            t = IF Alive THEN s \o <<m>> ELSE s
      BY <2>4
    <3>2. PICK m \in Payload(k) : t = IF Alive THEN s \o <<m>> ELSE s
      BY <3>1
    <3>3. m \in Request /\ m \notin Foreign(fd)
      BY KindsOfRequest
    <3> QED BY <1>5, <3>2, <3>3
  <2>5. CASE t = IF Alive THEN s \o <<Req("STOP_MEDIA"), Req("QUIT")>> ELSE s
    <3> DEFINE a == Req("STOP_MEDIA")
               b == Req("QUIT")
    <3>1. a \in Request /\ b \in Request /\ a \notin Foreign(fd) /\ b \notin Foreign(fd)
      BY <1>6
    <3> HIDE DEF a, b
    <3>2. <<a, b>> \in Seq(Request) /\ Clean(<<a, b>>)
      BY <3>1 DEF Has
    <3> DEFINE v == <<a, b>>
    <3> HIDE DEF v
    <3>3. Has(s \o v, Foreign(fd)) <=> Has(s, Foreign(fd)) \/ Has(v, Foreign(fd))
      BY <1>3, <3>2, ConcatLemma DEF v
    <3> QED BY <1>3, <2>5, <3>2, <3>3 DEF a, b, v
  <2>6. CASE Exit(fd)
    <3>1. t = IF Alive THEN s \o <<Req("EOF")>> ELSE s
      BY <2>6, ExitLemma DEF s, t, CoreInv
    <3> QED BY <1>5, <1>6, <3>1
  <2> QED BY <1>1, <2>1, <2>2, <2>3, <2>4, <2>5, <2>6 DEF UserMoves, s, t
<1>8. player'[fd] => at'[fd] \in Talking
  <2>1. player[fd] => at[fd] \in Talking
    BY DEF OwnInv
  <2>2. CASE Exit(fd)
    BY <2>2 DEF Exit, StopPlayer, CoreInv, MyQQTypeOK
  <2>3. CASE at[fd] \in Waiting \cup Asking /\ player' = player
    BY <2>1, <2>3 DEF Waiting, Asking, Talking
  <2> QED BY <1>1, <2>2, <2>3 DEF PlayerMoves, Talking
<1>9. \A g \in Fds \ {fd} : at'[g] = at[g] /\ toServer'[g] = toServer[g]
  BY <1>1 DEF Stays
<1> QED BY <1>1, <1>2, <1>7, <1>8, <1>9 DEF OwnInv, t

(* A client that comes out of the menu starts anew.                        *)
LEMMA EnterTalks ==
  ASSUME CoreInv, NEW fd \in Fds, Enters(fd), Alive, ~ player'[fd],
         ~ Has(toServer[fd], PlayReq), ~ Has(toClient'[fd], Playing),
         Plays(fd)' => fd \in left'
  PROVE  MenuInv(fd)' /\ TalkInv(fd)'
<1> DEFINE s == toServer[fd]
           m == Req("REQ_OL")
<1>1. /\ s \in Seq(Request) /\ m \in Request /\ m.type = "REQ_OL"
      /\ toServer'[fd] = s \o <<m>> /\ at'[fd] = "talk"
  BY KindsOfRequest DEF CoreInv, MyQQTypeOK, Enters
<1> HIDE DEF s, m
<1>2. m \notin PlayReq /\ (Has(s \o <<m>>, PlayReq) <=> Has(s, PlayReq) \/ m \in PlayReq)
  BY <1>1, KindsOfRequest, MoreLemma
<1>3. ~ Has(toServer'[fd], PlayReq)
  BY <1>1, <1>2 DEF s
<1>4. \A Y : NeverAfter(toServer'[fd], PlayReq, Y)
  BY <1>3, NoneAfter
<1>5. ~ Sounds(fd)'
  BY DEF Sounds
<1>6. at'[fd] = "talk" /\ "talk" \notin Waiting \cup Asking
  BY <1>1 DEF Waiting, Asking
<1> QED BY <1>4, <1>5, <1>6 DEF MenuInv, TalkInv

(* A step of a user keeps his side of the playing and the server's in      *)
(* step: in the menu,                                                      *)
LEMMA MenuUser ==
  ASSUME CoreInv, FlowInv, OwnInv, NEW fd \in Fds, ByUser(fd), Alive,
         MenuInv(fd), at[fd] \in Waiting \cup Asking, Plays(fd)' <=> Plays(fd)
  PROVE  MenuInv(fd)' /\ TalkInv(fd)'
<1> DEFINE s == toServer[fd]
           c == toClient[fd]
           t == toServer'[fd]
           d == toClient'[fd]
<1>1. User(fd) /\ UserMoves(fd) /\ PlayerMoves(fd) /\ left' = left
  BY UserLemma, PlayerLemma DEF ByUser, CoreInv
<1>2. /\ NeverAfter(c, InReply, Playing)
      /\ NeverAfter(s, InReq, PlayReq)
      /\ Has(c, InReply) => ~ Has(s, PlayReq)
      /\ at[fd] = "reoffer" => ~ Has(c, Playing) /\ ~ Has(s, PlayReq)
      /\ at[fd] = "reoffer" \/ Has(c, InReply) => (Plays(fd) => fd \in left)
  BY DEF MenuInv
<1>3. CASE Exit(fd)
  BY <1>3, ExitLemma DEF MenuInv, TalkInv, CoreInv, Waiting, Asking
<1>4. ~ Exit(fd) => ~ player'[fd]
  <2>1. ~ player[fd] /\ at[fd] \notin {"talk", "udp"}
    BY DEF OwnInv, Waiting, Asking, Talking
  <2> QED BY <1>1, <2>1 DEF PlayerMoves
<1>5. "EOF" \notin InReply \cup Playing /\ s \in Seq(Request)
  BY DEF InReply, Playing, CoreInv, MyQQTypeOK
<1>6. ASSUME Takes(fd)
      PROVE  /\ Has(c, InReply) <=> Head(c) \in InReply \/ Has(d, InReply)
             /\ NeverAfter(d, InReply, Playing)
             /\ Head(c) \in InReply => ~ Has(d, Playing)
  BY <1>2, <1>5, <1>6, LessLemma DEF CoreInv
<1>7. ASSUME at'[fd] \in (Waiting \cup Asking) \ {"reoffer"},
             NeverAfter(d, InReply, Playing), NeverAfter(t, InReq, PlayReq),
             Has(d, InReply) => Has(c, InReply),
             Has(t, PlayReq) => Has(s, PlayReq)
      PROVE  MenuInv(fd)' /\ TalkInv(fd)'
  <2>1. at'[fd] \notin {"talk", "udp"}
    BY <1>7 DEF Waiting, Asking
  <2> QED BY <1>1, <1>2, <1>7, <2>1 DEF MenuInv, TalkInv
<1>8. CASE Asks(fd, "REGIST", {"regist"}) \/ Asks(fd, "LOGIN", {"login", "relogin"})
  <2>1. PICK m \in Request : m.type \in {"REGIST", "LOGIN"} /\ t = s \o <<m>>
    BY <1>8, KindsOfRequest DEF Asks
  <2>2. m \notin PlayReq
    BY <2>1, KindsOfRequest
  <2>3. /\ Has(s \o <<m>>, PlayReq) <=> Has(s, PlayReq) \/ m \in PlayReq
        /\ NeverAfter(s \o <<m>>, InReq, PlayReq) <=>
             NeverAfter(s, InReq, PlayReq) /\ (Has(s, InReq) => m \notin PlayReq)
    <3>1. s \in Seq(Request) /\ m \in Request
      BY <1>5, <2>1
    <3> HIDE DEF s
    <3> QED BY <3>1, MoreLemma, Zenon
  <2>4. d = c /\ at'[fd] \in (Waiting \cup Asking) \ {"reoffer"}
    BY <1>8 DEF Asks, Waiting, Asking
  <2> HIDE DEF s, c, t, d
  <2> QED BY <1>2, <1>7, <2>1, <2>2, <2>3, <2>4
<1>9. CASE /\ at'[fd] \in {"menu", "again", "reagain"}
           /\ Keeps(fd) /\ d = c
  BY <1>2, <1>7, <1>9 DEF Keeps, Waiting, Asking
<1>10. CASE at[fd] = "reoffer" /\ Enters(fd) /\ d = c
  BY <1>1, <1>2, <1>4, <1>10, EnterTalks, ExitLemma DEF Enters, CoreInv
<1>11. CASE at'[fd] \in Asking \ {"reoffer"} /\ Takes(fd) /\ Keeps(fd)
  BY <1>2, <1>6, <1>7, <1>11 DEF Keeps
<1>12. CASE at'[fd] = "reoffer" /\ Takes(fd) /\ Keeps(fd) /\ Head(c) = "UN_EXIST"
  <2>1. Head(c) \in InReply
    BY <1>12 DEF InReply
  <2>2. /\ Has(c, InReply) /\ ~ Has(d, Playing) /\ NeverAfter(d, InReply, Playing)
        /\ t = s
    BY <1>6, <1>12, <2>1 DEF Keeps
  <2>3. at'[fd] \notin {"talk", "udp"}
    BY <1>12
  <2> QED BY <1>1, <1>2, <2>2, <2>3 DEF MenuInv, TalkInv
<1>13. CASE Enters(fd) /\ Takes(fd) /\ Head(c) = "LOGIN_OK"
  <2>1. Head(c) \in InReply
    BY <1>13 DEF InReply
  <2>2. Has(c, InReply) /\ ~ Has(d, Playing)
    BY <1>6, <1>13, <2>1
  <2>3. at'[fd] = "talk"
    BY <1>13 DEF Enters
  <2> QED BY <1>1, <1>2, <1>4, <1>13, <2>2, <2>3, EnterTalks, ExitLemma DEF CoreInv
<1>14. at[fd] \notin {"talk", "udp"}
  BY DEF Waiting, Asking
<1> QED BY <1>1, <1>3, <1>8, <1>9, <1>10, <1>11, <1>12, <1>13, <1>14 DEF UserMoves

(* in the talk,                                                            *)
LEMMA TalkUser ==
  ASSUME CoreInv, FlowInv, NEW fd \in Fds, ByUser(fd), Alive, TalkInv(fd),
         at[fd] \in Talking, Plays(fd)' <=> Plays(fd), Orphan' <=> Orphan
  PROVE  MenuInv(fd)' /\ TalkInv(fd)'
<1> DEFINE s == toServer[fd]
           c == toClient[fd]
           t == toServer'[fd]
           d == toClient'[fd]
<1>1. PlayerMoves(fd) /\ left' = left
  BY PlayerLemma DEF ByUser, CoreInv
<1>2. /\ "EOF" \notin InReply /\ "EOF" \notin OutReply /\ "EOF" \notin Playing
      /\ "EOF" \notin {"UNREGIST_OK"} /\ {"UNREGIST_OK"} \subseteq OutReply
      /\ s \in Seq(Request)
  BY DEF InReply, OutReply, Playing, CoreInv, MyQQTypeOK
<1>3. /\ Sounds(fd) <=> player[fd] \/ Has(c, Playing)
      /\ Sounds(fd)' <=> player'[fd] \/ Has(d, Playing)
  BY DEF Sounds
<1>4. at[fd] \notin Waiting \cup Asking /\ at[fd] \in {"talk", "udp", "leaving"}
  BY DEF Waiting, Asking, Talking
<1>5. CASE Exit(fd)
  BY <1>5, ExitLemma DEF MenuInv, TalkInv, CoreInv, Waiting, Asking
<1>6. CASE /\ at[fd] = "talk" /\ at'[fd] = "menu"
           /\ Takes(fd) /\ Keeps(fd) /\ Head(c) \in OutReply
  <2>1. NoInAfterOut(fd)
    BY <1>6 DEF FlowInv, OrderInv, Talking
  <2>2. /\ Has(c, OutReply) <=> Head(c) \in OutReply \/ Has(d, OutReply)
        /\ NeverAfter(c, OutReply, InReply) =>
              /\ NeverAfter(d, OutReply, InReply)
              /\ Head(c) \in OutReply => ~ Has(d, InReply)
    BY <1>2, <1>6, LessLemma DEF CoreInv
  <2>3. ~ Has(d, InReply) /\ ~ Has(t, InReq)
    BY <1>6, <2>1, <2>2 DEF NoInAfterOut, Keeps
  <2>4. NeverAfter(d, InReply, Playing) /\ NeverAfter(t, InReq, PlayReq)
    BY <2>3, NoneAfter
  <2>5. at'[fd] \notin {"talk", "udp", "reoffer"}
    BY <1>6
  <2> QED BY <2>3, <2>4, <2>5 DEF MenuInv, TalkInv
<1>7. ASSUME at[fd] \in {"talk", "udp"}
      PROVE  /\ NeverAfter(s, PlayReq, EnterReq)
             /\ Sounds(fd) => ~ Has(s, EnterReq)
             /\ fd \notin crossed =>
                  /\ NeverAfter(s, PlayReq, StopReq)
                  /\ Sounds(fd) => /\ ~ Has(s, StopReq)
                                   /\ Plays(fd) \/ (Orphan /\ Has(c, {"UNREGIST_OK"}))
             /\ Plays(fd) /\ fd \notin left \cup unforked =>
                  Sounds(fd) \/ Has(s, StopReq) \/ Has(c, OutReply)
  BY <1>7 DEF TalkInv
<1>8. ASSUME at[fd] \in {"talk", "udp"}, at'[fd] \in {"talk", "udp"},
             Sounds(fd)' => Sounds(fd), fd \in crossed => fd \in crossed',
             NeverAfter(t, PlayReq, EnterReq) <=> NeverAfter(s, PlayReq, EnterReq),
             Has(t, EnterReq) <=> Has(s, EnterReq),
             fd \notin crossed' =>
               /\ NeverAfter(s, PlayReq, StopReq) => NeverAfter(t, PlayReq, StopReq)
               /\ Sounds(fd)' => (Has(t, StopReq) <=> Has(s, StopReq)),
             Has(c, {"UNREGIST_OK"}) => Has(d, {"UNREGIST_OK"}),
             Sounds(fd) \/ Has(s, StopReq) \/ Has(c, OutReply) \/ fd \in unforked
               => Sounds(fd)' \/ Has(t, StopReq) \/ Has(d, OutReply) \/ fd \in unforked'
      PROVE  MenuInv(fd)' /\ TalkInv(fd)'
  <2>1. at'[fd] \notin Waiting \cup Asking
    BY <1>8 DEF Waiting, Asking
  <2> QED BY <1>1, <1>7, <1>8, <2>1 DEF MenuInv, TalkInv
<1>9. /\ Stops(fd) /\ fd \notin crossed' => ~ Has(s, PlayReq) /\ ~ Has(c, Playing)
      /\ ~ Stops(fd) /\ ~ Returns(fd) => (fd \in crossed' <=> fd \in crossed)
  BY CrossedLemma DEF CoreInv
<1>10. (t = s => ~ Stops(fd)) /\ (at'[fd] \in {"talk", "udp"} => ~ Returns(fd))
  <2>1. Len(s) \in Nat
    BY <1>2
  <2> QED BY <2>1 DEF Stops, Returns
<1>15. /\ t = s /\ at'[fd] \in {"talk", "udp"} /\ fd \in unforked
            => fd \in unforked' \/ Sounds(fd)'
       /\ at'[fd] \in {"talk", "udp"} /\ fd \in unforked
            => fd \in unforked' \/ Sounds(fd)' \/ Stops(fd)
       /\ CannotFork(fd) => fd \in unforked'
  BY <1>3, <1>10, UnforkedLemma
<1>11. CASE /\ at[fd] = "talk" /\ at'[fd] = "talk"
            /\ Takes(fd) /\ Keeps(fd) /\ Head(c) \notin OutReply
            /\ player'[fd] <=> player[fd] \/ Head(c) = "MEDIA_PLAYING"
  <2>1. /\ Has(c, OutReply) <=> Head(c) \in OutReply \/ Has(d, OutReply)
        /\ Has(c, Playing) <=> Head(c) \in Playing \/ Has(d, Playing)
        /\ Has(c, {"UNREGIST_OK"}) <=> Head(c) \in {"UNREGIST_OK"} \/ Has(d, {"UNREGIST_OK"})
    BY <1>2, <1>11, LessLemma DEF CoreInv
  <2>2. t = s /\ (fd \in crossed' <=> fd \in crossed)
    BY <1>9, <1>10, <1>11 DEF Keeps
  <2>3. Sounds(fd)' <=> Sounds(fd)
    BY <1>3, <1>11, <2>1 DEF Playing
  <2>5. fd \in unforked => fd \in unforked' \/ Sounds(fd)'
    BY <1>11, <1>15, <2>2
  <2>4. /\ Has(d, OutReply) <=> Has(c, OutReply)
        /\ Has(c, {"UNREGIST_OK"}) => Has(d, {"UNREGIST_OK"})
    BY <1>2, <1>11, <2>1
  <2> HIDE DEF s, c, t, d
  <2> QED BY <1>8, <1>11, <2>2, <2>3, <2>4, <2>5
<1>16. CASE /\ at[fd] = "talk" /\ at'[fd] = "talk"
            /\ Takes(fd) /\ Keeps(fd) /\ Head(c) \notin OutReply
            /\ Head(c) = "MEDIA_PLAYING" /\ ~ player[fd] /\ ~ player'[fd]
  <2>1. /\ Has(c, Playing) <=> Head(c) \in Playing \/ Has(d, Playing)
        /\ Has(c, {"UNREGIST_OK"}) <=> Head(c) \in {"UNREGIST_OK"} \/ Has(d, {"UNREGIST_OK"})
    BY <1>2, <1>16, LessLemma DEF CoreInv
  <2>2. t = s /\ (fd \in crossed' <=> fd \in crossed)
    BY <1>9, <1>10, <1>16 DEF Keeps
  <2>3. fd \in unforked'
    <3>1. c # <<>> /\ d # c
      <4>1. c # <<>> /\ c \in Seq(ReplyTypes \cup {"EOF"}) /\ c # <<"EOF">>
        BY <1>16 DEF Takes, CoreInv, MyQQTypeOK
      <4>2. d = Tail(c)
        BY <1>16, <4>1 DEF Takes
      <4> HIDE DEF c, d
      <4> QED BY <4>1, <4>2
    <3>2. CannotFork(fd)
      BY <1>16, <3>1 DEF CannotFork
    <3> QED BY <1>15, <3>2
  <2>4. /\ Sounds(fd)' => Sounds(fd)
        /\ Has(c, {"UNREGIST_OK"}) => Has(d, {"UNREGIST_OK"})
    BY <1>2, <1>3, <1>16, <2>1
  <2> HIDE DEF s, c, t, d
  <2> QED BY <1>8, <1>16, <2>2, <2>3, <2>4
<1>12. CASE /\ at[fd] = "talk" /\ at'[fd] = "talk" /\ d = c
            /\ \E k \in Uses[fd] : \E m \in Payload(k) :
                 /\ t = IF Alive THEN s \o <<m>> ELSE s
                 /\ player'[fd] <=> player[fd] /\ k # "STOP_MEDIA"
  <2>1. PICK k \in Uses[fd] : \E m \in Payload(k) :
          /\ t = IF Alive THEN s \o <<m>> ELSE s
          /\ player'[fd] <=> player[fd] /\ k # "STOP_MEDIA"
    BY <1>12
  <2>2. PICK m \in Payload(k) : /\ t = s \o <<m>>
                                /\ player'[fd] <=> player[fd] /\ k # "STOP_MEDIA"
    BY <2>1
  <2>3. m \in Request /\ m.type = k /\ k \notin {"REGIST", "LOGIN", "QUIT", "EOF"}
    BY KindsOfRequest
  <2>4. m \notin EnterReq /\ (m \in StopReq <=> k = "STOP_MEDIA")
    BY <2>3, KindsOfRequest
  <2>5. Stops(fd) <=> k = "STOP_MEDIA"
    <3>1. Len(t) = Len(s) + 1 /\ t[Len(t)] = m /\ Len(s) \in Nat
      BY <1>2, <2>2, <2>3
    <3> QED BY <2>3, <3>1 DEF Stops, Last
  <2> HIDE DEF s, c, t, d
  <2>6. /\ Has(t, StopReq) <=> Has(s, StopReq) \/ m \in StopReq
        /\ Has(t, EnterReq) <=> Has(s, EnterReq) \/ m \in EnterReq
        /\ NeverAfter(t, PlayReq, EnterReq) <=>
             NeverAfter(s, PlayReq, EnterReq) /\ (Has(s, PlayReq) => m \notin EnterReq)
        /\ NeverAfter(t, PlayReq, StopReq) <=>
             NeverAfter(s, PlayReq, StopReq) /\ (Has(s, PlayReq) => m \notin StopReq)
    <3>1. \A X, Y : /\ Has(s \o <<m>>, X) <=> Has(s, X) \/ m \in X
                    /\ NeverAfter(s \o <<m>>, X, Y) <=>
                         NeverAfter(s, X, Y) /\ (Has(s, X) => m \notin Y)
      BY <1>2, <2>3, MoreLemma
    <3> QED BY <2>2, <3>1
  <2>7. CASE k = "STOP_MEDIA"
    <3>1. ~ player'[fd] /\ (Sounds(fd)' <=> Has(c, Playing))
      BY <1>3, <1>12, <2>2, <2>7
    <3>2. /\ fd \notin crossed' => ~ Has(s, PlayReq) /\ ~ Sounds(fd)'
          /\ NeverAfter(t, PlayReq, EnterReq) <=> NeverAfter(s, PlayReq, EnterReq)
          /\ Has(t, EnterReq) <=> Has(s, EnterReq)
          /\ Has(t, StopReq)
      BY <1>9, <2>4, <2>5, <2>6, <2>7, <3>1
    <3>3. Sounds(fd)' => Sounds(fd)
      BY <1>3, <3>1
    <3>4. NeverAfter(t, PlayReq, EnterReq)
      BY <1>7, <1>12, <3>2
    <3>5. fd \notin crossed' => NeverAfter(t, PlayReq, StopReq)
      <4>1. fd \notin crossed' => ~ Has(t, PlayReq)
        <5>1. m \notin PlayReq
          BY <2>3, <2>7, KindsOfRequest
        <5>2. Has(s \o <<m>>, PlayReq) <=> Has(s, PlayReq) \/ m \in PlayReq
          BY <1>2, <2>3, MoreLemma
        <5> QED BY <2>2, <3>2, <5>1, <5>2
      <4> QED BY <4>1, NoneAfter
    <3>6. at'[fd] \notin Waiting \cup Asking
      BY <1>12 DEF Waiting, Asking
    <3> QED BY <1>7, <1>12, <3>2, <3>3, <3>4, <3>5, <3>6 DEF MenuInv, TalkInv, t
  <2>8. CASE k # "STOP_MEDIA"
    <3>1. Sounds(fd)' <=> Sounds(fd)
      BY <1>3, <1>12, <2>2, <2>8
    <3>2. fd \in crossed' <=> fd \in crossed
      BY <1>9, <1>10, <1>12, <2>5, <2>8
    <3>3. fd \in unforked => fd \in unforked' \/ Sounds(fd)'
      BY <1>12, <1>15, <2>5, <2>8
    <3> QED BY <1>8, <1>12, <2>4, <2>6, <2>8, <3>1, <3>2, <3>3
  <2> QED BY <2>7, <2>8
<1>13. CASE at[fd] = "talk" /\ at'[fd] = "leaving"
  BY <1>13 DEF MenuInv, TalkInv, Waiting, Asking
<1>14. CASE /\ at[fd] \in {"talk", "udp"} /\ at'[fd] \in {"talk", "udp"}
            /\ Keeps(fd) /\ d = c /\ player' = player
  <2>1. t = s /\ (fd \in crossed' <=> fd \in crossed)
    BY <1>9, <1>10, <1>14 DEF Keeps
  <2>2. Sounds(fd)' <=> Sounds(fd)
    BY <1>3, <1>14
  <2>3. fd \in unforked => fd \in unforked' \/ Sounds(fd)'
    BY <1>14, <1>15, <2>1
  <2> HIDE DEF s, c, t, d
  <2> QED BY <1>8, <1>14, <2>1, <2>2, <2>3
<1> QED BY <1>1, <1>4, <1>5, <1>6, <1>11, <1>12, <1>13, <1>14, <1>16 DEF PlayerMoves

(* and for everybody.                                                      *)
LEMMA PlayersUser ==
  ASSUME CoreInv, FlowInv, OwnInv, PlayersInv, NEW fd \in Fds, ByUser(fd)
  PROVE  OwnInv' /\ PlayersInv'
<1>1. User(fd) /\ left' = left
  BY DEF ByUser
<1>2. /\ UserMoves(fd) /\ Stays(fd)
      /\ \A g \in Fds \ {fd} : player'[g] <=> player[g]
      /\ \A g \in Fds \ {fd} : g \in crossed' <=> g \in crossed
      /\ \A g \in Fds \ {fd} : g \in unforked' <=> g \in unforked
  BY <1>1, UserLemma, PlayerLemma, CrossedLemma, UnforkedLemma DEF CoreInv
<1>3. UNCHANGED <<server, userHead, mediaVars>>
  BY <1>1, UserQuiet DEF Quiet
<1>4. (Orphan' <=> Orphan) /\ \A g \in Fds : Plays(g)' <=> Plays(g)
  BY <1>3 DEF Orphan, Plays, mediaVars
<1>5. OwnInv'
  BY <1>1, OwnUser
<1>6. at[fd] \in Waiting \cup Asking \cup Talking
  <2>1. CASE Exit(fd)
    BY <2>1 DEF Exit, Client
  <2> QED BY <1>2, <2>1 DEF UserMoves, Asks, Waiting, Asking, Talking
<1>7. ASSUME Alive, NEW g \in Fds
      PROVE  MenuInv(g)' /\ TalkInv(g)'
  <2>1. MenuInv(g) /\ TalkInv(g)
    BY <1>7 DEF PlayersInv
  <2>2. CASE g = fd
    BY <1>4, <1>6, <1>7, <2>1, <2>2, MenuUser, TalkUser
  <2>3. CASE g # fd
    <3>1. /\ at'[g] = at[g] /\ toServer'[g] = toServer[g] /\ toClient'[g] = toClient[g]
          /\ player'[g] <=> player[g]
          /\ g \in crossed' <=> g \in crossed
          /\ g \in left' <=> g \in left
          /\ g \in unforked' <=> g \in unforked
      BY <1>1, <1>2, <2>3 DEF Stays
    <3> QED BY <1>4, <2>1, <3>1, KeptLemma
  <2> QED BY <2>2, <2>3
<1> QED BY <1>3, <1>5, <1>7 DEF PlayersInv, Alive

-----------------------------------------------------------------------------
(* The server handles a message: what it reads goes, what it writes comes. *)
LEMMA ReadLemma ==
  ASSUME NEW s \in Seq(Request), s # <<>>, NEW t, t = Tail(s)
  PROVE  /\ \A X : Has(s, X) <=> Head(s) \in X \/ Has(t, X)
         /\ \A X, Y : NeverAfter(s, X, Y) <=>
              NeverAfter(t, X, Y) /\ (Head(s) \in X => ~ Has(t, Y))
<1>1. ASSUME NEW X, NEW Y
      PROVE  /\ Has(s, X) <=> Head(s) \in X \/ Has(Tail(s), X)
             /\ NeverAfter(s, X, Y) <=>
                  NeverAfter(Tail(s), X, Y) /\ (Head(s) \in X => ~ Has(Tail(s), Y))
  BY HeadLemma
<1> QED BY <1>1

LEMMA OwnDeliver ==
  ASSUME OwnInv, NEW fd \in Fds, Deliver(fd), MyQQTypeOK, OwnNodes(userHead')
  PROVE  OwnInv'
<1> DEFINE s == toServer[fd]
           t == toServer'[fd]
<1>1. /\ s \in Seq(Request) /\ s # <<>> /\ t = Tail(s)
      /\ \A g \in Fds \ {fd} : toServer'[g] = toServer[g]
      /\ UNCHANGED <<at, player>>
  BY DEF Deliver, MyQQTypeOK, Carry
<1> HIDE DEF s, t
<1>2. Has(s, Foreign(fd)) <=> Head(s) \in Foreign(fd) \/ Has(t, Foreign(fd))
  BY <1>1, ReadLemma
<1>3. ~ Has(t, Foreign(fd))
  BY <1>2 DEF OwnInv, s
<1> QED BY <1>1, <1>3 DEF OwnInv, t

(* The client whose message it is.                                         *)
LEMMA PlayersServed ==
  ASSUME CoreInv, CoreInv', FlowInv, NEW fd \in Fds, ByServer(fd),
         NEW m \in Request, m = Head(toServer[fd]), MediaEffects(fd, m),
         Orphan => Orphan', MenuInv(fd), TalkInv(fd), Alive
  PROVE  MenuInv(fd)' /\ TalkInv(fd)'
<1> DEFINE s == toServer[fd]
           c == toClient[fd]
           t == toServer'[fd]
           d == toClient'[fd]
<1>1. /\ toServer[fd] # <<>> /\ Handle(fd, m) /\ Carry /\ s \in Seq(Request)
      /\ t = Tail(s) /\ at' = at /\ player' = player /\ crossed' = crossed
      /\ unforked' = unforked
  BY DEF ByServer, Deliver, Carry, CoreInv, MyQQTypeOK
<1>2. left' = IF ~ Plays(fd)' THEN left \ {fd}
              ELSE IF m.type = "LOGIN" THEN left \cup {fd} ELSE left
  BY DEF ByServer
<1>3. QueuesInv(fd) /\ OrderInv(fd)
  BY DEF FlowInv
<1>4. /\ m \in InReq <=> m.type = "LOGIN"
      /\ m \in EnterReq <=> m.type \in {"REGIST", "LOGIN"}
      /\ m \in PlayReq <=> m.type = "REQ_MEDIA"
      /\ m \in StopReq <=> m.type = "STOP_MEDIA"
      /\ m \in EndReq <=> m.type \in {"QUIT", "EOF"}
      /\ m \in OutReq <=> m.type \in {"LOGOUT", "UNREGIST"}
  BY KindsOfRequest DEF OutReq
<1>5. /\ Wrote(fd, InReply) => m \in InReq
      /\ Wrote(fd, OutReply) => m \in OutReq
      /\ Wrote(fd, Playing) => m \in PlayReq
  BY <1>1, <1>4, OutputLemma, PlayingLemma
<1>6. /\ \A X : Has(s, X) <=> m \in X \/ Has(t, X)
      /\ \A X, Y : NeverAfter(s, X, Y) <=>
           NeverAfter(t, X, Y) /\ (m \in X => ~ Has(t, Y))
  BY <1>1, ReadLemma
<1>7. ASSUME at[fd] \notin {"none", "gone"}
      PROVE  /\ \A X : Has(d, X) <=> Has(c, X) \/ Wrote(fd, X)
             /\ NeverAfter(d, InReply, Playing) <=>
                  /\ NeverAfter(c, InReply, Playing)
                  /\ Has(c, InReply) => ~ Wrote(fd, Playing)
  <2>1. NeverAfter(TypesOf(sent'[fd]), InReply, Playing)
    BY <1>4, <1>5, NoneAfter DEF Wrote
  <2> QED BY <1>1, <1>7, <2>1, GainLemma DEF CoreInv, ServerInv
<1> DEFINE pl == Plays(fd)
           ql == Plays(fd)'
           un == {"UNREGIST_OK"}
<1>8. /\ m \in StopReq => ~ ql
      /\ pl /\ m \notin EnterReq \cup StopReq \cup EndReq
           => ql \/ (Orphan' /\ Wrote(fd, un))
      /\ ~ pl /\ ql => m \in InReq \/ m \in PlayReq \/ m \in OutReq
      /\ ~ pl /\ ql => m \in InReq \/ Wrote(fd, Playing) \/ Wrote(fd, OutReply)
      /\ Wrote(fd, Playing) => ql
  BY <1>4, <1>5 DEF MediaEffects
<1>9. /\ ql /\ m \in InReq => fd \in left'
      /\ ql /\ m \notin InReq => (fd \in left' <=> fd \in left)
  BY <1>2, <1>4
<1>10. MenuInv(fd)'
  <2> SUFFICES ASSUME at[fd] \in Waiting \cup Asking
               PROVE  MenuInv(fd)'
    BY <1>1 DEF MenuInv
  <2>1. at[fd] \notin {"none", "gone"}
    BY DEF Waiting, Asking
  <2>2. /\ NeverAfter(c, InReply, Playing)
        /\ NeverAfter(s, InReq, PlayReq)
        /\ Has(c, InReply) => ~ Has(s, PlayReq)
        /\ at[fd] = "reoffer" => ~ Has(c, Playing) /\ ~ Has(s, PlayReq)
        /\ at[fd] = "reoffer" \/ Has(c, InReply) => (pl => fd \in left)
    BY DEF MenuInv
  <2>3. at[fd] = "reoffer" \/ Has(c, InReply) => ~ Has(s, OutReq)
    BY <1>3 DEF OrderInv, NoOutAfterIn
  <2> HIDE DEF s, c, t, d, pl, ql, un
  <2>4. NeverAfter(d, InReply, Playing) /\ NeverAfter(t, InReq, PlayReq)
    BY <1>5, <1>6, <1>7, <2>1, <2>2
  <2>5. Has(d, InReply) => ~ Has(t, PlayReq)
    BY <1>5, <1>6, <1>7, <2>1, <2>2
  <2>6. at[fd] = "reoffer" => ~ Has(d, Playing) /\ ~ Has(t, PlayReq)
    BY <1>5, <1>6, <1>7, <2>1, <2>2
  <2>7. at[fd] = "reoffer" \/ Has(d, InReply) => (ql => fd \in left')
    BY <1>5, <1>6, <1>7, <1>8, <1>9, <2>1, <2>2, <2>3
  <2> QED BY <1>1, <2>4, <2>5, <2>6, <2>7 DEF MenuInv, d, t, ql
<1>11. TalkInv(fd)'
  <2> SUFFICES ASSUME at[fd] \in {"talk", "udp"}
               PROVE  TalkInv(fd)'
    BY <1>1 DEF TalkInv
  <2>1. at[fd] \notin {"none", "gone"}
    OBVIOUS
  <2> DEFINE so == Sounds(fd)
             sp == Sounds(fd)'
  <2>2. /\ NeverAfter(s, PlayReq, EnterReq)
        /\ so => ~ Has(s, EnterReq)
        /\ fd \notin crossed =>
             /\ NeverAfter(s, PlayReq, StopReq)
             /\ so => ~ Has(s, StopReq) /\ (pl \/ (Orphan /\ Has(c, un)))
        /\ pl /\ fd \notin left \cup unforked => so \/ Has(s, StopReq) \/ Has(c, OutReply)
    BY DEF TalkInv
  <2>3. ~ Has(s, EndReq)
    BY <1>3 DEF QueuesInv
  <2>4. sp <=> so \/ Wrote(fd, Playing)
    BY <1>1, <1>7, <2>1 DEF Sounds
  <2> HIDE DEF s, c, t, d, pl, ql, un, so, sp
  <2>5. NeverAfter(t, PlayReq, EnterReq) /\ (sp => ~ Has(t, EnterReq))
    BY <1>5, <1>6, <2>2, <2>4
  <2>6. fd \notin crossed =>
          /\ NeverAfter(t, PlayReq, StopReq)
          /\ sp => ~ Has(t, StopReq)
    BY <1>5, <1>6, <2>2, <2>4
  <2>7. ASSUME fd \notin crossed, sp
        PROVE  ql \/ (Orphan' /\ Has(d, un))
    <3>1. CASE Wrote(fd, Playing)
      BY <1>8, <3>1
    <3>2. CASE so
      <4>1. m \notin EnterReq \cup StopReq \cup EndReq
        BY <1>6, <2>2, <2>3, <2>7, <3>2
      <4>2. pl \/ (Orphan /\ Has(c, un))
        BY <2>2, <2>7, <3>2
      <4>3. Has(d, un) <=> Has(c, un) \/ Wrote(fd, un)
        BY <1>7, <2>1
      <4> QED BY <1>8, <4>1, <4>2, <4>3
    <3> QED BY <2>4, <2>7, <3>1, <3>2
  <2>8. ql /\ fd \notin left' \cup unforked => sp \/ Has(t, StopReq) \/ Has(d, OutReply)
    <3> SUFFICES ASSUME ql, fd \notin left' \cup unforked
                 PROVE  sp \/ Has(t, StopReq) \/ Has(d, OutReply)
      OBVIOUS
    <3>1. m \notin InReq /\ fd \notin left \cup unforked /\ m \notin StopReq
      BY <1>8, <1>9
    <3>2. Has(d, OutReply) <=> Has(c, OutReply) \/ Wrote(fd, OutReply)
      BY <1>7, <2>1
    <3>3. Has(s, StopReq) <=> m \in StopReq \/ Has(t, StopReq)
      BY <1>6
    <3>4. CASE pl
      BY <2>2, <2>4, <3>1, <3>2, <3>3, <3>4
    <3>5. CASE ~ pl
      BY <1>8, <2>4, <3>1, <3>2, <3>5
    <3> QED BY <3>4, <3>5
  <2> QED BY <1>1, <2>5, <2>6, <2>7, <2>8 DEF TalkInv, d, t, ql, sp, un
<1> QED BY <1>10, <1>11

(* Everybody, when a message is handled.                                   *)
LEMMA PlayersDeliver ==
  ASSUME PrefixesAreNames, NobodyRenames, OwnNames, CoreInv, CoreInv', FlowInv,
         OwnInv, PlayersInv, NEW fd \in Fds, ByServer(fd)
  PROVE  OwnInv' /\ PlayersInv'
<1> DEFINE m == Head(toServer[fd])
<1> USE DEF CoreInv
<1>1. /\ Deliver(fd) /\ toServer[fd] # <<>> /\ Handle(fd, m) /\ Carry
      /\ toServer' = [toServer EXCEPT ![fd] = Tail(@)]
      /\ m \in Request /\ WellTyped(m) /\ Receive(fd)
  BY FirstLemma, HandleLemma DEF ByServer, Deliver
<1>2. /\ Alive /\ at' = at /\ player' = player /\ crossed' = crossed
      /\ unforked' = unforked
  BY <1>1, ReceiveNet DEF Alive, Carry, ByServer
<1>3. TypeOK /\ TypeOK' /\ MediaCounted /\ OwnNodes(userHead)
  BY DEF ServerInv, OwnInv
<1>4. m \notin Foreign(fd)
  <2>1. toServer[fd] \in Seq(Request) /\ ~ Has(toServer[fd], Foreign(fd))
    BY DEF MyQQTypeOK, OwnInv
  <2> DEFINE s == toServer[fd]
  <2> HIDE DEF s
  <2>2. Has(s, Foreign(fd)) <=> Head(s) \in Foreign(fd) \/ Has(Tail(s), Foreign(fd))
    BY <1>1, <2>1, ReadLemma DEF s
  <2> QED BY <2>1, <2>2 DEF s
<1> HIDE DEF m
<1>5. MediaEffects(fd, m)
  BY <1>1, <1>3, <1>4, MediaEffectsLemma
<1>6. Orphan => Orphan'
  BY <1>1, <1>3, OrphanStep
<1>7. OwnInv'
  BY <1>1, <1>5, OwnDeliver DEF MediaEffects
<1>8. ASSUME NEW g \in Fds
      PROVE  MenuInv(g)' /\ TalkInv(g)'
  <2>1. MenuInv(g) /\ TalkInv(g)
    BY <1>2 DEF PlayersInv
  <2>2. CASE g = fd
    BY <1>1, <1>2, <1>5, <1>6, <2>1, <2>2, PlayersServed DEF m
  <2>3. CASE g # fd
    <3>1. ~ Wrote(g, InReply) /\ ~ Wrote(g, OutReply) /\ ~ Wrote(g, Playing)
      BY <1>1, <2>3, OutputLemma, PlayingLemma
    <3>2. at'[g] = at[g] /\ toServer'[g] = toServer[g] /\ (player'[g] <=> player[g])
      BY <1>1, <1>2, <2>3 DEF MyQQTypeOK
    <3>3. at[g] \notin {"none", "gone"} =>
            /\ Has(toClient'[g], InReply) <=> Has(toClient[g], InReply)
            /\ Has(toClient'[g], OutReply) <=> Has(toClient[g], OutReply)
            /\ Has(toClient'[g], Playing) <=> Has(toClient[g], Playing)
            /\ Has(toClient[g], {"UNREGIST_OK"}) => Has(toClient'[g], {"UNREGIST_OK"})
            /\ NeverAfter(toClient[g], InReply, Playing)
                 => NeverAfter(toClient'[g], InReply, Playing)
      <4>1. NeverAfter(TypesOf(sent'[g]), InReply, Playing)
        BY <3>1, NoneAfter DEF Wrote
      <4> QED BY <1>1, <1>3, <3>1, <4>1, GainLemma
    <3>4. (Plays(g)' <=> Plays(g)) /\ (g \in crossed' <=> g \in crossed)
          /\ (g \in left' <=> g \in left) /\ (g \in unforked' <=> g \in unforked)
      BY <1>2, <1>5, <2>3 DEF MediaEffects, ByServer
    <3> QED BY <1>6, <2>1, <3>2, <3>3, <3>4, KeptLemma
  <2> QED BY <2>2, <2>3
<1> QED BY <1>7, <1>8 DEF PlayersInv

(* The other steps of the server, and those of the other processes.        *)
LEMMA PlayersOther ==
  ASSUME CoreInv, CoreInv', FlowInv, OwnInv, PlayersInv, Processes
  PROVE  OwnInv' /\ PlayersInv'
<1>1. ASSUME UNCHANGED <<myqqVars, auxVars>>
      PROVE  OwnInv' /\ PlayersInv'
  <2>1. UNCHANGED <<at, player, toServer, toClient, userHead, rtsp_client_num, server,
                    crossed, left, unforked>>
    BY <1>1 DEF myqqVars, clientVars, vars, mediaVars, auxVars
  <2>2. OwnInv'
    BY <2>1 DEF OwnInv
  <2>3. PlayersInv'
    BY <2>1 DEF PlayersInv, MenuInv, TalkInv, Sounds, Plays, Orphan, Alive
  <2> QED BY <2>2, <2>3
<1>2. CASE UdpStarts \/ UdpQuits \/ ReceiverDies \/ KillLeftovers
  <2>1. UNCHANGED <<myqqVars, auxVars>>
    BY <1>2 DEF UdpStarts, UdpQuits, ReceiverDies, KillLeftovers
  <2> QED BY <1>1, <2>1
<1>3. CASE FinishHandler /\ UNCHANGED <<udpVars, auxVars>>
  <2>1. /\ Carry /\ UNCHANGED <<toServer, at, player, userHead, rtsp_client_num, server,
                                crossed, left, unforked>>
        /\ server = "up" /\ changing # NoChange
        /\ sent' = Silence \/ sent' = Write(changing.fd, Msg("BROCAST"))
    BY <1>3 DEF FinishHandler, FinishChange, Carry, mediaVars, auxVars
  <2>2. TypeOK /\ TypeOK' /\ MyQQTypeOK /\ Alive
    BY <2>1 DEF CoreInv, ServerInv, Alive
  <2>3. changing.fd \in Fds /\ Msg("BROCAST").type \notin InReply \cup OutReply \cup Playing
    BY <2>1, <2>2, KindsOfReply DEF TypeOK, InReply, OutReply, Playing
  <2>4. OwnInv'
    BY <2>1 DEF OwnInv
  <2>5. ASSUME NEW g \in Fds
        PROVE  MenuInv(g)' /\ TalkInv(g)'
    <3>1. ~ Wrote(g, InReply) /\ ~ Wrote(g, OutReply) /\ ~ Wrote(g, Playing)
      <4>1. CASE sent' = Silence
        BY <4>1, SilentLemma
      <4>2. CASE sent' = Write(changing.fd, Msg("BROCAST"))
        BY <2>3, <4>2, AnsweredLemma
      <4> QED BY <2>1, <4>1, <4>2
    <3>2. at[g] \notin {"none", "gone"} =>
            /\ Has(toClient'[g], InReply) <=> Has(toClient[g], InReply)
            /\ Has(toClient'[g], OutReply) <=> Has(toClient[g], OutReply)
            /\ Has(toClient'[g], Playing) <=> Has(toClient[g], Playing)
            /\ Has(toClient[g], {"UNREGIST_OK"}) => Has(toClient'[g], {"UNREGIST_OK"})
            /\ NeverAfter(toClient[g], InReply, Playing)
                 => NeverAfter(toClient'[g], InReply, Playing)
      <4>1. NeverAfter(TypesOf(sent'[g]), InReply, Playing)
        BY <3>1, NoneAfter DEF Wrote
      <4> QED BY <2>1, <2>2, <3>1, <4>1, GainLemma
    <3>3. MenuInv(g) /\ TalkInv(g)
      BY <2>2 DEF PlayersInv
    <3>4. (Plays(g)' <=> Plays(g)) /\ (Orphan => Orphan')
      BY <2>1 DEF Plays, Orphan
    <3> QED BY <2>1, <3>2, <3>3, <3>4, KeptLemma
  <2> QED BY <2>4, <2>5 DEF PlayersInv
<1>4. CASE Connect /\ UNCHANGED <<udpVars, auxVars>>
  <2>1. /\ conns' \in Fds /\ at' = [at EXCEPT ![conns'] = "menu"] /\ Alive
        /\ at[conns'] = "none"
        /\ UNCHANGED <<toServer, toClient, player, userHead, rtsp_client_num,
                       crossed, left, unforked>>
    BY <1>4, FdAssumption
       DEF Connect, Go, Accept, CoreInv, ServerInv, TypeOK, FreshInv, Fds, Alive,
           mediaVars, auxVars
  <2>2. /\ at'[conns'] = "menu"
        /\ \A g \in Fds \ {conns'} : at'[g] = at[g]
    BY <2>1 DEF CoreInv, MyQQTypeOK
  <2>3. OwnInv'
    BY <2>1, <2>2 DEF OwnInv, Talking
  <2>4. ASSUME NEW g \in Fds \ {conns'}
        PROVE  MenuInv(g)' /\ TalkInv(g)'
    <3>1. MenuInv(g) /\ TalkInv(g)
      BY <2>1 DEF PlayersInv
    <3>2. (Plays(g)' <=> Plays(g)) /\ (Orphan => Orphan')
      BY <2>1 DEF Plays, Orphan
    <3> QED BY <2>1, <2>2, <3>1, <3>2, KeptLemma
  <2>5. ASSUME NEW g \in Fds, g = conns'
        PROVE  MenuInv(g)' /\ TalkInv(g)'
    <3>1. at'[g] = "menu" /\ toServer'[g] = <<>> /\ toClient'[g] = <<>>
      BY <2>1, <2>2, <2>5 DEF FlowInv, QueuesInv
    <3>2. ~ Has(<<>>, InReply) /\ \A X, Y : NeverAfter(<<>>, X, Y)
      BY ShortLemma
    <3> QED BY <3>1, <3>2 DEF MenuInv, TalkInv
  <2> QED BY <2>3, <2>4, <2>5 DEF PlayersInv
<1>5. CASE BootAll
  <2>1. /\ \A g \in Fds : at[g] \in {"none", "gone"} /\ at'[g] = "none"
        /\ UNCHANGED <<toServer, player>>
        /\ LoadUsers
    BY <1>5 DEF BootAll, Boot, Start
  <2>2. OwnNodes(userHead')
    <3>1. \A i \in DOMAIN userHead' : userHead'[i].socketfd = NoFd
      BY <2>1 DEF LoadUsers, NewNode
    <3> QED BY <3>1 DEF OwnNodes
  <2>3. OwnInv'
    BY <2>1, <2>2 DEF OwnInv, Talking
  <2>4. PlayersInv'
    BY <2>1 DEF PlayersInv, MenuInv, TalkInv, Waiting, Asking
  <2> QED BY <2>3, <2>4
<1>6. CASE StopAll
  <2>1. /\ ~ Alive' /\ toServer' = [g \in Fds |-> <<>>] /\ userHead' = <<>>
        /\ UNCHANGED <<at, player>>
    BY <1>6 DEF StopAll, Stop, AcceptFail, Crash, Gone, Alive
  <2>2. \A g \in Fds : ~ Has(toServer'[g], Foreign(g))
    BY <2>1, ShortLemma
  <2>3. OwnNodes(userHead')
    BY <2>1 DEF OwnNodes
  <2> QED BY <2>1, <2>2, <2>3 DEF OwnInv, PlayersInv
<1>7. CASE (SenderFails \/ KillSender) /\ UNCHANGED <<udpVars, auxVars>>
  <2>1. /\ UNCHANGED <<at, player, toServer, userHead, rtsp_client_num, server,
                       crossed, left, unforked>>
        /\ Alive => toClient' = toClient
    BY <1>7, SenderGoneLemma DEF mediaVars, auxVars
  <2>2. OwnInv'
    BY <2>1 DEF OwnInv
  <2>3. PlayersInv'
    BY <2>1 DEF PlayersInv, MenuInv, TalkInv, Sounds, Plays, Orphan, Alive
  <2> QED BY <2>2, <2>3
<1> QED BY <1>2, <1>3, <1>4, <1>5, <1>6, <1>7 DEF Processes

(* All that is known of the players.                                       *)
SoundInv == CoreInv /\ ProcessesInv /\ FlowInv /\ OwnInv /\ PlayersInv

LEMMA SoundStep ==
  ASSUME PrefixesAreNames, NobodyRenames, OwnNames, SoundInv,
         [ProcessesNext]_processVars
  PROVE  SoundInv'
<1>0. CoreInv /\ ProcessesInv /\ FlowInv /\ OwnInv /\ PlayersInv
  BY DEF SoundInv
<1>1. CoreInv' /\ ProcessesInv'
  BY <1>0, CoreKept, ProcessesStep
<1>2. FlowInv'
  <2>1. ASSUME UNCHANGED myqqVars PROVE FlowInv'
    <3>1. UNCHANGED <<at, toServer, toClient, watched, server>>
      BY <2>1 DEF myqqVars, vars, netVars, clientVars
    <3> QED BY <1>0, <3>1 DEF FlowInv, QueuesInv, PlacesInv, OrderInv, NoOutAfterIn,
                        NoInAfterOut, Alive
  <2>2. ASSUME MyQQNext PROVE FlowInv'
    BY <1>0, <1>1, <2>2, FlowStep
  <2> QED BY <2>1, <2>2, ProcessesMove DEF processVars
<1>3. ASSUME NEW fd \in Fds, ByUser(fd)
      PROVE  OwnInv' /\ PlayersInv'
  BY <1>0, <1>3, PlayersUser
<1>4. ASSUME NEW fd \in Fds, ByServer(fd)
      PROVE  OwnInv' /\ PlayersInv'
  BY <1>0, <1>1, <1>4, PlayersDeliver
<1>5. ASSUME Processes
      PROVE  OwnInv' /\ PlayersInv'
  BY <1>0, <1>1, <1>5, PlayersOther
<1>6. ASSUME UNCHANGED processVars
      PROVE  OwnInv' /\ PlayersInv'
  <2>1. UNCHANGED <<at, player, toServer, toClient, userHead, rtsp_client_num, server,
                    crossed, left, unforked>>
    BY <1>6 DEF processVars, myqqVars, clientVars, vars, mediaVars, auxVars
  <2>2. OwnInv'
    BY <1>0, <2>1 DEF OwnInv
  <2>3. PlayersInv'
    BY <1>0, <2>1 DEF PlayersInv, MenuInv, TalkInv, Sounds, Plays, Orphan, Alive
  <2> QED BY <2>2, <2>3
<1>7. OwnInv' /\ PlayersInv'
  BY <1>3, <1>4, <1>5, <1>6 DEF ProcessesNext
<1> QED BY <1>1, <1>2, <1>7 DEF SoundInv

LEMMA SoundInvariant ==
  ASSUME PrefixesAreNames, NobodyRenames, OwnNames
  PROVE  ProcessesSpec => []SoundInv
<1>1. ProcessesInit => SoundInv
  <2> SUFFICES ASSUME ProcessesInit PROVE SoundInv
    OBVIOUS
  <2>1. CoreInv
    BY CoreInvInit DEF ProcessesInit
  <2>2. ProcessesInv
    BY DEF ProcessesInit, MyQQInit, Init, ProcessesInv, BootInv, SenderInv, Alive
  <2>3. /\ \A g \in Fds : at[g] = "none" /\ toServer[g] = <<>> /\ toClient[g] = <<>>
        /\ \A g \in Fds : ~ player[g]
        /\ userHead = <<>> /\ ~ Alive
    BY DEF ProcessesInit, MyQQInit, Init, Alive
  <2>4. FlowInv
    BY <2>3, ShortLemma DEF FlowInv, QueuesInv
  <2>5. OwnInv
    <3>1. OwnNodes(userHead)
      BY <2>3 DEF OwnNodes
    <3> QED BY <2>3, <3>1, ShortLemma DEF OwnInv
  <2> QED BY <2>1, <2>2, <2>3, <2>4, <2>5 DEF SoundInv, PlayersInv
<1>2. SoundInv /\ [ProcessesNext]_processVars => SoundInv'
  BY SoundStep
<1> QED BY <1>1, <1>2, PTL DEF ProcessesSpec

(* While users keep to names of their own, none of which is a prefix of    *)
(* another, the server kills no media sender while a client plays from it, *)
(* but for the clients that stopped before they had the answer to their    *)
(* request: every stop that is counted is the stop of one who was counted. *)
(* What is left without a sender then is left by one that could not attach *)
(* to its port: the server still has its process id.                       *)
THEOREM PlayersKeepSender ==
  ASSUME PrefixesAreNames, NobodyRenames, OwnNames
  PROVE  ProcessesSpec => []PlayersHaveSender
<1>1. SoundInv => PlayersHaveSender
  <2> SUFFICES ASSUME SoundInv, NEW fd \in Fds, Alive, player[fd], fd \notin crossed,
                      at[fd] # "leaving"
               PROVE  heirs # {} \/ SenderFailed
    BY DEF PlayersHaveSender
  <2>1. at[fd] \in {"talk", "udp"} /\ TalkInv(fd) /\ Sounds(fd)
    BY DEF SoundInv, OwnInv, PlayersInv, Talking, Sounds
  <2>2. Plays(fd) \/ Orphan
    BY <2>1 DEF TalkInv
  <2>3. /\ userHead \in Seq(Node) /\ rtsp_client_num \in Int
        /\ Players(userHead) \in Nat /\ IsFiniteSet(PlayingAt(userHead))
        /\ Players(userHead) <= rtsp_client_num
        /\ rtsp_server_pid = Pid <=> rtsp_client_num > 0
    BY PlayersType DEF SoundInv, CoreInv, ServerInv, TypeOK, MediaCounted, Players
  <2>4. Plays(fd) => Players(userHead) > 0
    <3>1. Plays(fd) => PlayingAt(userHead) # {}
      BY DEF Plays, PlayingAt
    <3>2. Players(userHead) = 0 <=> PlayingAt(userHead) = {}
      BY <2>3, FS_EmptySet DEF Players
    <3> QED BY <2>3, <3>1, <3>2
  <2>5. rtsp_server_pid = Pid
    BY <2>2, <2>3, <2>4 DEF Orphan
  <2> QED BY <2>5 DEF SoundInv, ProcessesInv, SenderInv, SenderFailed
<1>2. ProcessesSpec => []SoundInv
  BY SoundInvariant
<1> QED BY <1>1, <1>2, PTL

(* With nothing under way, the client and the server agree on whether he   *)
(* plays, but for a stop that crossed an answer, for a node that still     *)
(* played when he logged in, and for a receiver that could not be forked.  *)
(* Users keep to names of their own, none of which is a prefix of another, *)
(* and do not rename themselves.                                           *)
THEOREM PlayersAreCounted ==
  ASSUME PrefixesAreNames, NobodyRenames, OwnNames
  PROVE  ProcessesSpec => []PlayerIsCounted
<1>1. SoundInv => PlayerIsCounted
  <2> SUFFICES ASSUME SoundInv, server = "up", NEW fd \in Fds, at[fd] = "talk",
                      toServer[fd] = <<>>, toClient[fd] = <<>>
               PROVE  \/ player[fd] <=> Plays(fd)
                      \/ IF player[fd] THEN fd \in crossed ELSE fd \in left \cup unforked
    BY DEF PlayerIsCounted
  <2>1. /\ \A X : ~ Has(toServer[fd], X)
        /\ \A X : ~ Has(toClient[fd], X)
    BY ShortLemma
  <2>2. TalkInv(fd)
    BY DEF SoundInv, PlayersInv, Alive
  <2>3. Sounds(fd) <=> player[fd]
    BY <2>1 DEF Sounds
  <2> QED BY <2>1, <2>2, <2>3 DEF TalkInv
<1>2. ProcessesSpec => []SoundInv
  BY SoundInvariant
<1> QED BY <1>1, <1>2, PTL
=============================================================================
