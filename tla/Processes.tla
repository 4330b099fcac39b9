----------------------------- MODULE Processes -----------------------------
(***************************************************************************)
(* The processes around MyQQ, and what each knows of the ones it started.  *)
(* The server forks the media sender (heirs in MyQQ) and, when it starts,  *)
(* the UDP chat server, which forks in turn: its parent process, the only  *)
(* one the TCP server knows, and its receiver.  Each client forks a media  *)
(* receiver (player in MyQQ).  All children of the server hold the socket  *)
(* it listens on.                                                          *)
(*                                                                         *)
(* What the UDP server does with datagrams is in UdpChat.                  *)
(***************************************************************************)
EXTENDS MyQQ

VARIABLES
  parent,    \* udpServerPid: not there, not yet bound, or waiting for a
             \* line of its operator
  receiver,  \* the receiver of the UDP server lives
  crossed,   \* auxiliary: the clients that stopped playing while a request
             \* to play, or the answer to one, was under way
  left,      \* auxiliary: the clients that have logged in to a node which
             \* was counted as playing already
  unforked   \* auxiliary: the clients that were told to play, and could not
             \* fork a receiver

udpVars == <<parent, receiver>>
auxVars == <<crossed, left, unforked>>
processVars == <<myqqVars, udpVars, auxVars>>

ProcessesTypeOK ==
  /\ MyQQTypeOK
  /\ parent \in {"none", "booting", "up"}
  /\ receiver \in BOOLEAN
  /\ crossed \subseteq Fds /\ left \subseteq Fds /\ unforked \subseteq Fds

-----------------------------------------------------------------------------
(* Mutant of ListenFree: whoever else listens does not matter.             *)
ListenAnyway == TRUE
(* bind of the port 3333: SO_REUSEADDR does not let two sockets listen on  *)
(* it, and every child of the server has inherited the one that does.      *)
ListenFree == parent = "none" /\ ~ receiver /\ heirs = {}

(* The server starts and forks the UDP server.                             *)
BootAll ==
  /\ ListenFree
  /\ Boot
  /\ parent' \in {"booting"} \cup (IF "fork" \in Faults THEN {"none"} ELSE {})
  /\ UNCHANGED receiver
  /\ crossed' = {} /\ left' = {} /\ unforked' = {}

(* The UDP server reads serverIp.txt, binds the port 8888 and forks; when  *)
(* one of them fails it exits.                                             *)
UdpStarts ==
  /\ parent = "booting"
  /\ \/ ~ receiver /\ parent' = "up" /\ receiver' = TRUE
     \/ /\ receiver \/ "udp" \in Faults
        /\ parent' = "none" /\ UNCHANGED receiver
  /\ UNCHANGED <<myqqVars, auxVars>>

(* SERVER_QUIT goes to the receiver, and SIGKILL after it.  Either the     *)
(* receiver dies, or it was faster and has killed its parent, which will   *)
(* not kill it any more.                                                   *)
QuitRace == receiver' \in {FALSE, receiver}

(* The operator of the UDP server types "quit".                            *)
UdpQuits ==
  /\ parent = "up" /\ parent' = "none"
  /\ QuitRace
  /\ UNCHANGED <<myqqVars, auxVars>>

(* The receiver crashes or exits (UdpChat says when), and nobody notices.  *)
ReceiverDies ==
  /\ receiver /\ receiver' = FALSE
  /\ UNCHANGED <<myqqVars, parent, auxVars>>

(* accept fails: the server kills the process it knows; or it is killed    *)
(* itself, alone or with all its children by a signal from the keyboard.   *)
StopAll ==
  /\ Stop
  /\ \/ server' = "exited" /\ parent' = "none" /\ UNCHANGED receiver
     \/ server' = "off" /\ heirs' = heirs /\ UNCHANGED udpVars
     \/ server' = "off" /\ heirs' = {} /\ parent' = "none" /\ receiver' = FALSE
  /\ UNCHANGED auxVars

(* Somebody kills what is left of a run.                                   *)
KillLeftovers ==
  /\ ~ Alive /\ (parent # "none" \/ receiver)
  /\ parent' = "none" /\ receiver' = FALSE
  /\ UNCHANGED <<myqqVars, auxVars>>

-----------------------------------------------------------------------------
(* The auxiliary variables.                                                *)
Plays(fd) == \E i \in DOMAIN userHead :
               findNodeBySocketID(userHead, fd, i) /\ userHead[i].rtspPlayFlag = YES
AskedToPlay(fd) ==
  \/ \E i \in DOMAIN toServer[fd] : toServer[fd][i].type = "REQ_MEDIA"
  \/ "MEDIA_PLAYING" \in Range(toClient[fd])
Stops(fd) ==
  /\ Len(toServer'[fd]) > Len(toServer[fd])
  /\ Last(toServer'[fd]).type \in {"STOP_MEDIA", "QUIT"}
Returns(fd) == at[fd] \in Talking /\ at'[fd] \in {"menu", "gone"}
(* A talking client reads that it may play, and does not.                  *)
CannotFork(fd) ==
  /\ at[fd] = "talk" /\ toClient[fd] # <<>> /\ Head(toClient[fd]) = "MEDIA_PLAYING"
  /\ toClient'[fd] # toClient[fd] /\ at'[fd] = "talk" /\ ~ player'[fd]

ByUser(fd) ==
  /\ User(fd)
  /\ crossed' = IF Stops(fd) /\ AskedToPlay(fd) THEN crossed \cup {fd}
                ELSE IF Stops(fd) \/ Returns(fd) THEN crossed \ {fd} ELSE crossed
  /\ unforked' = IF CannotFork(fd) THEN unforked \cup {fd}
                 ELSE IF Stops(fd) \/ Returns(fd) \/ player'[fd]
                 THEN unforked \ {fd} ELSE unforked
  /\ UNCHANGED <<udpVars, left>>

ByServer(fd) ==
  /\ Deliver(fd)
  /\ left' = IF ~ Plays(fd)' THEN left \ {fd}
             ELSE IF Head(toServer[fd]).type = "LOGIN" THEN left \cup {fd}
             ELSE left
  /\ UNCHANGED <<udpVars, crossed, unforked>>

Processes ==
  \/ UdpStarts \/ UdpQuits \/ ReceiverDies
  \/ BootAll \/ StopAll \/ KillLeftovers
  \/ /\ Connect \/ FinishHandler \/ SenderFails \/ KillSender
     /\ UNCHANGED <<udpVars, auxVars>>

ProcessesInit ==
  /\ MyQQInit
  /\ parent = "none" /\ receiver = FALSE
  /\ crossed = {} /\ left = {} /\ unforked = {}

ProcessesNext ==
  \/ \E fd \in Fds : ByUser(fd) \/ ByServer(fd)
  \/ Processes

ProcessesSpec == ProcessesInit /\ [][ProcessesNext]_processVars

-----------------------------------------------------------------------------
(* No process starts on a port that one of an earlier run still holds: a   *)
(* UDP server does not meet the receiver of another one on the port 8888,  *)
(* nor a media sender another sender on its port, although nobody kills    *)
(* them when the server ends.  What keeps them apart is the listening      *)
(* socket they inherited by accident.                                      *)
PortsAreFree ==
  [][/\ parent' = "booting" => ~ receiver'
     /\ rtsp_server_pid = NoPid /\ rtsp_server_pid' = Pid => heirs = {}]_processVars

(* A sender has ended by itself, and the server does not know.             *)
SenderFailed == "attach" \in Faults /\ rtsp_server_pid = Pid /\ heirs = {}

(* While the server runs, a client that has started a media receiver has a *)
(* media sender to play from: the server does not kill it because somebody *)
(* else's stop was counted for his own.  The exceptions are a sender that  *)
(* has ended by itself, on which the server goes on counting; a client     *)
(* that stopped before it had the answer to its request, which starts a    *)
(* receiver for nothing; one that is about to end, or to read that it is   *)
(* logged out, when another user may already have taken its node and       *)
(* stopped; one that talks without having logged in; and one whose         *)
(* connection was the descriptor of several nodes.                         *)
PlayersHaveSender ==
  \A fd \in Fds : Alive /\ player[fd] =>
    \/ heirs # {} \/ SenderFailed
    \/ fd \in crossed \/ at[fd] = "leaving"
    \/ "LOGOUT_OK" \in Range(toClient[fd])
    \/ fd \in astray \cup shared

(* Once nothing is under way between a client that talks and the server,   *)
(* the one has a receiver exactly when the other counts him as playing,    *)
(* although each changes its side before it hears of the other's.  The     *)
(* exceptions are a stop that crossed an answer; a node that was still     *)
(* counted as playing when he logged in, for which a request to play is    *)
(* not answered; a receiver that could not be forked, of which the server  *)
(* is not told; and the clients without a login or with a shared           *)
(* descriptor, as above.                                                   *)
PlayerIsCounted ==
  server = "up" =>
    \A fd \in Fds : at[fd] = "talk" /\ toServer[fd] = <<>> /\ toClient[fd] = <<>> =>
      \/ player[fd] <=> Plays(fd)
      \/ IF player[fd] THEN fd \in crossed ELSE fd \in left \cup unforked
      \/ fd \in astray \cup shared

(* "so that the server can be started again right after it breaks off"     *)
(* (server.c:558, on SO_REUSEADDR): after the server has exited, nothing   *)
(* is in the way of the next one.                                          *)
RestartsAtOnce == server = "exited" => ListenFree
=============================================================================
