-------------------------------- MODULE MyQQ --------------------------------
(***************************************************************************)
(* The server (Server) and the interactive clients of user.c that connect  *)
(* to it, one per connection, over TCP: each direction of a connection is  *)
(* a queue.  A client first offers a menu (register, log in), waits for    *)
(* the answer with a plain read, and once logged in talks: commands go out *)
(* without waiting, and what comes in is read between two commands.        *)
(*                                                                         *)
(* The media sender is forked with all descriptors of the server and keeps *)
(* them open: when the server ends before it, the connections accepted by  *)
(* then do not end.  Otherwise the clients read the end of the stream; the *)
(* server starts again when they are all gone.                             *)
(***************************************************************************)
EXTENDS Server

CONSTANTS
  Types,      \* Types[fd]: the names and passwords the user at fd registers
              \* and logs in with
  NewNames,   \* the names users ask for when they rename themselves
  NewPasswords, \* and the passwords they change theirs to
  Uses,       \* Uses[fd]: the commands the user at fd gives; "UDP" is the
              \* chat over UDP, in which the server has no part
  Chances,    \* how often UserLogin asks
  MaxQueue    \* bound of the model: messages under way in one direction

ASSUME ClientAssumption ==
  /\ Types \in [Fds -> SUBSET (Names \X Passwords)]
  /\ Uses \in [Fds -> SUBSET {"REQ_OL", "SEARCH", "CHAT", "UNREGIST", "LOGOUT",
                              "REQ_MEDIA", "STOP_MEDIA", "RENAME", "CHG_PW",
                              "UDP"}]
  /\ NewNames \subseteq Names /\ NewPasswords \subseteq Passwords
  /\ Chances \in Nat \ {0} /\ MaxQueue \in Nat \ {0}

VARIABLES
  at,        \* where each client is
  tries,     \* in UserLogin: the chances left
  astray,    \* auxiliary: the clients that talk without having logged in
  player,    \* rtspClientPid: the client has started a media receiver, and
             \* does not ask whether it still runs
  heirs,     \* the connections that the media sender inherited and holds open;
             \* it lives as long as there are any, whatever rtsp_server_pid
             \* says
  toServer,  \* messages under way to the server
  toClient   \* messages under way to the client, by their type

clientVars == <<at, tries, astray, player, heirs, toServer, toClient>>
myqqVars == <<vars, clientVars>>

(* The places of a client.  "login" waits for the answer to a login from   *)
(* the menu, "relogin" for one that follows a registration of a name that  *)
(* exists; "offer" and "reoffer" ask whether to register instead, "again"  *)
(* and "reagain" ask for name and password once more.  One that talks may  *)
(* wait for the end of its UDP client ("udp") or, having said that it      *)
(* quits, sleep before it closes the connection ("leaving").               *)
Waiting == {"regist", "login", "relogin"}
Asking == {"menu", "exist", "offer", "reoffer", "again", "reagain"}
Talking == {"talk", "udp", "leaving"}
Places == {"none", "gone"} \cup Talking \cup Waiting \cup Asking

Request == [type : (UNION Range(Uses)) \cup
                   {"REGIST", "LOGIN", "REQ_OL", "STOP_MEDIA", "QUIT", "EOF"},
            name : Names \cup {None}, pw : Passwords \cup {None}]
Req(type) == [type |-> type, name |-> None, pw |-> None]
WithAccount(type, typed) == [type |-> type, name |-> typed[1], pw |-> typed[2]]

MyQQTypeOK ==
  /\ at \in [Fds -> Places]
  /\ tries \in [Fds -> 0..Chances]
  /\ astray \subseteq {fd \in Fds : at[fd] \in Talking}
  /\ player \in [Fds -> BOOLEAN]
  /\ heirs \subseteq Fds
  /\ toServer \in [Fds -> Seq(Request)]
  /\ toClient \in [Fds -> Seq(ReplyTypes \cup {"EOF"})]

-----------------------------------------------------------------------------
(* A client acts: the server does not.                                     *)
Client(fd, places) ==
  /\ at[fd] \in places
  /\ sent' = Silence
  /\ UNCHANGED <<server, dbVars, userHead, netVars, mediaVars, shared, heirs>>

Go(fd, place) == at' = [at EXCEPT ![fd] = place]
(* What is written to a server that is gone is lost.                       *)
Alive == server \in {"up", "hung"}
Send(fd, msgs) ==
  toServer' = IF Alive THEN [toServer EXCEPT ![fd] = @ \o msgs] ELSE toServer
CanSend(fd) == Len(toServer[fd]) < MaxQueue
(* Mutant of StopPlayer: the receiver is not killed.                       *)
StopPlayerNot(fd) == UNCHANGED player
(* closeChildProcess.                                                      *)
StopPlayer(fd) == player' = [player EXCEPT ![fd] = FALSE]

(* The process ends, by its own exit, by the alarm that fires when nobody  *)
(* logs in, or killed: the server reads the end of the stream.             *)
Exit(fd) ==
  /\ Client(fd, Waiting \cup Asking \cup Talking)
  /\ Go(fd, "gone") /\ astray' = astray \ {fd}
  /\ Send(fd, <<Req("EOF")>>)
  /\ toClient' = [toClient EXCEPT ![fd] = <<>>]
  /\ StopPlayer(fd)
  /\ tries' = [tries EXCEPT ![fd] = 0]

(* getCommand1, 'r': UserRegister sends a name and a password.             *)
AskRegister(fd) ==
  /\ Client(fd, {"menu"}) /\ CanSend(fd)
  /\ \E typed \in Types[fd] : Send(fd, <<WithAccount("REGIST", typed)>>)
  /\ Go(fd, "regist")
  /\ UNCHANGED <<tries, astray, player, toClient>>

(* UserLogin: from the menu ('l') or after a registration that met an      *)
(* existing name, each with all its chances; or one more of them.          *)
(* Mutant of ChancesLeft: the chances of the last time are not renewed.    *)
ChancesKept(fd) == tries[fd]
ChancesLeft(fd) == IF at[fd] \in {"menu", "exist"} THEN Chances ELSE tries[fd]

AskLogin(fd) ==
  /\ Client(fd, {"menu", "exist", "again", "reagain"}) /\ CanSend(fd)
  /\ \E typed \in Types[fd] : Send(fd, <<WithAccount("LOGIN", typed)>>)
  /\ Go(fd, IF at[fd] \in {"menu", "again"} THEN "login" ELSE "relogin")
  /\ tries' = [tries EXCEPT ![fd] = ChancesLeft(fd) - 1]
  /\ UNCHANGED <<astray, player, toClient>>

(* The answers to the questions of the menu.  In the registration branch   *)
(* getCommand1 takes every outcome of UserLogin but -1 for a login, the    *)
(* wish to register another name (RES_GO_REGIST) included.                 *)
EnterTalk(fd) ==
  Go(fd, "talk") /\ Send(fd, <<Req("REQ_OL")>>)

Decide(fd) ==
  /\ Client(fd, {"exist", "offer", "reoffer"})
  /\ \/ /\ at[fd] \in {"exist", "offer"}
        /\ Go(fd, "menu") /\ UNCHANGED <<toServer, astray>>
     \/ at[fd] = "reoffer" /\ EnterTalk(fd) /\ astray' = astray \cup {fd}
     \/ /\ at[fd] \in {"offer", "reoffer"} /\ tries[fd] > 0
        /\ Go(fd, IF at[fd] = "offer" THEN "again" ELSE "reagain")
        /\ UNCHANGED <<toServer, astray>>
  /\ UNCHANGED <<tries, player, toClient>>

(* UserRegister and UserLogin take the next message, whatever it is, for   *)
(* the answer; the end of the stream, which no read takes away, reads as a *)
(* message of another type.                                                *)
Take(fd) ==
  toClient' = [toClient EXCEPT ![fd] = IF @ = <<"EOF">> THEN @ ELSE Tail(@)]

ReadRegister(fd) ==
  /\ Client(fd, {"regist"}) /\ toClient[fd] # <<>>
  /\ LET m == Head(toClient[fd]) IN
     \/ /\ m = "REGIST_OK"
        /\ Go(fd, "menu") /\ Take(fd)
        /\ UNCHANGED <<toServer, tries, astray, player>>
     \/ /\ m = "EXIST"
        /\ Go(fd, "exist") /\ Take(fd)
        /\ UNCHANGED <<toServer, tries, astray, player>>
     \/ m \notin {"REGIST_OK", "EXIST"} /\ Exit(fd)

ReadLogin(fd) ==
  /\ Client(fd, {"login", "relogin"}) /\ toClient[fd] # <<>>
  /\ LET m == Head(toClient[fd])
         first == at[fd] = "login"
     IN
     \/ /\ m = "LOGIN_OK"
        /\ EnterTalk(fd) /\ Take(fd) /\ UNCHANGED <<tries, astray, player>>
     \/ /\ m = "UN_EXIST"
        /\ Go(fd, IF first THEN "offer" ELSE "reoffer")
        /\ Take(fd) /\ UNCHANGED <<toServer, tries, astray, player>>
     \/ /\ m \notin {"LOGIN_OK", "UN_EXIST"} /\ tries[fd] > 0
        /\ Go(fd, IF first THEN "again" ELSE "reagain")
        /\ Take(fd) /\ UNCHANGED <<toServer, tries, astray, player>>
     \/ m \notin {"LOGIN_OK", "UN_EXIST"} /\ tries[fd] = 0 /\ Exit(fd)

(* talkingWithServer: a command, or a line of text for the server.  The    *)
(* player is stopped before the server has heard of it.                    *)
Payload(t) ==
  CASE t = "RENAME" -> {[Req(t) EXCEPT !.name = n] : n \in NewNames}
    [] t = "CHG_PW" -> {[Req(t) EXCEPT !.pw = p] : p \in NewPasswords}
    [] OTHER -> {Req(t)}

Command(fd) ==
  /\ Client(fd, {"talk"}) /\ CanSend(fd)
  /\ \E t \in Uses[fd] \ {"UDP"} :
       /\ \E m \in Payload(t) : Send(fd, <<m>>)
       /\ IF t = "STOP_MEDIA" THEN StopPlayer(fd) ELSE UNCHANGED player
  /\ UNCHANGED <<at, tries, astray, toClient>>

(* startTalkToOtherUsers: the client waits until its UDP client has ended, *)
(* and reads neither the connection nor a command while it waits.          *)
TalkToOthers(fd) ==
  /\ "UDP" \in Uses[fd]
  /\ \/ Client(fd, {"talk"}) /\ Go(fd, "udp")
     \/ Client(fd, {"udp"}) /\ Go(fd, "talk")
  /\ UNCHANGED <<tries, astray, player, toServer, toClient>>

(* "quit": the server is told; two seconds later the connection is closed, *)
(* the player is stopped, and the process ends (Exit).                     *)
QuitTalk(fd) ==
  /\ Client(fd, {"talk"}) /\ CanSend(fd)
  /\ Send(fd, <<Req("STOP_MEDIA"), Req("QUIT")>>)
  /\ Go(fd, "leaving")
  /\ UNCHANGED <<tries, astray, player, toClient>>

(* handleMessage of the client, and what follows it in the loop.  A fork   *)
(* that fails leaves rtspClientPid as it was, and the server is not told.  *)
ReadTalk(fd) ==
  /\ Client(fd, {"talk"}) /\ toClient[fd] # <<>>
  /\ LET m == Head(toClient[fd]) IN
     \/ m = "EOF" /\ Exit(fd)
     \/ /\ m \in {"LOGOUT_OK", "UNREGIST_OK"}
        /\ Go(fd, "menu") /\ Take(fd) /\ StopPlayer(fd)
        /\ astray' = astray \ {fd}
        /\ UNCHANGED <<tries, toServer>>
     \/ /\ m = "MEDIA_PLAYING"
        /\ \/ player' = [player EXCEPT ![fd] = TRUE]
           \/ "fork" \in Faults /\ ~ player[fd] /\ UNCHANGED player
        /\ Take(fd) /\ UNCHANGED <<at, tries, astray, toServer>>
     \/ /\ m \notin {"EOF", "LOGOUT_OK", "UNREGIST_OK", "MEDIA_PLAYING"}
        /\ Take(fd) /\ UNCHANGED <<at, tries, astray, player, toServer>>

-----------------------------------------------------------------------------
(* The handler for the message m from fd.                                  *)
NeedsNode(t) == t \notin {"REGIST", "LOGIN", "QUIT", "EOF"}

Handle(fd, m) ==
  \/ m.type = "REGIST" /\ Register(fd, m.name, m.pw)
  \/ m.type = "LOGIN" /\ Login(fd, m.name, m.pw)
  \/ m.type \in {"QUIT", "EOF"} /\ Quit(fd)
  \/ /\ NeedsNode(m.type)
     /\ \/ NoNodeBySocketID(userHead, fd) \/ m.type = "CHAT"
     /\ Discard(fd)
  \/ m.type \in {"REQ_OL", "SEARCH"} /\ ReqUsers(fd)
  \/ m.type = "RENAME" /\ Rename(fd, m.name)
  \/ m.type = "CHG_PW" /\ ChangePassward(fd, m.pw)
  \/ m.type = "UNREGIST" /\ Unregister(fd)
  \/ m.type = "LOGOUT" /\ Logout(fd)
  \/ m.type = "REQ_MEDIA" /\ ReqMedia(fd)
  \/ m.type = "STOP_MEDIA" /\ StopMedia(fd)

(* What the server writes is under way, unless nobody is there to read it. *)
(* A sender that is forked inherits all connections there are, the ended   *)
(* ones, which are not closed, included.                                   *)
Room == \A g \in Fds : Len(toClient[g]) <= MaxQueue
Carry ==
  /\ toClient' = [g \in Fds |->
       IF at[g] \in {"none", "gone"} THEN <<>>
       ELSE toClient[g] \o [i \in DOMAIN sent'[g] |-> sent'[g][i].type]]
  /\ heirs' = IF rtsp_server_pid' = NoPid THEN {}
              ELSE IF rtsp_server_pid = NoPid THEN 1..conns ELSE heirs
  /\ Remember
  /\ UNCHANGED <<at, tries, astray, player>>

(* epollProcess reads one message of a connection that is ready.           *)
Deliver(fd) ==
  /\ toServer[fd] # <<>> /\ Room
  /\ Handle(fd, Head(toServer[fd]))
  /\ toServer' = [toServer EXCEPT ![fd] = Tail(@)]
  /\ Carry

FinishHandler == FinishChange /\ Room /\ Carry /\ UNCHANGED toServer

(* A client starts and is accepted.                                        *)
Connect ==
  /\ Accept /\ Remember
  /\ Go(conns', "menu")
  /\ UNCHANGED <<tries, astray, player, heirs, toServer, toClient>>

(* The server starts.  A sender of an earlier run has also inherited the   *)
(* socket that listens: bind would fail.                                   *)
Boot ==
  /\ \A g \in Fds : at[g] \in {"none", "gone"}
  /\ heirs = {}
  /\ Start /\ Remember
  /\ at' = [g \in Fds |-> "none"]
  /\ UNCHANGED <<tries, astray, player, heirs, toServer, toClient>>

(* The connections end that nobody but the server held open.               *)
End(ended) ==
  toClient' = [g \in Fds |-> IF at[g] \in {"none", "gone"} THEN <<>>
                             ELSE IF g \in ended THEN Append(toClient[g], "EOF")
                             ELSE toClient[g]]

(* The server ends without a word to the sender, or with it, when it was a *)
(* signal from the keyboard.                                               *)
Stop ==
  /\ \/ AcceptFail /\ UNCHANGED heirs
     \/ Crash /\ heirs' \in {heirs, {}}
  /\ Remember
  /\ toServer' = [g \in Fds |-> <<>>]
  /\ End(Fds \ heirs')
  /\ UNCHANGED <<at, tries, astray, player>>

(* The media sender ends.  A server that runs does not notice: it keeps    *)
(* the process id, and answers requests to play as before.                 *)
SenderGone ==
  /\ heirs # {} /\ heirs' = {}
  /\ IF Alive THEN UNCHANGED toClient ELSE End(heirs)
  /\ sent' = Silence
  /\ UNCHANGED <<server, dbVars, userHead, netVars, mediaVars, shared,
                 at, tries, astray, player, toServer>>

(* By itself, when it cannot attach to its port: sooner or later, because  *)
(* the server does not wait until it has got so far.                       *)
SenderFails == "attach" \in Faults /\ SenderGone

(* Or because somebody looks for what is left of the run that ended, and   *)
(* kills it.                                                               *)
KillSender == ~ Alive /\ SenderGone

-----------------------------------------------------------------------------
MyQQInit ==
  /\ Init
  /\ at = [g \in Fds |-> "none"]
  /\ tries = [g \in Fds |-> 0]
  /\ astray = {} /\ heirs = {}
  /\ player = [g \in Fds |-> FALSE]
  /\ toServer = [g \in Fds |-> <<>>]
  /\ toClient = [g \in Fds |-> <<>>]

Read(fd) == ReadRegister(fd) \/ ReadLogin(fd) \/ ReadTalk(fd)

User(fd) ==
  \/ AskRegister(fd) \/ AskLogin(fd) \/ Decide(fd)
  \/ Read(fd)
  \/ Command(fd) \/ QuitTalk(fd) \/ TalkToOthers(fd)
  \/ Exit(fd)

MyQQNext ==
  \/ \E fd \in Fds : User(fd) \/ Deliver(fd)
  \/ FinishHandler
  \/ Connect \/ Boot \/ Stop \/ SenderFails \/ KillSender

MyQQSpec == MyQQInit /\ [][MyQQNext]_myqqVars

(* epoll is level-triggered and every round serves all the descriptors     *)
(* that are ready, so a message that waits is handled although the         *)
(* messages of others keep coming; a handler runs to its end; a client     *)
(* that waits for an answer sits in read.  Nobody has to type anything.    *)
Fairness ==
  /\ \A fd \in Fds : SF_myqqVars(Deliver(fd))
  /\ WF_myqqVars(FinishHandler)
  /\ \A fd \in Fds : WF_myqqVars(ReadRegister(fd) \/ ReadLogin(fd))

FairSpec == MyQQSpec /\ Fairness

-----------------------------------------------------------------------------
(* Whoever the server shows online has a client that talks, or that is     *)
(* about to read that it is logged in, or whose end the server is about to *)
(* read: nobody stays online after his client ended or went back to the    *)
(* menu, unless the connection was the descriptor of several nodes.  (With *)
(* names nobody takes from another: see RenamedInTable for what happens    *)
(* when users rename themselves to names that exist.)                      *)
Served(fd) ==
  \/ at[fd] \in Talking
  \/ "LOGIN_OK" \in Range(toClient[fd])
  \/ /\ fd \in watched
     /\ \E i \in DOMAIN toServer[fd] : toServer[fd][i].type \in {"QUIT", "EOF"}
OnlineIsServed ==
  \A i \in OnlineAt(userHead) :
    userHead[i].socketfd \in shared \/ Served(userHead[i].socketfd)

(* Between two handlers the list in memory holds the names of the table    *)
(* and no other, each once, through registrations, removals, changes of    *)
(* passwords, crashes and restarts: the two are written one after the      *)
(* other, by name, and nothing ever compares them.  (When no name is a     *)
(* prefix of another, nobody takes another's name, and the insert of a     *)
(* change of password does not fail: each of these parts the two for good. *)
(* Deletions may fail, and the server may crash between the two writes.)   *)
ListIsTable ==
  server = "up" /\ changing = NoChange =>
    /\ NamesAt(userHead, DOMAIN userHead) = {r.name : r \in table}
    /\ Len(userHead) = Cardinality({r.name : r \in table})

(* A client that talks has an account online at its connection, or an      *)
(* answer under way that will send it back to the menu, although nothing   *)
(* but the order of the messages keeps the two in step.  The exception is  *)
(* the client that wanted to register another name at the login after a    *)
(* registration: getCommand1 takes that wish for a login.                  *)
OnlineAs(fd) == {userHead[i].userId : i \in {j \in OnlineAt(userHead) :
                                             userHead[j].socketfd = fd}}
TalksLoggedIn ==
  server = "up" =>
    \A fd \in Fds \ astray : at[fd] \in {"talk", "udp"} =>
      \/ OnlineAs(fd) # {}
      \/ Range(toClient[fd]) \cap {"LOGOUT_OK", "UNREGIST_OK"} # {}

(* A user who waits for the answer to a registration or a login gets one,  *)
(* or reads that the server is gone, unless the server is stopped by a     *)
(* client that does not read, or has ended and left his connection open in *)
(* the hands of the media sender: then he waits forever.                   *)
Held(fd) == ~ Alive /\ fd \in heirs
LoginAnswered ==
  \A fd \in Fds :
    at[fd] \in Waiting ~> at[fd] \notin Waiting \/ ~ Room \/ Held(fd)

-----------------------------------------------------------------------------
(* What the program says of itself and does not do.                        *)

(* "you can change your passward!" (user.c:320): the account whose         *)
(* password is changed is one that is online at the connection the command *)
(* came from.                                                              *)
ChangesOwnPassward ==
  [][changing = NoChange /\ changing' # NoChange =>
       changing'.name \in OnlineAs(changing'.fd)]_changing

(* "check whether the user name and the password match" (server.c:267):    *)
(* the user who goes online is the one whose name and password were sent.  *)
Answers(fd, type) == \E i \in DOMAIN sent'[fd] : sent'[fd][i].type = type
LoginChecksName ==
  [][\A fd \in Fds : Answers(fd, "LOGIN_OK") =>
       Head(toServer[fd]).name \in OnlineAs(fd)']_myqqVars

(* "if all the clients have finished, close the rtsp server"               *)
(* (server.c:492): when the last connection has ended, no media sender is  *)
(* left running.                                                           *)
SenderIsWatched == server = "up" /\ watched = {} => heirs = {}

(* "change name ok, my new name is" (user.c:445): when the server tells a  *)
(* user so, no row of the table has his old name any more.                 *)
RenamedInTable ==
  [][\A fd \in Fds : Answers(fd, "RENAME_OK") =>
       \E i \in DOMAIN userHead :
         /\ findNodeBySocketID(userHead, fd, i)
         /\ \/ Head(toServer[fd]).name = userHead[i].userId
            \/ \A r \in table' : r.name # userHead[i].userId]_myqqVars

=============================================================================
