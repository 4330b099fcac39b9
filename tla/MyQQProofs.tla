----------------------------- MODULE MyQQProofs -----------------------------
(***************************************************************************)
(* Theorems about the server and its interactive clients together (MyQQ),  *)
(* for any number of connections, any length of the queues, and whatever   *)
(* the users type.                                                         *)
(*                                                                         *)
(* The first part needs no more than the assumptions of the modules.  The  *)
(* second one, that the list of users and the places of the clients stay   *)
(* in step, holds when no name is a prefix of another, nobody renames      *)
(* himself, and no insert of a row fails: the runs MCLoginName, MCRename   *)
(* and MCServer show what happens otherwise.                               *)
(***************************************************************************)
EXTENDS MyQQ, OnlineProofs

(* What a client sends of names and passwords is what its user typed.      *)
WellTyped(m) ==
  /\ m.type \in {"REGIST", "LOGIN"} => m.name \in Names /\ m.pw \in Passwords
  /\ m.type = "RENAME" => m.name \in NewNames
  /\ m.type = "CHG_PW" => m.pw \in NewPasswords
MessagesInv == \A fd \in Fds : \A i \in DOMAIN toServer[fd] : WellTyped(toServer[fd][i])
(* MyQQTypeOK is not inductive: that the chances of a client never run     *)
(* below 0 needs that it asks again only while it has some.                *)
TriesInv == \A fd \in Fds : at[fd] \in {"again", "reagain"} => tries[fd] > 0
(* A descriptor that has not been handed out has no client.                *)
FreshInv == Alive => \A fd \in Fds : fd > conns => at[fd] = "none"

(* The server's own invariants, with the clients around it.                *)
ServerInv == TypeOK /\ NamesInv /\ MediaCounted /\ OnlineInv /\ LockInv

-----------------------------------------------------------------------------
(* The hypotheses of the second part.                                      *)
PrefixesAreNames == \A a, b \in Names : <<a, b>> \in PrefixOf => a = b
NobodyRenames == NewNames = {}
InsertsWork == Faults \cap {"step", "prepare"} = {}

(* The names in the list, and those that the table will hold when the      *)
(* change of password under way is over.                                   *)
Listed(list) == NamesAt(list, DOMAIN list)
Accounted == {r.name : r \in table}
               \cup (IF changing = NoChange THEN {} ELSE {changing.name})
OneNodeEach(list) ==
  \A i, j \in DOMAIN list : list[i].userId = list[j].userId => i = j
TableInv ==
  /\ changing # NoChange => server = "up"
  /\ server = "up" => OneNodeEach(userHead) /\ Listed(userHead) = Accounted
  /\ server # "up" => userHead = <<>>

(* The messages that bring a client into the talk, or let it believe so,   *)
(* and those that send it back to the menu: the requests and the replies.  *)
InReq == {m \in Request : m.type = "LOGIN"}
OutReq == {m \in Request : m.type \in {"LOGOUT", "UNREGIST"}}
EndReq == {m \in Request : m.type \in {"QUIT", "EOF"}}
InReply == {"LOGIN_OK", "UN_EXIST"}
OutReply == {"LOGOUT_OK", "UNREGIST_OK"}

(* What the client has yet to read comes before what the server has yet to *)
(* answer.  In this order, a client that is out meets no Out after an In,  *)
(* and one that is in no In after an Out.                                  *)
NoOutAfterIn(fd) ==
  /\ NeverAfter(toClient[fd], InReply, OutReply)
  /\ NeverAfter(toServer[fd], InReq, OutReq)
  /\ Has(toClient[fd], InReply) => ~ Has(toServer[fd], OutReq)
NoInAfterOut(fd) ==
  /\ NeverAfter(toClient[fd], OutReply, InReply)
  /\ NeverAfter(toServer[fd], OutReq, InReq)
  /\ Has(toClient[fd], OutReply) => ~ Has(toServer[fd], InReq)

QueuesInv(fd) ==
  /\ at[fd] \in {"none", "gone"} => toClient[fd] = <<>>
  /\ at[fd] = "none" \/ ~ Alive => toServer[fd] = <<>>
  /\ Has(toServer[fd], EndReq) => at[fd] \in {"leaving", "gone"}
PlacesInv(fd) == fd \in watched /\ at[fd] = "gone" => Has(toServer[fd], EndReq)
OrderInv(fd) ==
  /\ at[fd] \in Waiting \cup Asking => NoOutAfterIn(fd)
  /\ at[fd] = "reoffer" => /\ ~ Has(toClient[fd], OutReply)
                           /\ ~ Has(toServer[fd], OutReq)
  /\ at[fd] \in Talking => NoInAfterOut(fd)
FlowInv == \A fd \in Fds : QueuesInv(fd) /\ (Alive => PlacesInv(fd) /\ OrderInv(fd))

(* The list and the clients.                                               *)
Online == OnlineFds(userHead)
NodeInv(fd) ==
  /\ fd \in Online \ shared =>
       /\ \/ at[fd] \in Talking
          \/ Has(toClient[fd], {"LOGIN_OK"})
          \/ fd \in watched /\ Has(toServer[fd], EndReq)
       /\ at[fd] \in Talking => ~ Has(toClient[fd], OutReply)
  /\ at[fd] \in Waiting \cup Asking /\ Has(toClient[fd], {"LOGIN_OK"})
       => fd \in Online
  /\ at[fd] \in {"talk", "udp"} /\ fd \notin astray
       => fd \in Online \/ Has(toClient[fd], OutReply)
SharedInv == Alive => InSeveral(userHead) \subseteq shared
ServedInv == SharedInv /\ (server = "up" => \A fd \in Fds : NodeInv(fd))
-----------------------------------------------------------------------------
(* The messages the clients write are requests.                            *)
LEMMA RequestLemma ==
  ASSUME NEW fd \in Fds
  PROVE  /\ \A t \in Uses[fd] \cup {"REQ_OL", "STOP_MEDIA", "QUIT", "EOF"} :
              Req(t) \in Request
         /\ \A t \in {"REQ_OL", "STOP_MEDIA", "QUIT", "EOF"} : WellTyped(Req(t))
         /\ \A t \in {"REGIST", "LOGIN"}, typed \in Types[fd] :
              /\ WithAccount(t, typed) \in Request
              /\ WellTyped(WithAccount(t, typed))
              /\ WithAccount(t, typed).type = t
         /\ \A t \in Uses[fd] : \A m \in Payload(t) :
              m \in Request /\ WellTyped(m) /\ m.type = t
<1>1. \A t \in Uses[fd] : t \in UNION Range(Uses)
  BY ClientAssumption DEF Range
<1>0. ASSUME NEW m, NEW t, NEW n \in Names \cup {None},
             NEW p \in Passwords \cup {None},
             t \in UNION Range(Uses)
               \/ t \in {"REGIST", "LOGIN", "REQ_OL", "STOP_MEDIA", "QUIT", "EOF"},
             m = [type |-> t, name |-> n, pw |-> p]
      PROVE  m \in Request
  <2> DEFINE U == UNION Range(Uses)
  <2>1. t \in U \cup {"REGIST", "LOGIN", "REQ_OL", "STOP_MEDIA", "QUIT", "EOF"}
    BY <1>0
  <2> HIDE DEF U
  <2>2. m \in [type : U \cup {"REGIST", "LOGIN", "REQ_OL", "STOP_MEDIA", "QUIT", "EOF"},
               name : Names \cup {None}, pw : Passwords \cup {None}]
    BY <1>0, <2>1
  <2> QED BY <2>2 DEF U, Request
<1>2. ASSUME NEW t \in Uses[fd] \cup {"REQ_OL", "STOP_MEDIA", "QUIT", "EOF"}
      PROVE  Req(t) \in Request
  <2>1. t \in UNION Range(Uses)
          \/ t \in {"REGIST", "LOGIN", "REQ_OL", "STOP_MEDIA", "QUIT", "EOF"}
    BY <1>1
  <2>2. Req(t) = [type |-> t, name |-> None, pw |-> None]
    BY DEF Req
  <2> QED BY <1>0, <2>1, <2>2, Zenon
<1>3. \A t \in {"REQ_OL", "STOP_MEDIA", "QUIT", "EOF"} : WellTyped(Req(t))
  BY DEF Req, WellTyped
<1>4. ASSUME NEW t \in {"REGIST", "LOGIN"}, NEW typed \in Types[fd]
      PROVE  /\ WithAccount(t, typed) \in Request
             /\ WellTyped(WithAccount(t, typed))
             /\ WithAccount(t, typed).type = t
  <2>1. typed[1] \in Names /\ typed[2] \in Passwords
    BY ClientAssumption
  <2>2. WithAccount(t, typed) \in Request
    BY <1>0, <2>1 DEF WithAccount
  <2> QED BY <2>1, <2>2 DEF WithAccount, WellTyped
<1>5. ASSUME NEW t \in Uses[fd], NEW m \in Payload(t)
      PROVE  m \in Request /\ WellTyped(m) /\ m.type = t
  <2>1. t \in UNION Range(Uses) /\ t \notin {"REGIST", "LOGIN"}
    BY <1>1, ClientAssumption
  <2>2. CASE t = "RENAME"
    BY <1>0, <1>5, <2>1, <2>2, ClientAssumption DEF Payload, Req, WellTyped
  <2>3. CASE t = "CHG_PW"
    BY <1>0, <1>5, <2>1, <2>3, ClientAssumption DEF Payload, Req, WellTyped
  <2>4. CASE t \notin {"RENAME", "CHG_PW"}
    <3>1. m = Req(t)
      BY <1>5, <2>4 DEF Payload
    <3> QED BY <1>2, <2>1, <2>4, <3>1 DEF Req, WellTyped
  <2> QED BY <2>2, <2>3, <2>4
<1> QED BY <1>2, <1>3, <1>4, <1>5

(* What one client does to its queues.                                     *)
Queues == /\ toServer \in [Fds -> Seq(Request)]
          /\ toClient \in [Fds -> Seq(ReplyTypes \cup {"EOF"})]

LEMMA SendLemma ==
  ASSUME Queues, MessagesInv, NEW fd \in Fds, NEW msgs \in Seq(Request),
         \A i \in DOMAIN msgs : WellTyped(msgs[i]), Send(fd, msgs)
  PROVE  /\ toServer' \in [Fds -> Seq(Request)]
         /\ MessagesInv'
         /\ \A g \in Fds \ {fd} : toServer'[g] = toServer[g]
         /\ toServer'[fd] = IF Alive THEN toServer[fd] \o msgs ELSE toServer[fd]
<1>1. /\ toServer[fd] \in Seq(Request)
      /\ toServer[fd] \o msgs \in Seq(Request)
  BY DEF Queues
<1>2. /\ toServer' \in [Fds -> Seq(Request)]
      /\ \A g \in Fds \ {fd} : toServer'[g] = toServer[g]
      /\ toServer'[fd] = IF Alive THEN toServer[fd] \o msgs ELSE toServer[fd]
  BY <1>1 DEF Queues, Send
<1>3. \A i \in DOMAIN (toServer[fd] \o msgs) : WellTyped((toServer[fd] \o msgs)[i])
  <2>1. \A i \in DOMAIN toServer[fd] : WellTyped(toServer[fd][i])
    BY DEF MessagesInv
  <2> DEFINE s == toServer[fd]
  <2>2. /\ s \in Seq(Request)
        /\ \A i \in DOMAIN s : WellTyped(s[i])
    BY <1>1, <2>1
  <2> HIDE DEF s
  <2>3. /\ Len(s) \in Nat /\ DOMAIN s = 1..Len(s)
        /\ Len(msgs) \in Nat /\ DOMAIN msgs = 1..Len(msgs)
        /\ DOMAIN (s \o msgs) = 1..(Len(s) + Len(msgs))
        /\ \A i \in 1..(Len(s) + Len(msgs)) : (s \o msgs)[i] =
              IF i <= Len(s) THEN s[i] ELSE msgs[i - Len(s)]
    BY <2>2
  <2>4. ASSUME NEW i \in 1..(Len(s) + Len(msgs))
        PROVE  WellTyped((s \o msgs)[i])
    <3>1. CASE i <= Len(s)
      <4>1. i \in DOMAIN s /\ (s \o msgs)[i] = s[i]
        BY <2>3, <3>1
      <4> QED BY <2>2, <4>1, Zenon
    <3>2. CASE ~ (i <= Len(s))
      <4>1. i - Len(s) \in DOMAIN msgs /\ (s \o msgs)[i] = msgs[i - Len(s)]
        BY <2>3, <3>2
      <4> QED BY <4>1, Zenon
    <3> QED BY <3>1, <3>2
  <2>5. \A i \in DOMAIN (s \o msgs) : WellTyped((s \o msgs)[i])
    BY <2>3, <2>4, Zenon
  <2> QED BY <2>5 DEF s
<1>4. ASSUME NEW g \in Fds, NEW i \in DOMAIN toServer'[g]
      PROVE  WellTyped(toServer'[g][i])
  <2>1. CASE toServer'[g] = toServer[g]
    BY <2>1 DEF MessagesInv
  <2>2. CASE toServer'[g] # toServer[g]
    BY <1>2, <1>3, <2>2
  <2> QED BY <2>1, <2>2
<1>5. MessagesInv'
  BY <1>4 DEF MessagesInv, WellTyped
<1> QED BY <1>2, <1>5

LEMMA TakeLemma ==
  ASSUME Queues, NEW fd \in Fds, toClient[fd] # <<>>, Take(fd)
  PROVE  /\ toClient' \in [Fds -> Seq(ReplyTypes \cup {"EOF"})]
         /\ \A g \in Fds \ {fd} : toClient'[g] = toClient[g]
         /\ \/ toClient'[fd] = Tail(toClient[fd])
            \/ /\ toClient[fd] = <<"EOF">>
               /\ toClient'[fd] = toClient[fd]
<1>1. Tail(toClient[fd]) \in Seq(ReplyTypes \cup {"EOF"})
  BY DEF Queues
<1>2. /\ toClient' = [toClient EXCEPT ![fd] =
                         IF toClient[fd] = <<"EOF">> THEN toClient[fd]
                         ELSE Tail(toClient[fd])]
      /\ toClient[fd] \in Seq(ReplyTypes \cup {"EOF"})
  BY DEF Queues, Take
<1>3. CASE toClient[fd] = <<"EOF">>
  <2>1. toClient' = [toClient EXCEPT ![fd] = toClient[fd]]
    BY <1>2, <1>3, Zenon
  <2> QED BY <1>2, <1>3, <2>1 DEF Queues
<1>4. CASE toClient[fd] # <<"EOF">>
  <2>1. toClient' = [toClient EXCEPT ![fd] = Tail(toClient[fd])]
    BY <1>2, <1>4, Zenon
  <2>2. toClient'[fd] = Tail(toClient[fd])
    BY <2>1 DEF Queues
  <2>3. toClient' \in [Fds -> Seq(ReplyTypes \cup {"EOF"})]
    BY <1>1, <2>1, Zenon DEF Queues
  <2>4. \A g \in Fds \ {fd} : toClient'[g] = toClient[g]
    BY <2>1 DEF Queues
  <2> QED BY <2>2, <2>3, <2>4, Zenon
<1> QED BY <1>3, <1>4

LEMMA GoLemma ==
  ASSUME at \in [Fds -> Places], NEW fd \in Fds, NEW p \in Places, Go(fd, p)
  PROVE  /\ at' \in [Fds -> Places]
         /\ at'[fd] = p
         /\ \A g \in Fds \ {fd} : at'[g] = at[g]
BY DEF Go

-----------------------------------------------------------------------------
(* A step of a user changes his place and his queues, and nobody else's.   *)
(* The places follow the functions of user.c; Exit is all that closes the  *)
(* connection.                                                             *)
Stays(fd) ==
  /\ \A g \in Fds \ {fd} : /\ at'[g] = at[g]
                           /\ toServer'[g] = toServer[g]
                           /\ toClient'[g] = toClient[g]
  /\ astray' \ {fd} = astray \ {fd}

LEMMA ExitLemma ==
  ASSUME MyQQTypeOK, MessagesInv, NEW fd \in Fds, Exit(fd)
  PROVE  /\ MyQQTypeOK' /\ MessagesInv' /\ Stays(fd)
         /\ at[fd] \notin {"none", "gone"} /\ at'[fd] = "gone"
         /\ fd \notin astray' /\ toClient'[fd] = <<>>
         /\ toServer'[fd] = IF Alive THEN toServer[fd] \o <<Req("EOF")>>
                            ELSE toServer[fd]
<1>1. /\ at \in [Fds -> Places] /\ "gone" \in Places /\ Go(fd, "gone")
      /\ at[fd] \notin {"none", "gone"}
  BY DEF MyQQTypeOK, Exit, Client, Places, Waiting, Asking, Talking
<1>2. /\ at' \in [Fds -> Places] /\ at'[fd] = "gone"
      /\ \A g \in Fds \ {fd} : at'[g] = at[g]
  BY <1>1, GoLemma
<1>3. Queues /\ Send(fd, <<Req("EOF")>>)
  BY DEF MyQQTypeOK, Queues, Exit
<1>4. Req("EOF") \in Request /\ WellTyped(Req("EOF"))
  BY RequestLemma
<1>5. <<Req("EOF")>> \in Seq(Request)
      /\ \A i \in DOMAIN <<Req("EOF")>> : WellTyped(<<Req("EOF")>>[i])
  BY <1>4
<1>6. /\ toServer' \in [Fds -> Seq(Request)]
      /\ MessagesInv'
      /\ \A g \in Fds \ {fd} : toServer'[g] = toServer[g]
      /\ toServer'[fd] = IF Alive THEN toServer[fd] \o <<Req("EOF")>>
                         ELSE toServer[fd]
  BY <1>3, <1>5, SendLemma
<1>7. /\ toClient' \in [Fds -> Seq(ReplyTypes \cup {"EOF"})]
      /\ toClient'[fd] = <<>>
      /\ \A g \in Fds \ {fd} : toClient'[g] = toClient[g]
  BY DEF MyQQTypeOK, Exit
<1>8. /\ player' \in [Fds -> BOOLEAN] /\ heirs' \subseteq Fds
      /\ tries' \in [Fds -> 0..Chances]
  BY ClientAssumption DEF MyQQTypeOK, Exit, StopPlayer, Client
<1>9. astray' = astray \ {fd}
  BY DEF Exit
<1>10. astray' \subseteq {g \in Fds : at'[g] \in Talking}
  BY <1>2, <1>9 DEF MyQQTypeOK
<1> QED BY <1>1, <1>2, <1>6, <1>7, <1>8, <1>9, <1>10 DEF MyQQTypeOK, Stays

(* What can happen at one client, in terms of its place and its queues.    *)
Asks(fd, t, places) ==
  /\ at[fd] \in {"menu", "exist", "again", "reagain"} /\ at'[fd] \in places
  /\ \E typed \in Types[fd] :
        toServer'[fd] = IF Alive THEN toServer[fd] \o <<WithAccount(t, typed)>>
                        ELSE toServer[fd]
  /\ toClient'[fd] = toClient[fd]
Enters(fd) ==
  /\ at'[fd] = "talk"
  /\ toServer'[fd] = IF Alive THEN toServer[fd] \o <<Req("REQ_OL")>>
                     ELSE toServer[fd]
Takes(fd) ==
  /\ toClient[fd] # <<>>
  /\ \/ toClient'[fd] = Tail(toClient[fd])
     \/ toClient[fd] = <<"EOF">> /\ toClient'[fd] = toClient[fd]
Keeps(fd) == toServer'[fd] = toServer[fd]

(* The steps of a user, as far as the proofs need them.                    *)
UserMoves(fd) ==
  \/ Asks(fd, "REGIST", {"regist"}) /\ astray' = astray
  \/ Asks(fd, "LOGIN", {"login", "relogin"}) /\ astray' = astray
  \/ /\ at[fd] \in {"exist", "offer", "reoffer"}
     /\ at'[fd] \in {"menu", "again", "reagain"}
     /\ Keeps(fd) /\ toClient'[fd] = toClient[fd] /\ astray' = astray
  \/ /\ at[fd] = "reoffer" /\ Enters(fd) /\ toClient'[fd] = toClient[fd]
     /\ astray' = astray \cup {fd}
  \/ /\ at[fd] \in Waiting /\ at'[fd] \in Asking \ {"reoffer"}
     /\ Takes(fd) /\ Keeps(fd) /\ astray' = astray
     /\ Head(toClient[fd]) # "LOGIN_OK"
  \/ /\ at[fd] \in Waiting /\ at'[fd] = "reoffer"
     /\ Takes(fd) /\ Keeps(fd) /\ astray' = astray
     /\ Head(toClient[fd]) = "UN_EXIST"
  \/ /\ at[fd] \in Waiting /\ Enters(fd)
     /\ Takes(fd) /\ astray' = astray
     /\ Head(toClient[fd]) = "LOGIN_OK"
  \/ /\ at[fd] = "talk" /\ at'[fd] = "menu"
     /\ Takes(fd) /\ Keeps(fd) /\ astray' = astray \ {fd}
     /\ Head(toClient[fd]) \in OutReply
  \/ /\ at[fd] = "talk" /\ at'[fd] = "talk"
     /\ Takes(fd) /\ Keeps(fd) /\ astray' = astray
     /\ Head(toClient[fd]) \notin OutReply
  \/ /\ at[fd] = "talk" /\ at'[fd] = "talk"
     /\ \E t \in Uses[fd] : \E m \in Payload(t) :
          toServer'[fd] = IF Alive THEN toServer[fd] \o <<m>> ELSE toServer[fd]
     /\ toClient'[fd] = toClient[fd] /\ astray' = astray
  \/ /\ at[fd] = "talk" /\ at'[fd] = "leaving"
     /\ toServer'[fd] = IF Alive
                        THEN toServer[fd] \o <<Req("STOP_MEDIA"), Req("QUIT")>>
                        ELSE toServer[fd]
     /\ toClient'[fd] = toClient[fd] /\ astray' = astray
  \/ /\ at[fd] \in {"talk", "udp"} /\ at'[fd] \in {"talk", "udp"}
     /\ Keeps(fd) /\ toClient'[fd] = toClient[fd] /\ astray' = astray
  \/ Exit(fd)

LEMMA UserLemma ==
  ASSUME MyQQTypeOK, MessagesInv, TriesInv, NEW fd \in Fds, User(fd)
  PROVE  MyQQTypeOK' /\ MessagesInv' /\ Stays(fd) /\ UserMoves(fd)
<1> DEFINE Goal == MyQQTypeOK' /\ MessagesInv' /\ Stays(fd) /\ UserMoves(fd)
           Placed == /\ at' \in [Fds -> Places]
                     /\ \A g \in Fds \ {fd} : at'[g] = at[g]
           Sent == /\ toServer' \in [Fds -> Seq(Request)] /\ MessagesInv'
                   /\ \A g \in Fds \ {fd} : toServer'[g] = toServer[g]
           Told == /\ toClient' \in [Fds -> Seq(ReplyTypes \cup {"EOF"})]
                     /\ \A g \in Fds \ {fd} : toClient'[g] = toClient[g]
           Rest == /\ tries' \in [Fds -> 0..Chances]
                   /\ player' \in [Fds -> BOOLEAN]
                   /\ heirs' = heirs
           Strays == /\ astray' \subseteq {g \in Fds : at'[g] \in Talking}
                     /\ astray' \ {fd} = astray \ {fd}
<1>0. /\ at \in [Fds -> Places] /\ Queues
      /\ tries \in [Fds -> 0..Chances] /\ player \in [Fds -> BOOLEAN]
      /\ heirs \subseteq Fds /\ astray \subseteq {g \in Fds : at[g] \in Talking}
      /\ at[fd] \in Places
  BY DEF MyQQTypeOK, Queues
<1>1. Places = {"none", "gone", "talk", "udp", "leaving", "regist", "login",
                "relogin", "menu", "exist", "offer", "reoffer", "again",
                "reagain"}
  BY DEF Places, Talking, Waiting, Asking
<1>2. ASSUME NEW p \in Places, Go(fd, p)
      PROVE  Placed /\ at'[fd] = p
  BY <1>0, <1>2, GoLemma
<1>3. ASSUME at' = at
      PROVE  Placed
  BY <1>0, <1>3
<1>4. ASSUME NEW m \in Request, WellTyped(m), Send(fd, <<m>>)
      PROVE  /\ Sent
             /\ toServer'[fd] = IF Alive THEN toServer[fd] \o <<m>>
                                ELSE toServer[fd]
  <2>1. /\ <<m>> \in Seq(Request)
        /\ \A i \in DOMAIN <<m>> : WellTyped(<<m>>[i])
    BY <1>4
  <2> QED BY <1>0, <1>4, <2>1, SendLemma
<1>5. ASSUME toServer' = toServer
      PROVE  Sent /\ Keeps(fd)
  BY <1>0, <1>5 DEF Queues, MessagesInv, WellTyped, Keeps
<1>6. ASSUME Take(fd), toClient[fd] # <<>>
      PROVE  Told /\ Takes(fd)
  BY <1>0, <1>6, TakeLemma DEF Takes
<1>7. ASSUME toClient' = toClient
      PROVE  Told
  BY <1>0, <1>7 DEF Queues
<1>8. ASSUME Placed, Sent, Told, Rest, Strays, UserMoves(fd)
      PROVE  Goal
  <2>1. heirs' \subseteq Fds
    BY <1>0, <1>8
  <2> QED BY <1>8, <2>1 DEF MyQQTypeOK, Stays
<1>9. ASSUME astray' = astray, Placed, at[fd] \notin Talking
      PROVE  Strays
  BY <1>0, <1>9
<1>10. ASSUME astray' = astray, Placed, at'[fd] \in Talking
       PROVE  Strays
  BY <1>0, <1>10
<1> HIDE DEF Goal, Placed, Sent, Told, Rest, Strays
<1>11. CASE AskRegister(fd)
  <2>1. PICK typed \in Types[fd] : Send(fd, <<WithAccount("REGIST", typed)>>)
    BY <1>11 DEF AskRegister
  <2>2. /\ Sent
        /\ toServer'[fd] = IF Alive
                           THEN toServer[fd] \o <<WithAccount("REGIST", typed)>>
                           ELSE toServer[fd]
    BY <2>1, <1>4, RequestLemma
  <2>3. /\ at[fd] = "menu" /\ Go(fd, "regist") /\ astray' = astray
        /\ toClient' = toClient /\ Rest
    BY <1>0, <1>11 DEF AskRegister, Client, Rest
  <2>4. Placed /\ at'[fd] = "regist" /\ Told
    BY <1>1, <1>2, <1>7, <2>3
  <2>5. Strays
    BY <1>9, <2>3, <2>4 DEF Talking
  <2>6. Asks(fd, "REGIST", {"regist"})
    BY <2>2, <2>3, <2>4 DEF Asks
  <2> QED BY <1>8, <2>2, <2>3, <2>4, <2>5, <2>6 DEF UserMoves, Goal
<1>12. CASE AskLogin(fd)
  <2>1. PICK typed \in Types[fd] : Send(fd, <<WithAccount("LOGIN", typed)>>)
    BY <1>12 DEF AskLogin
  <2>2. /\ Sent
        /\ toServer'[fd] = IF Alive
                           THEN toServer[fd] \o <<WithAccount("LOGIN", typed)>>
                           ELSE toServer[fd]
    BY <2>1, <1>4, RequestLemma
  <2>3. /\ at[fd] \in {"menu", "exist", "again", "reagain"}
        /\ \E p \in {"login", "relogin"} : Go(fd, p)
        /\ astray' = astray /\ toClient' = toClient
        /\ player' = player /\ heirs' = heirs
    BY <1>12 DEF AskLogin, Client
  <2>4. Placed /\ at'[fd] \in {"login", "relogin"} /\ Told
    BY <1>1, <1>2, <1>7, <2>3
  <2>5. tries' \in [Fds -> 0..Chances]
    <3>1. ChancesLeft(fd) \in 1..Chances
      BY <1>0, <2>3, ClientAssumption DEF ChancesLeft, TriesInv
    <3>2. tries' = [tries EXCEPT ![fd] = ChancesLeft(fd) - 1]
      BY <1>12 DEF AskLogin
    <3>3. ChancesLeft(fd) - 1 \in 0..Chances
      BY <3>1, ClientAssumption
    <3> QED BY <1>0, <3>2, <3>3
  <2>6. Strays /\ Rest
    BY <1>0, <1>9, <2>3, <2>4, <2>5 DEF Talking, Rest
  <2>7. Asks(fd, "LOGIN", {"login", "relogin"})
    BY <2>2, <2>3, <2>4 DEF Asks
  <2> QED BY <1>8, <2>2, <2>3, <2>4, <2>6, <2>7 DEF UserMoves, Goal
<1>13. CASE Decide(fd)
  <2>1. /\ at[fd] \in {"exist", "offer", "reoffer"} /\ toClient' = toClient
        /\ Rest
    BY <1>0, <1>13 DEF Decide, Client, Rest
  <2>2. CASE at[fd] = "reoffer" /\ EnterTalk(fd) /\ astray' = astray \cup {fd}
    <3>1. Placed /\ at'[fd] = "talk" /\ Send(fd, <<Req("REQ_OL")>>) /\ Told
      BY <1>1, <1>2, <1>7, <2>1, <2>2 DEF EnterTalk
    <3>2. Sent /\ Enters(fd)
      BY <1>4, <3>1, RequestLemma DEF Enters
    <3>3. Strays
      BY <1>0, <2>2, <3>1 DEF Strays, Placed, Talking
    <3> QED BY <1>8, <2>1, <2>2, <3>1, <3>2, <3>3 DEF UserMoves, Goal
  <2>3. CASE /\ \E p \in {"menu", "again", "reagain"} : Go(fd, p)
             /\ toServer' = toServer /\ astray' = astray
    <3>1. Placed /\ at'[fd] \in {"menu", "again", "reagain"} /\ Told
      BY <1>1, <1>2, <1>7, <2>1, <2>3
    <3>2. Sent /\ Keeps(fd)
      BY <1>5, <2>3
    <3>3. Strays
      BY <1>9, <2>1, <2>3, <3>1 DEF Talking
    <3> QED BY <1>8, <2>1, <2>3, <3>1, <3>2, <3>3 DEF UserMoves, Goal
  <2>4. \/ at[fd] = "reoffer" /\ EnterTalk(fd) /\ astray' = astray \cup {fd}
        \/ /\ \E p \in {"menu", "again", "reagain"} : Go(fd, p)
           /\ toServer' = toServer /\ astray' = astray
    BY <1>13 DEF Decide
  <2> QED BY <2>2, <2>3, <2>4
<1>14. ASSUME NEW p \in Asking, at[fd] \in Waiting, Go(fd, p),
              Take(fd), toClient[fd] # <<>>, toServer' = toServer,
              tries' = tries, astray' = astray, player' = player, heirs' = heirs
       PROVE  /\ at'[fd] = p /\ Takes(fd) /\ Keeps(fd)
              /\ UserMoves(fd) => Goal
  <2>1. Placed /\ at'[fd] = p /\ Told /\ Takes(fd) /\ Sent /\ Keeps(fd) /\ Rest
    BY <1>0, <1>1, <1>2, <1>5, <1>6, <1>14 DEF Asking, Rest
  <2>2. Strays
    BY <1>9, <1>14, <2>1 DEF Talking, Waiting
  <2> QED BY <1>8, <2>1, <2>2
<1>15. CASE Exit(fd)
  BY <1>15, ExitLemma DEF UserMoves, Goal
<1>16. CASE ReadRegister(fd) /\ ~ Exit(fd)
  <2> DEFINE m == Head(toClient[fd])
  <2>1. /\ at[fd] \in Waiting /\ toClient[fd] # <<>> /\ Take(fd)
        /\ m \in {"REGIST_OK", "EXIST"}
        /\ \E p \in {"menu", "exist"} : Go(fd, p)
        /\ toServer' = toServer /\ tries' = tries /\ astray' = astray
        /\ player' = player /\ heirs' = heirs
    BY <1>16 DEF ReadRegister, Client, Waiting
  <2>2. PICK p \in Asking \ {"reoffer"} : Go(fd, p)
    BY <2>1 DEF Asking
  <2>3. UserMoves(fd)
    <3>1. at'[fd] = p /\ Takes(fd) /\ Keeps(fd)
      BY <1>14, <2>1, <2>2
    <3>2. at'[fd] \in Asking \ {"reoffer"} /\ m # "LOGIN_OK"
      BY <2>1, <2>2, <3>1
    <3> QED BY <2>1, <3>1, <3>2 DEF UserMoves
  <2> QED BY <1>14, <2>1, <2>2, <2>3 DEF Goal
<1>17. CASE ReadLogin(fd) /\ ~ Exit(fd)
  <2> DEFINE m == Head(toClient[fd])
  <2>1. /\ at[fd] \in Waiting /\ toClient[fd] # <<>> /\ Take(fd)
        /\ tries' = tries /\ astray' = astray
        /\ player' = player /\ heirs' = heirs
    BY <1>17 DEF ReadLogin, Client, Waiting
  <2>2. CASE m = "LOGIN_OK" /\ EnterTalk(fd)
    <3>1. Placed /\ at'[fd] = "talk" /\ Send(fd, <<Req("REQ_OL")>>)
      BY <1>1, <1>2, <2>2 DEF EnterTalk
    <3>2. Sent /\ Enters(fd) /\ Told /\ Takes(fd) /\ Rest
      BY <1>0, <1>4, <1>6, <2>1, <3>1, RequestLemma DEF Enters, Rest
    <3>3. Strays
      BY <1>10, <2>1, <3>1 DEF Talking
    <3> QED BY <1>8, <2>1, <2>2, <3>1, <3>2, <3>3 DEF UserMoves, Goal
  <2>3. CASE /\ toServer' = toServer
             /\ \/ m = "UN_EXIST" /\ Go(fd, "reoffer")
                \/ m # "LOGIN_OK" /\ \E p \in {"offer", "again", "reagain"} : Go(fd, p)
    <3>1. PICK p \in Asking : /\ Go(fd, p) /\ m # "LOGIN_OK"
                              /\ p = "reoffer" => m = "UN_EXIST"
      BY <2>3 DEF Asking
    <3>2. UserMoves(fd)
      <4>1. at'[fd] = p /\ Takes(fd) /\ Keeps(fd)
        BY <1>14, <2>1, <2>3, <3>1
      <4>2. at'[fd] \in Asking \ {"reoffer"}
              \/ (at'[fd] = "reoffer" /\ m = "UN_EXIST")
        BY <3>1, <4>1
      <4> QED BY <2>1, <3>1, <4>1, <4>2 DEF UserMoves
    <3> QED BY <1>14, <2>1, <2>3, <3>1, <3>2 DEF Goal
  <2>4. \/ m = "LOGIN_OK" /\ EnterTalk(fd)
        \/ /\ toServer' = toServer
           /\ \/ m = "UN_EXIST" /\ Go(fd, "reoffer")
              \/ m # "LOGIN_OK" /\ \E p \in {"offer", "again", "reagain"} : Go(fd, p)
    BY <1>17 DEF ReadLogin
  <2> QED BY <2>2, <2>3, <2>4
<1>18. CASE ReadTalk(fd) /\ ~ Exit(fd)
  <2> DEFINE m == Head(toClient[fd])
  <2>1. /\ at[fd] = "talk" /\ toClient[fd] # <<>> /\ Take(fd)
        /\ tries' = tries /\ toServer' = toServer /\ heirs' = heirs
    BY <1>18 DEF ReadTalk, Client
  <2>2. player' \in [Fds -> BOOLEAN]
    BY <1>0, <1>18 DEF ReadTalk, StopPlayer
  <2>3. Sent /\ Keeps(fd) /\ Told /\ Takes(fd) /\ Rest
    BY <1>0, <1>5, <1>6, <2>1, <2>2 DEF Rest
  <2>4. CASE /\ m \in OutReply /\ Go(fd, "menu") /\ astray' = astray \ {fd}
    <3>1. Placed /\ at'[fd] = "menu"
      BY <1>1, <1>2, <2>4
    <3>2. Strays
      BY <1>0, <2>4, <3>1 DEF Strays, Placed
    <3> QED BY <1>8, <2>1, <2>3, <2>4, <3>1, <3>2 DEF UserMoves, Goal
  <2>5. CASE m \notin OutReply /\ at' = at /\ astray' = astray
    <3>1. Placed /\ at'[fd] = "talk"
      BY <1>3, <2>1, <2>5
    <3>2. Strays
      BY <1>10, <2>5, <3>1 DEF Talking
    <3> QED BY <1>8, <2>1, <2>3, <2>5, <3>1, <3>2 DEF UserMoves, Goal
  <2>6. \/ m \in OutReply /\ Go(fd, "menu") /\ astray' = astray \ {fd}
        \/ m \notin OutReply /\ at' = at /\ astray' = astray
    BY <1>18 DEF ReadTalk, OutReply
  <2> QED BY <2>4, <2>5, <2>6
<1>19. CASE Command(fd)
  <2>1. /\ at[fd] = "talk" /\ at' = at /\ astray' = astray /\ tries' = tries
        /\ toClient' = toClient /\ heirs' = heirs
    BY <1>19 DEF Command, Client
  <2>2. PICK t \in Uses[fd] : /\ \E m \in Payload(t) : Send(fd, <<m>>)
                              /\ IF t = "STOP_MEDIA" THEN StopPlayer(fd)
                                 ELSE UNCHANGED player
    BY <1>19 DEF Command
  <2>3. PICK m \in Payload(t) : Send(fd, <<m>>)
    BY <2>2
  <2>4. /\ Sent
        /\ toServer'[fd] = IF Alive THEN toServer[fd] \o <<m>> ELSE toServer[fd]
    BY <1>4, <2>3, RequestLemma
  <2>5. Rest
    BY <1>0, <2>1, <2>2 DEF Rest, StopPlayer
  <2>6. Placed /\ at'[fd] = "talk" /\ Told
    BY <1>3, <1>7, <2>1
  <2>7. Strays
    BY <1>10, <2>1, <2>6 DEF Talking
  <2>8. UserMoves(fd)
    BY <2>1, <2>4, <2>6 DEF UserMoves
  <2> QED BY <1>8, <2>4, <2>5, <2>6, <2>7, <2>8 DEF Goal
<1>20. CASE QuitTalk(fd)
  <2>1. /\ at[fd] = "talk" /\ Go(fd, "leaving") /\ astray' = astray
        /\ toClient' = toClient /\ Rest
        /\ Send(fd, <<Req("STOP_MEDIA"), Req("QUIT")>>)
    BY <1>0, <1>20 DEF QuitTalk, Client, Rest
  <2>2. Req("STOP_MEDIA") \in Request /\ Req("QUIT") \in Request
        /\ WellTyped(Req("STOP_MEDIA")) /\ WellTyped(Req("QUIT"))
    BY RequestLemma
  <2> DEFINE msgs == <<Req("STOP_MEDIA"), Req("QUIT")>>
  <2>3. msgs \in Seq(Request) /\ \A i \in DOMAIN msgs : WellTyped(msgs[i])
    BY <2>2
  <2>4. Send(fd, msgs)
    BY <2>1
  <2> HIDE DEF msgs
  <2>5. Sent /\ toServer'[fd] = IF Alive THEN toServer[fd] \o msgs
                                ELSE toServer[fd]
    BY <1>0, <2>3, <2>4, SendLemma DEF Sent
  <2>6. Placed /\ at'[fd] = "leaving" /\ Told
    BY <1>1, <1>2, <1>7, <2>1
  <2>7. Strays
    BY <1>10, <2>1, <2>6 DEF Talking
  <2> QED BY <1>8, <2>1, <2>5, <2>6, <2>7 DEF UserMoves, Goal, msgs
<1>21. CASE TalkToOthers(fd)
  <2>1. /\ at[fd] \in {"talk", "udp"} /\ astray' = astray
        /\ \E p \in {"talk", "udp"} : Go(fd, p)
        /\ toClient' = toClient /\ toServer' = toServer /\ Rest
    BY <1>0, <1>21 DEF TalkToOthers, Client, Rest
  <2>2. Placed /\ at'[fd] \in {"talk", "udp"} /\ Told /\ Sent /\ Keeps(fd)
    BY <1>1, <1>2, <1>5, <1>7, <2>1
  <2>3. Strays
    BY <1>10, <2>1, <2>2 DEF Talking
  <2> QED BY <1>8, <2>1, <2>2, <2>3 DEF UserMoves, Goal
<1> QED BY <1>11, <1>12, <1>13, <1>15, <1>16, <1>17, <1>18, <1>19, <1>20, <1>21
        DEF User, Read, Goal

LEMMA TriesLemma ==
  ASSUME MyQQTypeOK, TriesInv, NEW fd \in Fds, User(fd)
  PROVE  TriesInv'
<1> USE DEF Client, Go
<1>1. at \in [Fds -> Places] /\ tries \in [Fds -> 0..Chances]
  BY DEF MyQQTypeOK
<1>2. ASSUME tries' = tries, NEW p, Go(fd, p),
             p \in {"again", "reagain"} => tries[fd] > 0
      PROVE  TriesInv'
  BY <1>1, <1>2 DEF TriesInv
<1>3. ASSUME NEW n, tries' = [tries EXCEPT ![fd] = n], NEW p, Go(fd, p),
             p \notin {"again", "reagain"}
      PROVE  TriesInv'
  BY <1>1, <1>3 DEF TriesInv
<1> HIDE DEF Go
<1>4. CASE AskRegister(fd)
  BY <1>2, <1>4 DEF AskRegister
<1>5. CASE AskLogin(fd)
  BY <1>3, <1>5 DEF AskLogin
<1>6. CASE Exit(fd)
  BY <1>3, <1>6 DEF Exit
<1>7. CASE Decide(fd)
  BY <1>2, <1>7 DEF Decide, EnterTalk
<1>8. CASE ReadRegister(fd) /\ ~ Exit(fd)
  BY <1>2, <1>8 DEF ReadRegister
<1>9. CASE ReadLogin(fd) /\ ~ Exit(fd)
  BY <1>2, <1>9 DEF ReadLogin, EnterTalk
<1>10. CASE UNCHANGED <<at, tries>>
  BY <1>10 DEF TriesInv
<1>11. CASE ReadTalk(fd) /\ ~ Exit(fd)
  BY <1>2, <1>10, <1>11 DEF ReadTalk
<1>12. CASE Command(fd)
  BY <1>10, <1>12 DEF Command
<1>13. CASE QuitTalk(fd) \/ TalkToOthers(fd)
  BY <1>2, <1>13 DEF QuitTalk, TalkToOthers
<1> QED BY <1>4, <1>5, <1>6, <1>7, <1>8, <1>9, <1>11, <1>12, <1>13 DEF User, Read

-----------------------------------------------------------------------------
(* A message that is delivered runs one of the server's handlers.          *)
LEMMA HandleLemma ==
  ASSUME NEW fd \in Fds, NEW m, WellTyped(m), Handle(fd, m)
  PROVE  Receive(fd)
<1>1. CASE m.type = "REGIST" /\ Register(fd, m.name, m.pw)
  BY <1>1 DEF Receive, WellTyped
<1>2. CASE m.type = "LOGIN" /\ Login(fd, m.name, m.pw)
  BY <1>2 DEF Receive, WellTyped
<1>3. CASE m.type = "RENAME" /\ Rename(fd, m.name)
  BY <1>3, ClientAssumption DEF Receive, WellTyped
<1>4. CASE m.type = "CHG_PW" /\ ChangePassward(fd, m.pw)
  BY <1>4, ClientAssumption DEF Receive, WellTyped
<1>5. CASE \/ Quit(fd) \/ Discard(fd) \/ ReqUsers(fd) \/ Unregister(fd)
           \/ Logout(fd) \/ ReqMedia(fd) \/ StopMedia(fd)
  BY <1>5 DEF Receive
<1> QED BY <1>1, <1>2, <1>3, <1>4, <1>5 DEF Handle

(* The first message under way is one that a client sent.                  *)
LEMMA FirstLemma ==
  ASSUME MyQQTypeOK, MessagesInv, NEW fd \in Fds, toServer[fd] # <<>>
  PROVE  /\ Head(toServer[fd]) \in Request /\ WellTyped(Head(toServer[fd]))
         /\ Tail(toServer[fd]) \in Seq(Request)
         /\ \A i \in DOMAIN Tail(toServer[fd]) : WellTyped(Tail(toServer[fd])[i])
<1> DEFINE s == toServer[fd]
<1>1. s \in Seq(Request) /\ s # <<>> /\ \A i \in DOMAIN s : WellTyped(s[i])
  BY DEF MyQQTypeOK, MessagesInv
<1> HIDE DEF s
<1>2. /\ Head(s) = s[1] /\ Head(s) \in Request /\ Tail(s) \in Seq(Request)
      /\ 1 \in DOMAIN s /\ Len(s) \in Nat /\ DOMAIN s = 1..Len(s)
      /\ DOMAIN Tail(s) = 1..(Len(s) - 1)
      /\ \A i \in 1..(Len(s) - 1) : Tail(s)[i] = s[i + 1]
  BY <1>1, HeadTailProperties
<1>3. ASSUME NEW i \in DOMAIN Tail(s)
      PROVE  WellTyped(Tail(s)[i])
  <2>1. i + 1 \in DOMAIN s /\ Tail(s)[i] = s[i + 1]
    BY <1>2
  <2> QED BY <1>1, <2>1, Zenon
<1>4. WellTyped(Head(s))
  BY <1>1, <1>2, Zenon
<1> QED BY <1>2, <1>3, <1>4 DEF s

(* What the server has written to somebody is under way to him.            *)
TypesOf(msgs) == [i \in DOMAIN msgs |-> msgs[i].type]

LEMMA CarryLemma ==
  ASSUME TypeOK, TypeOK', MyQQTypeOK, Carry
  PROVE  /\ toClient' \in [Fds -> Seq(ReplyTypes \cup {"EOF"})]
         /\ heirs' \subseteq Fds
         /\ UNCHANGED <<at, tries, astray, player>>
         /\ \A g \in Fds :
              /\ TypesOf(sent'[g]) \in Seq(ReplyTypes \cup {"EOF"})
              /\ toClient'[g] = IF at[g] \in {"none", "gone"} THEN <<>>
                                ELSE toClient[g] \o TypesOf(sent'[g])
<1>1. UNCHANGED <<at, tries, astray, player>>
  BY DEF Carry
<1>2. heirs' \subseteq Fds
  <2>1. 1..conns \subseteq Fds
    BY FdAssumption DEF TypeOK, Fds
  <2>2. heirs' = {} \/ heirs' = 1..conns \/ heirs' = heirs
    BY DEF Carry
  <2> QED BY <2>1, <2>2 DEF MyQQTypeOK
<1>3. ASSUME NEW msgs \in Seq(Reply)
      PROVE  TypesOf(msgs) \in Seq(ReplyTypes \cup {"EOF"})
  <2>1. /\ Len(msgs) \in Nat /\ DOMAIN msgs = 1..Len(msgs)
        /\ \A i \in 1..Len(msgs) : msgs[i] \in Reply
    BY <1>3
  <2>2. \A i \in 1..Len(msgs) : msgs[i].type \in ReplyTypes \cup {"EOF"}
    BY <2>1 DEF Reply
  <2>3. TypesOf(msgs) \in [1..Len(msgs) -> ReplyTypes \cup {"EOF"}]
    BY <2>1, <2>2 DEF TypesOf
  <2> QED BY <2>1, <2>3, FunctionIsSeq
<1>4. ASSUME NEW g \in Fds
      PROVE  /\ TypesOf(sent'[g]) \in Seq(ReplyTypes \cup {"EOF"})
             /\ toClient'[g] = IF at[g] \in {"none", "gone"} THEN <<>>
                               ELSE toClient[g] \o TypesOf(sent'[g])
             /\ toClient'[g] \in Seq(ReplyTypes \cup {"EOF"})
  <2>1. sent'[g] \in Seq(Reply)
    BY DEF TypeOK, Output
  <2>2. TypesOf(sent'[g]) \in Seq(ReplyTypes \cup {"EOF"})
    BY <1>3, <2>1
  <2>3. toClient'[g] = IF at[g] \in {"none", "gone"} THEN <<>>
                       ELSE toClient[g] \o TypesOf(sent'[g])
    BY DEF Carry, TypesOf
  <2>4. /\ <<>> \in Seq(ReplyTypes \cup {"EOF"})
        /\ toClient[g] \in Seq(ReplyTypes \cup {"EOF"})
    BY DEF MyQQTypeOK
  <2>5. toClient[g] \o TypesOf(sent'[g]) \in Seq(ReplyTypes \cup {"EOF"})
    BY <2>2, <2>4, ConcatProperties
  <2> QED BY <2>2, <2>3, <2>4, <2>5
<1>5. toClient' = [g \in Fds |-> toClient'[g]]
  BY DEF Carry
<1>6. toClient' \in [Fds -> Seq(ReplyTypes \cup {"EOF"})]
  BY <1>4, <1>5
<1> QED BY <1>1, <1>2, <1>4, <1>6

(* The end of connections is read by the clients that are there.           *)
LEMMA EndLemma ==
  ASSUME MyQQTypeOK, NEW ended, End(ended)
  PROVE  /\ toClient' \in [Fds -> Seq(ReplyTypes \cup {"EOF"})]
         /\ \A g \in Fds : at[g] \in {"none", "gone"} => toClient'[g] = <<>>
<1>1. ASSUME NEW g \in Fds
      PROVE  /\ <<>> \in Seq(ReplyTypes \cup {"EOF"})
             /\ toClient[g] \in Seq(ReplyTypes \cup {"EOF"})
             /\ Append(toClient[g], "EOF") \in Seq(ReplyTypes \cup {"EOF"})
  <2>1. toClient[g] \in Seq(ReplyTypes \cup {"EOF"})
        /\ "EOF" \in ReplyTypes \cup {"EOF"}
    BY DEF MyQQTypeOK
  <2> QED BY <2>1, AppendProperties
<1> QED BY <1>1 DEF End

-----------------------------------------------------------------------------
(* Whatever happens, the server takes one of its own steps, or only its    *)
(* last output is forgotten.                                               *)
Quiet ==
  /\ UNCHANGED <<server, dbVars, userHead, netVars, mediaVars, shared>>
  /\ sent' \in {sent, Silence}

LEMMA UserQuiet ==
  ASSUME NEW fd \in Fds, User(fd)
  PROVE  Quiet
<1>1. \E places : Client(fd, places)
  BY DEF User, Read, AskRegister, AskLogin, Decide, ReadRegister, ReadLogin,
         ReadTalk, Command, QuitTalk, TalkToOthers, Exit
<1> QED BY <1>1 DEF Client, Quiet

(* The end of the media sender is nothing to a server that runs, nor to    *)
(* its clients.                                                            *)
LEMMA SenderGoneLemma ==
  ASSUME SenderFails \/ KillSender
  PROVE  /\ Quiet /\ heirs' = {} /\ (Alive' <=> Alive)
         /\ UNCHANGED <<server, dbVars, userHead, netVars, mediaVars, shared,
                        at, tries, astray, player, toServer>>
         /\ sent' = Silence
         /\ IF Alive THEN toClient' = toClient ELSE End(heirs)
<1>1. SenderGone
  BY DEF SenderFails, KillSender
<1>2. /\ UNCHANGED <<server, dbVars, userHead, netVars, mediaVars, shared>>
      /\ sent' = Silence
  BY <1>1 DEF SenderGone
<1>3. Quiet
  BY <1>2 DEF Quiet
<1> QED BY <1>1, <1>2, <1>3 DEF SenderGone, Alive

LEMMA ServerMoves ==
  ASSUME MyQQTypeOK, MessagesInv, MyQQNext
  PROVE  Next \/ Quiet
<1>1. ASSUME NEW fd \in Fds, User(fd)
      PROVE  Quiet
  BY <1>1, UserQuiet
<1>2. ASSUME NEW fd \in Fds, Deliver(fd)
      PROVE  Next
  <2>1. Handle(fd, Head(toServer[fd])) /\ Remember /\ toServer[fd] # <<>>
    BY <1>2 DEF Deliver, Carry
  <2>2. Receive(fd)
    BY <2>1, FirstLemma, HandleLemma
  <2> QED BY <2>1, <2>2 DEF Next, Step
<1>3. CASE FinishHandler
  BY <1>3 DEF FinishHandler, Carry, Next, Step
<1>4. CASE Connect \/ Boot \/ Stop
  BY <1>4 DEF Connect, Boot, Stop, Next, Step
<1>5. CASE SenderFails \/ KillSender
  BY <1>5, SenderGoneLemma
<1> QED BY <1>1, <1>2, <1>3, <1>4, <1>5 DEF MyQQNext

LEMMA ServerInvStep ==
  ASSUME ServerInv, Next \/ Quiet
  PROVE  ServerInv'
<1>1. CASE Next
  <2>1. Step /\ Remember
    BY <1>1 DEF Next
  <2>2. shared' \subseteq Fds
    BY <2>1 DEF Remember, ServerInv, TypeOK, InSeveral
  <2>3. TypeOK'
    BY <2>1, <2>2, TypeStep DEF ServerInv
  <2>4. NamesInv' /\ MediaCounted'
    BY <2>1, <2>3, NamesStep, MediaStep DEF ServerInv
  <2>5. OnlineInv'
    BY <1>1, <2>3, OnlineInvStep DEF ServerInv
  <2>6. LockInv'
    BY <2>1, LockStep DEF ServerInv, LockInv
  <2> QED BY <2>3, <2>4, <2>5, <2>6 DEF ServerInv
<1>2. CASE Quiet
  <2>1. TypeOK'
    BY <1>2, SilenceLemma DEF ServerInv, Quiet, TypeOK, dbVars, netVars, mediaVars
  <2>2. NamesInv'
    BY <1>2 DEF ServerInv, Quiet, NamesInv, UniqueNames, ChangingFree, Taken, dbVars
  <2>3. MediaCounted'
    BY <1>2 DEF ServerInv, Quiet, MediaCounted, PlayingAt, mediaVars
  <2>4. OnlineInv'
    BY <1>2 DEF ServerInv, Quiet, OnlineInv, OnlineFds, OnlineAt, netVars
  <2>5. LockInv'
    BY <1>2 DEF ServerInv, Quiet, LockInv, dbVars
  <2> QED BY <2>1, <2>2, <2>3, <2>4, <2>5 DEF ServerInv
<1> QED BY <1>1, <1>2

(* The clients, whatever the server does.                                  *)
CoreInv == ServerInv /\ MyQQTypeOK /\ MessagesInv /\ TriesInv /\ FreshInv

LEMMA CoreInvStep ==
  ASSUME CoreInv, MyQQNext
  PROVE  CoreInv'
<1> USE DEF CoreInv
<1>1. ServerInv'
  BY ServerMoves, ServerInvStep
<1>2. TypeOK /\ TypeOK'
  BY <1>1 DEF ServerInv
<1>3. ASSUME NEW fd \in Fds, User(fd)
      PROVE  CoreInv'
  <2>1. MyQQTypeOK' /\ MessagesInv' /\ TriesInv' /\ Stays(fd) /\ UserMoves(fd)
    BY <1>3, UserLemma, TriesLemma
  <2>2. server' = server /\ conns' = conns
    BY <1>3, UserQuiet DEF Quiet, netVars
  <2>3. at[fd] # "none"
    BY <2>1 DEF UserMoves, Asks, Exit, Client, Waiting, Asking, Talking
  <2>4. FreshInv'
    BY <2>1, <2>2, <2>3 DEF FreshInv, Alive, Stays
  <2> QED BY <1>1, <2>1, <2>4
<1>4. ASSUME UNCHANGED <<at, tries>>
      PROVE  TriesInv'
  BY <1>4 DEF TriesInv
<1>5. ASSUME NEW fd \in Fds, Deliver(fd)
      PROVE  CoreInv'
  <2>1. /\ toServer[fd] # <<>> /\ Carry
        /\ toServer' = [toServer EXCEPT ![fd] = Tail(toServer[fd])]
    BY <1>5 DEF Deliver
  <2>2. /\ Tail(toServer[fd]) \in Seq(Request)
        /\ \A i \in DOMAIN Tail(toServer[fd]) : WellTyped(Tail(toServer[fd])[i])
    BY <2>1, FirstLemma
  <2>3. toServer' \in [Fds -> Seq(Request)]
    BY <2>1, <2>2 DEF MyQQTypeOK
  <2>4. MessagesInv'
    <3>1. ASSUME NEW g \in Fds, NEW i \in DOMAIN toServer'[g]
          PROVE  WellTyped(toServer'[g][i])
      <4>1. toServer'[g] = IF g = fd THEN Tail(toServer[fd]) ELSE toServer[g]
        BY <2>1 DEF MyQQTypeOK
      <4> QED BY <2>2, <4>1 DEF MessagesInv
    <3> QED BY <3>1 DEF MessagesInv, WellTyped
  <2>5. /\ toClient' \in [Fds -> Seq(ReplyTypes \cup {"EOF"})]
        /\ heirs' \subseteq Fds /\ UNCHANGED <<at, tries, astray, player>>
    BY <1>2, <2>1, CarryLemma
  <2>6. MyQQTypeOK'
    BY <2>3, <2>5 DEF MyQQTypeOK
  <2>7. FreshInv'
    <3>1. Receive(fd)
      BY <1>5, <2>1, FirstLemma, HandleLemma DEF Deliver
    <3> QED BY <2>5, <3>1, ReceiveNet DEF FreshInv, Alive
  <2> QED BY <1>1, <1>4, <2>4, <2>5, <2>6, <2>7
<1>6. CASE FinishHandler
  <2>1. Carry /\ toServer' = toServer
    BY <1>6 DEF FinishHandler
  <2>2. /\ toClient' \in [Fds -> Seq(ReplyTypes \cup {"EOF"})]
        /\ heirs' \subseteq Fds /\ UNCHANGED <<at, tries, astray, player>>
    BY <1>2, <2>1, CarryLemma
  <2>3. MyQQTypeOK' /\ MessagesInv'
    BY <2>1, <2>2 DEF MyQQTypeOK, MessagesInv, WellTyped
  <2>4. FreshInv'
    BY <1>6, <2>2 DEF FinishHandler, FinishChange, FreshInv, Alive, netVars
  <2> QED BY <1>1, <1>4, <2>2, <2>3, <2>4
<1>7. CASE Connect
  <2>1. /\ conns' \in Fds /\ Go(conns', "menu")
        /\ UNCHANGED <<tries, astray, player, heirs, toServer, toClient>>
    BY <1>2, <1>7, FdAssumption DEF Connect, Accept, TypeOK, Fds
  <2>2. /\ at' \in [Fds -> Places] /\ at'[conns'] = "menu"
        /\ \A g \in Fds \ {conns'} : at'[g] = at[g]
    <3>1. "menu" \in Places /\ at \in [Fds -> Places]
      BY DEF MyQQTypeOK, Places, Asking
    <3> QED BY <2>1, <3>1, GoLemma
  <2>3. at[conns'] = "none"
    BY <1>2, <1>7, <2>1 DEF Connect, Accept, TypeOK, FreshInv, Alive
  <2>4. MyQQTypeOK'
    <3>1. conns' \notin astray
      BY <2>3 DEF MyQQTypeOK, Talking
    <3> QED BY <2>1, <2>2, <3>1 DEF MyQQTypeOK
  <2>5. MessagesInv' /\ TriesInv'
    BY <2>1, <2>2 DEF MessagesInv, WellTyped, TriesInv
  <2>6. FreshInv'
    <3>1. server' = "up" /\ server = "up" /\ conns' = conns + 1 /\ conns \in Nat
      BY <1>2, <1>7 DEF Connect, Accept, TypeOK
    <3>2. \A g \in Fds : g > conns' => g > conns /\ g # conns'
      BY <3>1 DEF Fds
    <3> QED BY <2>2, <3>1, <3>2 DEF FreshInv, Alive
  <2> QED BY <1>1, <2>4, <2>5, <2>6
<1>8. CASE Boot
  <2>1. /\ at' = [g \in Fds |-> "none"]
        /\ \A g \in Fds : at[g] \in {"none", "gone"}
        /\ UNCHANGED <<tries, astray, player, heirs, toServer, toClient>>
    BY <1>8 DEF Boot
  <2>2. astray' = {}
    BY <2>1 DEF MyQQTypeOK, Talking
  <2>3. MyQQTypeOK'
    BY <2>1, <2>2 DEF MyQQTypeOK, Places
  <2>4. MessagesInv' /\ TriesInv' /\ FreshInv'
    BY <2>1 DEF MessagesInv, WellTyped, TriesInv, FreshInv
  <2> QED BY <1>1, <2>3, <2>4
<1>9. CASE Stop
  <2>1. /\ toServer' = [g \in Fds |-> <<>>] /\ End(Fds \ heirs')
        /\ heirs' \subseteq Fds /\ server' \in {"off", "exited"}
        /\ UNCHANGED <<at, tries, astray, player>>
    BY <1>9 DEF Stop, AcceptFail, Crash, MyQQTypeOK
  <2>2. toClient' \in [Fds -> Seq(ReplyTypes \cup {"EOF"})]
    BY <2>1, EndLemma
  <2>3. toServer' \in [Fds -> Seq(Request)]
    BY <2>1
  <2>4. MyQQTypeOK'
    BY <2>1, <2>2, <2>3 DEF MyQQTypeOK
  <2>5. MessagesInv' /\ FreshInv'
    BY <2>1 DEF MessagesInv, FreshInv, Alive
  <2> QED BY <1>1, <1>4, <2>1, <2>4, <2>5
<1>10. CASE SenderFails \/ KillSender
  <2>1. /\ heirs' = {} /\ IF Alive THEN toClient' = toClient ELSE End(heirs)
        /\ (Alive' <=> Alive) /\ conns' = conns
        /\ UNCHANGED <<at, tries, astray, player, toServer>>
    BY <1>10, SenderGoneLemma DEF netVars
  <2>2. toClient' \in [Fds -> Seq(ReplyTypes \cup {"EOF"})]
    BY <2>1, EndLemma DEF MyQQTypeOK
  <2>3. MyQQTypeOK' /\ MessagesInv' /\ FreshInv'
    BY <2>1, <2>2 DEF MyQQTypeOK, MessagesInv, WellTyped, FreshInv
  <2> QED BY <1>1, <1>4, <2>1, <2>3
<1> QED BY <1>3, <1>5, <1>6, <1>7, <1>8, <1>9, <1>10 DEF MyQQNext

LEMMA CoreInvInit == MyQQInit => CoreInv
<1> SUFFICES ASSUME MyQQInit PROVE CoreInv
  OBVIOUS
<1>1. TypeOK
  <2>1. <<>> \in Seq(Node)
    OBVIOUS
  <2> QED BY <2>1, SilenceLemma, FdAssumption DEF MyQQInit, Init, TypeOK
<1>2. MediaCounted
  <2>1. PlayingAt(<<>>) = {}
    BY DEF PlayingAt
  <2> QED BY <2>1, FS_EmptySet DEF MyQQInit, Init, MediaCounted, NoPid, Pid
<1>3. NamesInv /\ OnlineInv /\ LockInv
  BY DEF MyQQInit, Init, NamesInv, UniqueNames, ChangingFree, OnlineInv,
         OnlineFds, OnlineAt, LockInv
<1>4. /\ at \in [Fds -> Places]
      /\ toServer \in [Fds -> Seq(Request)]
      /\ toClient \in [Fds -> Seq(ReplyTypes \cup {"EOF"})]
      /\ tries \in [Fds -> 0..Chances] /\ player \in [Fds -> BOOLEAN]
  BY ClientAssumption DEF MyQQInit, Places
<1>5. MyQQTypeOK
  BY <1>4 DEF MyQQInit, MyQQTypeOK
<1>6. MessagesInv /\ TriesInv /\ FreshInv
  BY DEF MyQQInit, Init, MessagesInv, TriesInv, FreshInv, Alive
<1> QED BY <1>1, <1>2, <1>3, <1>5, <1>6 DEF CoreInv, ServerInv

LEMMA CoreInvariant == MyQQSpec => []CoreInv
<1>1. CoreInv /\ UNCHANGED myqqVars => CoreInv'
  <2> SUFFICES ASSUME CoreInv, UNCHANGED myqqVars PROVE CoreInv'
    OBVIOUS
  <2>1. ServerInv'
    <3>1. Quiet
      BY DEF myqqVars, vars, Quiet
    <3> QED BY <3>1, ServerInvStep DEF CoreInv
  <2>2. MyQQTypeOK' /\ MessagesInv' /\ TriesInv' /\ FreshInv'
    BY DEF myqqVars, vars, netVars, clientVars, CoreInv, MyQQTypeOK, MessagesInv,
           WellTyped, TriesInv, FreshInv, Alive
  <2> QED BY <2>1, <2>2 DEF CoreInv
<1>2. CoreInv /\ [MyQQNext]_myqqVars => CoreInv'
  BY <1>1, CoreInvStep
<1> QED BY <1>2, CoreInvInit, PTL DEF MyQQSpec

(* The clients and the queues keep their types: no sequence of answers,    *)
(* stale ones included, leaves a client at a place where its code is not,  *)
(* or with fewer than no chances.                                          *)
THEOREM MyQQTypeCorrect == MyQQSpec => []MyQQTypeOK
BY CoreInvariant, PTL DEF CoreInv

(* With the clients of user.c around it, the server still waits forever    *)
(* for its write lock only when the preparation of an insert fails.        *)
THEOREM MyQQNeverHangs == MyQQSpec => []NeverHung
<1>1. CoreInv => NeverHung
  BY DEF CoreInv, ServerInv, LockInv, NeverHung
<1> QED BY <1>1, CoreInvariant, PTL

(* What is proved of the server alone, against any messages in any order,  *)
(* is true of the server among its clients: no name in two rows, no player *)
(* uncounted, nobody online without a connection, and none left online at  *)
(* the end of his stream whose descriptor was not shared.                  *)
THEOREM ServerAmongClients ==
  MyQQSpec => [](UniqueNames /\ MediaCounted /\ OnlineConnected /\ GhostsWereShared)
<1>1. CoreInv => UniqueNames /\ MediaCounted /\ OnlineConnected /\ GhostsWereShared
  BY DEF CoreInv, ServerInv, NamesInv, OnlineInv, OnlineFds, OnlineConnected,
         GhostsWereShared
<1> QED BY <1>1, CoreInvariant, PTL

(* The server among its clients implements Accounts as well: whatever the  *)
(* clients send, and in whatever order it is answered, an account is lost  *)
(* only by a change of password that was cut short.                        *)
THEOREM MyQQImplementsAccounts == MyQQSpec => ImplementsAccounts
<1>1. MyQQInit => A!Init
  BY DEF MyQQInit, Init, A!Init, ChangingName
<1>2. CoreInv /\ [MyQQNext]_myqqVars => [A!Next]_<<table, ChangingName>>
  <2> SUFFICES ASSUME CoreInv, [MyQQNext]_myqqVars
               PROVE  A!Next \/ UNCHANGED <<table, ChangingName>>
    OBVIOUS
  <2>1. (Next \/ Quiet) \/ UNCHANGED vars
    BY ServerMoves DEF CoreInv, myqqVars
  <2>2. CASE Next
    BY <2>2, AccountsStep DEF Next, CoreInv, ServerInv
  <2>3. CASE Quiet \/ UNCHANGED vars
    BY <2>3 DEF Quiet, vars, dbVars, ChangingName
  <2> QED BY <2>1, <2>2, <2>3
<1> QED BY <1>1, <1>2, CoreInvariant, PTL DEF MyQQSpec, A!Spec, ImplementsAccounts

-----------------------------------------------------------------------------
(* The counter of the players and the nodes that play.                     *)
Surplus == rtsp_client_num - Players(userHead)

(* The end of a stream, by flags and descriptors.                          *)
LEMMA QuitFlags ==
  ASSUME NEW list \in Seq(Node), NEW i \in DOMAIN list, NEW fd \in Fds
  PROVE  /\ DOMAIN AfterQuit(list, i, fd) = DOMAIN list
         /\ AfterQuit(list, i, fd)[i].rtspPlayFlag = NO
         /\ \A j \in DOMAIN list :
              /\ AfterQuit(list, i, fd)[j].socketfd = list[j].socketfd
              /\ AfterQuit(list, i, fd)[j].userId = list[j].userId
              /\ j # i => AfterQuit(list, i, fd)[j].rtspPlayFlag = list[j].rtspPlayFlag
<1> DEFINE l == setLoginBySockID(list, fd, NO)
           after == AfterQuit(list, i, fd)
<1>1. \A j \in DOMAIN list : list[j] \in Node
  BY ListLemma
<1>2. /\ DOMAIN l = DOMAIN list
      /\ \A j \in DOMAIN list :
           /\ l[j] \in Node
           /\ l[j].socketfd = list[j].socketfd
           /\ l[j].userId = list[j].userId
           /\ l[j].rtspPlayFlag = list[j].rtspPlayFlag
  BY <1>1 DEF setLoginBySockID, Node, NO, YES
<1> HIDE DEF l
<1>3. after = [l EXCEPT ![i].rtspPlayFlag = NO]
  BY DEF l, AfterQuit
<1> HIDE DEF after
<1>4. DOMAIN after = DOMAIN list
  BY <1>2, <1>3
<1>5. \A j \in DOMAIN list :
        /\ after[j].socketfd = l[j].socketfd /\ after[j].userId = l[j].userId
        /\ after[j].rtspPlayFlag = IF j = i THEN NO ELSE l[j].rtspPlayFlag
  BY <1>2, <1>3 DEF Node
<1> QED BY <1>2, <1>4, <1>5 DEF after

(* Every handler keeps the two in step, but the removal of a user who      *)
(* plays: nobody counts him out.                                           *)
LEMMA SurplusKept ==
  ASSUME TypeOK, TypeOK', NEW fd \in Fds, NEW m, WellTyped(m), Handle(fd, m),
         m.type # "UNREGIST"
  PROVE  Surplus' = Surplus
<1>1. /\ userHead \in Seq(Node) /\ userHead' \in Seq(Node)
      /\ Players(userHead) \in Nat /\ Players(userHead') \in Nat
      /\ rtsp_client_num \in Int /\ rtsp_client_num' \in Int
      /\ \A i \in DOMAIN userHead : userHead[i] \in Node
  BY PlayersType, ListLemma DEF TypeOK
<1>2. ASSUME rtsp_client_num' = rtsp_client_num, Players(userHead') = Players(userHead)
      PROVE  Surplus' = Surplus
  BY <1>2 DEF Surplus, Players
<1>4. \A flag \in {NO, YES}, i \in DOMAIN userHead :
        LET after == [userHead EXCEPT ![i].rtspPlayFlag = flag] IN
        /\ DOMAIN after = DOMAIN userHead
        /\ after[i].rtspPlayFlag = flag
        /\ \A j \in DOMAIN userHead : j # i =>
              after[j].rtspPlayFlag = userHead[j].rtspPlayFlag
  BY <1>1 DEF Node
<1>5. ASSUME DropPlayer, Players(userHead') = Players(userHead) - 1
      PROVE  Surplus' = Surplus
  BY <1>1, <1>5 DEF DropPlayer, Surplus
<1>6. CASE ReqMedia(fd)
  <2>1. PICK i \in DOMAIN userHead :
          \/ UNCHANGED <<userHead, mediaVars>>
          \/ rtsp_server_pid' = Pid /\ AddPlayer(fd, i)
    BY <1>6 DEF ReqMedia
  <2>2. CASE UNCHANGED <<userHead, rtsp_client_num>>
    BY <1>2, <2>2
  <2>3. CASE AddPlayer(fd, i) /\ userHead[i].rtspPlayFlag # YES
    <3>1. userHead[i].rtspPlayFlag = NO
      BY <1>1, <2>3 DEF Node
    <3>2. /\ userHead' = [userHead EXCEPT ![i].rtspPlayFlag = YES]
          /\ rtsp_client_num' = rtsp_client_num + 1
      BY <2>3 DEF AddPlayer
    <3>3. Players(userHead') = Players(userHead) + 1
      BY <1>1, <1>4, <3>1, <3>2, PlayersSet
    <3> QED BY <1>1, <3>2, <3>3 DEF Surplus
  <2> QED BY <2>1, <2>2, <2>3 DEF AddPlayer, mediaVars
<1>7. CASE StopMedia(fd)
  <2>1. PICK i \in DOMAIN userHead :
          IF userHead[i].rtspPlayFlag = YES
          THEN /\ userHead' = [userHead EXCEPT ![i].rtspPlayFlag = NO]
               /\ DropPlayer
          ELSE UNCHANGED <<userHead, mediaVars>>
    BY <1>7 DEF StopMedia
  <2>2. CASE userHead[i].rtspPlayFlag = YES
    <3>1. Players(userHead') = Players(userHead) - 1
      BY <1>1, <1>4, <2>1, <2>2, PlayersSet
    <3> QED BY <1>5, <2>1, <2>2, <3>1
  <2>3. CASE userHead[i].rtspPlayFlag # YES
    BY <1>2, <2>1, <2>3 DEF mediaVars
  <2> QED BY <2>2, <2>3
<1>8. CASE Quit(fd)
  <2>1. CASE UNCHANGED <<userHead, mediaVars>>
    BY <1>2, <2>1 DEF mediaVars
  <2>2. CASE \E i \in DOMAIN userHead : QuitOnline(fd, i)
    <3>1. PICK i \in DOMAIN userHead : QuitOnline(fd, i)
      BY <2>2
    <3>2. /\ DOMAIN userHead' = DOMAIN userHead
          /\ userHead'[i].rtspPlayFlag = NO
          /\ \A j \in DOMAIN userHead : j # i =>
                userHead'[j].rtspPlayFlag = userHead[j].rtspPlayFlag
      BY <1>1, <3>1, QuitFlags DEF QuitOnline, AfterQuit
    <3>3. CASE userHead[i].rtspPlayFlag = YES
      <4>1. Players(userHead') = Players(userHead) - 1
        BY <1>1, <3>2, <3>3, PlayersSet
      <4> QED BY <1>5, <3>1, <3>3, <4>1 DEF QuitOnline
    <3>4. CASE userHead[i].rtspPlayFlag = NO
      <4>1. \A j \in DOMAIN userHead :
              userHead'[j].rtspPlayFlag = userHead[j].rtspPlayFlag
        BY <3>2, <3>4
      <4>2. Players(userHead') = Players(userHead)
        BY <3>2, <4>1, PlayersSame
      <4> QED BY <1>2, <3>1, <3>4, <4>2 DEF QuitOnline, NO, YES, mediaVars
    <3> QED BY <1>1, <3>3, <3>4 DEF Node
  <2> QED BY <1>8, <2>1, <2>2 DEF Quit
<1>9. CASE Discard(fd) \/ ReqUsers(fd)
           \/ \E pw \in Passwords \cup {Empty} : ChangePassward(fd, pw)
  <2>1. UNCHANGED <<userHead, mediaVars>>
    BY <1>9 DEF Discard, ReqUsers, ChangePassward
  <2> QED BY <1>2, <2>1 DEF mediaVars
<1>10. CASE \/ \E name \in Names, pw \in Passwords : Register(fd, name, pw)
            \/ \E name \in Names, pw \in Passwords : Login(fd, name, pw)
            \/ \E new \in Names \cup {Empty} : Rename(fd, new)
            \/ Logout(fd)
  <2>1. rtsp_client_num' = rtsp_client_num
    BY <1>10 DEF Register, Login, Rename, Logout, mediaVars
  <2>2. Players(userHead') = Players(userHead)
    BY <1>10, PlayersStep
  <2> QED BY <1>2, <2>1, <2>2
<1> QED BY <1>6, <1>7, <1>8, <1>9, <1>10, ClientAssumption DEF Handle, WellTyped

LEMMA SurplusStep ==
  ASSUME TypeOK, TypeOK', NEW fd \in Fds, NEW m, WellTyped(m), Handle(fd, m)
  PROVE  Surplus' >= Surplus
<1>1. /\ Players(userHead) \in Nat /\ Players(userHead') \in Nat
      /\ rtsp_client_num \in Int /\ rtsp_client_num' \in Int
  BY PlayersType DEF TypeOK
<1>2. CASE m.type = "UNREGIST" /\ Unregister(fd)
  <2>1. rtsp_client_num' = rtsp_client_num
    BY <1>2 DEF Unregister, mediaVars
  <2>2. Players(userHead') <= Players(userHead)
    BY <1>2, PlayersStep
  <2> QED BY <1>1, <2>1, <2>2 DEF Surplus
<1>3. CASE m.type # "UNREGIST"
  BY <1>1, <1>3, SurplusKept DEF Surplus
<1>4. CASE m.type = "UNREGIST" /\ Discard(fd)
  BY <1>1, <1>4 DEF Discard, Surplus, mediaVars
<1> QED BY <1>2, <1>3, <1>4 DEF Handle

(* When nobody removes his account, the counter is exact.                  *)
NobodyUnregisters == \A fd \in Fds : "UNREGIST" \notin Uses[fd]
ExactInv == Surplus = 0 /\ (Alive \/ rtsp_client_num = 0)

LEMMA SurplusOther ==
  ASSUME TypeOK, TypeOK', ExactInv,
         Quiet \/ FinishChange \/ Accept \/ AcceptFail \/ Crash \/ Start
  PROVE  ExactInv'
<1>1. CASE Quiet \/ FinishChange \/ Accept
  BY <1>1 DEF Quiet, FinishChange, Accept, mediaVars, ExactInv, Surplus, Players, Alive
<1>2. CASE AcceptFail \/ Crash
  <2>1. userHead' = <<>> /\ rtsp_client_num' = 0
    BY <1>2 DEF AcceptFail, Crash, Gone
  <2>2. PlayingAt(<<>>) = {}
    BY DEF PlayingAt
  <2>3. Players(userHead') = 0
    BY <2>1, <2>2, FS_EmptySet DEF Players
  <2> QED BY <2>1, <2>3 DEF ExactInv, Surplus, Players
<1>3. CASE Start
  <2>1. rtsp_client_num' = 0
    BY <1>3 DEF Start, qq_sql3_init, LoadUsers, mediaVars, ExactInv, Alive
  <2>2. \A i \in DOMAIN userHead' : userHead'[i].rtspPlayFlag = NO
    BY <1>3 DEF Start, qq_sql3_init, LoadUsers, NewNode
  <2>3. PlayingAt(userHead') = {}
    BY <2>2 DEF PlayingAt, NO, YES
  <2> QED BY <2>1, <2>3, FS_EmptySet DEF ExactInv, Surplus, Players
<1> QED BY <1>1, <1>2, <1>3

LEMMA SurplusInvariant ==
  ASSUME NobodyUnregisters
  PROVE  MyQQSpec => [](CoreInv /\ ExactInv)
<1>1. MyQQInit => ExactInv
  <2>1. PlayingAt(<<>>) = {}
    BY DEF PlayingAt
  <2>2. MyQQInit => userHead = <<>> /\ rtsp_client_num = 0
    BY DEF MyQQInit, Init
  <2> QED BY <2>1, <2>2, FS_EmptySet DEF ExactInv, Surplus, Players
<1>2. CoreInv /\ CoreInv' /\ ExactInv /\ [MyQQNext]_myqqVars => ExactInv'
  <2> SUFFICES ASSUME CoreInv, CoreInv', ExactInv, [MyQQNext]_myqqVars
               PROVE  ExactInv'
    OBVIOUS
  <2>1. TypeOK /\ TypeOK'
    BY DEF CoreInv, ServerInv
  <2>2. ASSUME NEW fd \in Fds, Deliver(fd)
        PROVE  ExactInv'
    <3> DEFINE m == Head(toServer[fd])
    <3>1. Handle(fd, m) /\ m \in Request /\ WellTyped(m)
      BY <2>2, FirstLemma DEF Deliver, CoreInv
    <3> HIDE DEF m
    <3>2. m.type # "UNREGIST"
      <4>1. \A X \in Range(Uses) : "UNREGIST" \notin X
        BY ClientAssumption DEF Range, NobodyUnregisters
      <4>2. m.type \in (UNION Range(Uses)) \cup
                {"REGIST", "LOGIN", "REQ_OL", "STOP_MEDIA", "QUIT", "EOF"}
        BY <3>1 DEF Request
      <4> QED BY <4>1, <4>2
    <3>3. Surplus' = Surplus
      BY <2>1, <3>1, <3>2, SurplusKept
    <3>4. Alive /\ Alive'
      BY <3>1, HandleLemma, ReceiveNet DEF Alive
    <3> QED BY <3>3, <3>4 DEF ExactInv
  <2>3. ASSUME NEW fd \in Fds, User(fd)
        PROVE  ExactInv'
    BY <2>1, <2>3, UserQuiet, SurplusOther
  <2>4. CASE FinishHandler \/ Connect \/ Boot \/ Stop
    BY <2>1, <2>4, SurplusOther DEF FinishHandler, Connect, Boot, Stop
  <2>5. CASE SenderFails \/ KillSender \/ UNCHANGED myqqVars
    <3>1. Quiet
      BY <2>5, SenderGoneLemma DEF myqqVars, vars, Quiet
    <3> QED BY <2>1, <3>1, SurplusOther
  <2> QED BY <2>2, <2>3, <2>4, <2>5 DEF MyQQNext
<1>3. MyQQSpec => [](CoreInv /\ ExactInv)
  BY <1>1, <1>2, CoreInvariant, PTL DEF MyQQSpec
<1> QED BY <1>3

(* As long as nobody removes his account, the counter is the number of     *)
(* the nodes that are marked as playing, and the server has the process id *)
(* of a media sender exactly when there are any.  (A mark may outlive the  *)
(* one who plays: a logout leaves it, and the end of a connection whose    *)
(* node is logged out does not take it away.  The run sender shows what    *)
(* either of the two, a removal or a logout, does.)                        *)
CounterExact ==
  /\ rtsp_client_num = Cardinality(PlayingAt(userHead))
  /\ rtsp_server_pid = Pid <=> PlayingAt(userHead) # {}

THEOREM CounterIsExact ==
  ASSUME NobodyUnregisters
  PROVE  MyQQSpec => []CounterExact
<1>1. CoreInv /\ ExactInv => CounterExact
  <2> SUFFICES ASSUME CoreInv, ExactInv
               PROVE  CounterExact
    OBVIOUS
  <2>1. /\ rtsp_client_num \in Int /\ userHead \in Seq(Node)
        /\ rtsp_server_pid = Pid <=> rtsp_client_num > 0
    BY DEF CoreInv, ServerInv, MediaCounted, TypeOK
  <2>2. Players(userHead) \in Nat /\ rtsp_client_num = Players(userHead)
    BY <2>1, PlayersType DEF ExactInv, Surplus
  <2>3. Players(userHead) = 0 <=> PlayingAt(userHead) = {}
    BY <2>1, PlayersType, FS_EmptySet DEF Players
  <2> QED BY <2>1, <2>2, <2>3 DEF CounterExact, Players
<1>2. MyQQSpec => [](CoreInv /\ ExactInv)
  BY SurplusInvariant
<1> QED BY <1>1, <1>2, PTL

-----------------------------------------------------------------------------
(* The names in the list.                                                  *)
LEMMA ListedSame ==
  ASSUME NEW list, NEW after, DOMAIN after = DOMAIN list,
         \A i \in DOMAIN list : after[i].userId = list[i].userId
  PROVE  /\ Listed(after) = Listed(list)
         /\ OneNodeEach(list) => OneNodeEach(after)
BY DEF Listed, NamesAt, OneNodeEach

LEMMA ListedAdd ==
  ASSUME NEW list \in Seq(Node), NEW node \in Node,
         OneNodeEach(list), node.userId \notin Listed(list)
  PROVE  /\ Listed(addUserToList(list, node)) = Listed(list) \cup {node.userId}
         /\ OneNodeEach(addUserToList(list, node))
<1> DEFINE after == addUserToList(list, node)
<1>1. Len(list) \in Nat /\ DOMAIN list = 1..Len(list)
  BY ListLemma
<1>2. /\ DOMAIN after = 1..(Len(list) + 1)
      /\ after[1] = node
      /\ \A j \in 2..(Len(list) + 1) : after[j] = list[j - 1]
  <2>1. list \in Seq(Node) /\ node \in Node
    OBVIOUS
  <2> QED BY <2>1, AddLemma
<1> HIDE DEF after
<1>3. /\ 1 \in DOMAIN after
      /\ \A j \in DOMAIN list : j + 1 \in DOMAIN after /\ after[j + 1] = list[j]
      /\ \A j \in DOMAIN after : j # 1 =>
            /\ j - 1 \in DOMAIN list /\ after[j] = list[j - 1]
            /\ j \in Int
  BY <1>1, <1>2
<1>4. Listed(after) = Listed(list) \cup {node.userId}
  <2>1. ASSUME NEW n \in Listed(after)
        PROVE  n \in Listed(list) \cup {node.userId}
    BY <1>2, <1>3 DEF Listed, NamesAt
  <2>2. ASSUME NEW n \in Listed(list)
        PROVE  n \in Listed(after)
    <3>1. PICK j \in DOMAIN list : n = list[j].userId
      BY DEF Listed, NamesAt
    <3>2. j + 1 \in DOMAIN after /\ after[j + 1].userId = n
      BY <1>3, <3>1
    <3> QED BY <3>2 DEF Listed, NamesAt
  <2>3. node.userId \in Listed(after)
    BY <1>2, <1>3 DEF Listed, NamesAt
  <2> QED BY <2>1, <2>2, <2>3
<1>5. OneNodeEach(after)
  <2> SUFFICES ASSUME NEW i \in DOMAIN after, NEW j \in DOMAIN after,
                      after[i].userId = after[j].userId
               PROVE  i = j
    BY DEF OneNodeEach
  <2>1. \A k \in DOMAIN list : list[k].userId # node.userId
    BY DEF Listed, NamesAt
  <2>2. CASE i = 1 \/ j = 1
    BY <1>2, <1>3, <2>1, <2>2
  <2>3. CASE i # 1 /\ j # 1
    <3>1. i - 1 = j - 1 /\ i \in Int /\ j \in Int
      BY <1>3, <2>3 DEF OneNodeEach
    <3> QED BY <3>1
  <2> QED BY <2>2, <2>3
<1> QED BY <1>4, <1>5 DEF after

LEMMA ListedRemove ==
  ASSUME NEW list \in Seq(Node), NEW k \in DOMAIN list, OneNodeEach(list)
  PROVE  /\ Listed(RemoveAt(list, k)) = Listed(list) \ {list[k].userId}
         /\ OneNodeEach(RemoveAt(list, k))
<1> DEFINE after == RemoveAt(list, k)
<1>1. Len(list) \in Nat /\ DOMAIN list = 1..Len(list)
  BY ListLemma
<1>2. /\ DOMAIN after = 1..(Len(list) - 1)
      /\ \A j \in 1..(Len(list) - 1) :
            after[j] = IF j < k THEN list[j] ELSE list[j + 1]
  BY <1>1, RemoveLemma
<1> HIDE DEF after
<1> DEFINE old(j) == IF j < k THEN j ELSE j + 1
           new(i) == IF i < k THEN i ELSE i - 1
<1>3. \A j \in DOMAIN after :
        /\ old(j) \in DOMAIN list /\ old(j) # k /\ after[j] = list[old(j)]
        /\ j \in Int /\ new(old(j)) = j
  BY <1>1, <1>2
<1>4. \A i \in DOMAIN list : i # k =>
        new(i) \in DOMAIN after /\ old(new(i)) = i
  BY <1>1, <1>2
<1> HIDE DEF old, new
<1>5. Listed(after) = Listed(list) \ {list[k].userId}
  <2>1. ASSUME NEW n \in Listed(after)
        PROVE  n \in Listed(list) /\ n # list[k].userId
    <3>1. PICK j \in DOMAIN after : n = after[j].userId
      BY DEF Listed, NamesAt
    <3> QED BY <1>3, <3>1 DEF Listed, NamesAt, OneNodeEach
  <2>2. ASSUME NEW n \in Listed(list), n # list[k].userId
        PROVE  n \in Listed(after)
    <3>1. PICK i \in DOMAIN list : n = list[i].userId
      BY DEF Listed, NamesAt
    <3>2. new(i) \in DOMAIN after /\ after[new(i)].userId = n
      BY <1>3, <1>4, <2>2, <3>1
    <3> QED BY <3>2 DEF Listed, NamesAt
  <2> QED BY <2>1, <2>2
<1>6. OneNodeEach(after)
  <2> SUFFICES ASSUME NEW i \in DOMAIN after, NEW j \in DOMAIN after,
                      after[i].userId = after[j].userId
               PROVE  i = j
    BY DEF OneNodeEach
  <2>1. old(i) = old(j)
    BY <1>3 DEF OneNodeEach
  <2> QED BY <1>3, <2>1
<1> QED BY <1>5, <1>6 DEF after

(* The list that main loads.                                               *)
LEMMA ListedLoaded ==
  ASSUME TypeOK, LoadUsers
  PROVE  /\ Listed(userHead') = {r.name : r \in table}
         /\ OneNodeEach(userHead')
<1> DEFINE S == {r.name : r \in table}
<1>1. IsFiniteSet(S) /\ Cardinality(S) \in Nat
  <2>1. S \subseteq Names
    BY DEF TypeOK, Row
  <2> QED BY <2>1, ServerAssumption, FS_Subset, FS_CardinalityType
<1> DEFINE n == Cardinality(S)
<1>2. PICK order \in SetToSeqs(S) :
        userHead' = [i \in DOMAIN order |-> NewNode(order[i], NoFd)]
  BY DEF LoadUsers
<1>3. /\ order \in [1..n -> S]
      /\ \A i, j \in 1..n : i # j => order[i] # order[j]
  BY DEF SetToSeqs
<1>4. Cardinality(1..n) = n
  <2>1. n \in Nat
    BY <1>1
  <2> HIDE DEF n
  <2>2. Cardinality(1..n) = IF 1 > n THEN 0 ELSE n - 1 + 1
    BY <2>1, FS_Interval
  <2> QED BY <2>1, <2>2
<1>5. order \in Injection(1..n, S)
  BY <1>3 DEF Injection, IsInjective
<1>6. order \in Surjection(1..n, S)
  BY <1>1, <1>4, <1>5, FS_Injection
<1> HIDE DEF S, n
<1>7. \A name \in S : \E i \in 1..n : order[i] = name
  BY <1>6 DEF Surjection
<1>8. /\ DOMAIN userHead' = 1..n
      /\ \A i \in 1..n : userHead'[i].userId = order[i]
  BY <1>2, <1>3 DEF NewNode
<1>9. Listed(userHead') = S
  BY <1>3, <1>7, <1>8 DEF Listed, NamesAt
<1>10. OneNodeEach(userHead')
  BY <1>3, <1>8 DEF OneNodeEach
<1> QED BY <1>9, <1>10 DEF S

-----------------------------------------------------------------------------
(* The table and the list, handler by handler.  That each search by a name *)
(* finds the node that has the name needs names of which none is a prefix  *)
(* of another.                                                             *)
LEMMA FindLemma ==
  ASSUME TypeOK, PrefixesAreNames, NEW i \in DOMAIN userHead,
         NEW k, findNodeByName(userHead, userHead[i].userId, k)
  PROVE  k \in DOMAIN userHead /\ userHead[k].userId = userHead[i].userId
BY ListLemma DEF TypeOK, PrefixesAreNames, findNodeByName, Matches

(* Handlers that write neither the table nor a name.                       *)
LEMMA NamesKept ==
  ASSUME TypeOK, NEW fd \in Fds,
         \/ Discard(fd) \/ ReqUsers(fd) \/ Logout(fd) \/ Quit(fd)
         \/ ReqMedia(fd) \/ StopMedia(fd)
         \/ \E name \in Names, pw \in Passwords : Login(fd, name, pw)
  PROVE  /\ UNCHANGED <<server, table, changing>>
         /\ DOMAIN userHead' = DOMAIN userHead
         /\ \A i \in DOMAIN userHead : userHead'[i].userId = userHead[i].userId
<1> DEFINE list == userHead
           Kept == /\ DOMAIN userHead' = DOMAIN list
                   /\ \A i \in DOMAIN list : userHead'[i].userId = list[i].userId
<1>1. /\ DOMAIN list = 1..Len(list) /\ list \in [1..Len(list) -> Node]
      /\ \A i \in DOMAIN list : list[i] \in Node
  BY ListLemma, LenProperties DEF TypeOK
<1>2. UNCHANGED <<server, table, changing>>
  BY DEF Discard, ReqUsers, Logout, Quit, ReqMedia, StopMedia, Login, dbVars
<1>3. ASSUME userHead' = list
      PROVE  Kept
  BY <1>3
<1>4. ASSUME NEW i \in DOMAIN list, NEW fl,
             \/ userHead' = [list EXCEPT ![i].logFlag = fl]
             \/ userHead' = [list EXCEPT ![i].rtspPlayFlag = fl]
      PROVE  Kept
  BY <1>1, <1>4 DEF Node
<1>5. ASSUME NEW i \in DOMAIN list, userHead' = SetOnline(list, i, fd)
      PROVE  Kept
  <2> DEFINE l == [list EXCEPT ![i].logFlag = YES]
  <2>1. /\ DOMAIN l = DOMAIN list /\ l \in [DOMAIN list -> Node]
        /\ \A j \in DOMAIN list : l[j].userId = list[j].userId
    BY <1>1 DEF Node, YES
  <2> HIDE DEF l
  <2>2. userHead' = [l EXCEPT ![i].socketfd = fd]
    BY <1>5 DEF SetOnline, l
  <2>3. /\ DOMAIN userHead' = DOMAIN l
        /\ \A j \in DOMAIN l : userHead'[j].userId = l[j].userId
    BY <2>1, <2>2 DEF Node
  <2> QED BY <2>1, <2>3
<1>6. ASSUME NEW i \in DOMAIN list, userHead' = AfterQuit(list, i, fd)
      PROVE  Kept
  <2> DEFINE l == setLoginBySockID(list, fd, NO)
  <2>1. /\ DOMAIN l = DOMAIN list
        /\ \A j \in DOMAIN list : l[j] \in Node /\ l[j].userId = list[j].userId
    BY <1>1 DEF setLoginBySockID, Node, NO, YES
  <2> HIDE DEF l
  <2>2. userHead' = [l EXCEPT ![i].rtspPlayFlag = NO]
    BY <1>6 DEF AfterQuit, l
  <2>3. /\ DOMAIN userHead' = DOMAIN l
        /\ \A j \in DOMAIN l : userHead'[j].userId = l[j].userId
    BY <2>1, <2>2 DEF Node
  <2> QED BY <2>1, <2>3
<1> HIDE DEF Kept
<1>7. \/ userHead' = list
      \/ \E i \in DOMAIN list, fl \in {NO, YES} :
           \/ userHead' = [list EXCEPT ![i].logFlag = fl]
           \/ userHead' = [list EXCEPT ![i].rtspPlayFlag = fl]
      \/ \E i \in DOMAIN list : userHead' = SetOnline(list, i, fd)
      \/ \E i \in DOMAIN list : userHead' = AfterQuit(list, i, fd)
  <2>1. CASE Discard(fd) \/ ReqUsers(fd)
    BY <2>1 DEF Discard, ReqUsers
  <2>2. CASE Logout(fd)
    BY <2>2 DEF Logout
  <2>3. CASE ReqMedia(fd)
    BY <2>3 DEF ReqMedia, AddPlayer
  <2>4. CASE StopMedia(fd)
    BY <2>4 DEF StopMedia
  <2>5. CASE Quit(fd)
    BY <2>5 DEF Quit, QuitOnline, AfterQuit
  <2>6. CASE \E name \in Names, pw \in Passwords : Login(fd, name, pw)
    BY <2>6 DEF Login
  <2> QED BY <2>1, <2>2, <2>3, <2>4, <2>5, <2>6
<1> QED BY <1>2, <1>3, <1>4, <1>5, <1>6, <1>7 DEF Kept

(* The names after a row has been added to the table.                      *)
LEMMA RowAdded ==
  ASSUME NEW T, NEW name, NEW pw
  PROVE  {r.name : r \in T \cup {[name |-> name, pw |-> pw]}}
           = {r.name : r \in T} \cup {name}
<1> DEFINE row == [name |-> name, pw |-> pw]
<1>1. row.name = name
  OBVIOUS
<1> HIDE DEF row
<1>2. {r.name : r \in T \cup {row}} = {r.name : r \in T} \cup {name}
  BY <1>1
<1> QED BY <1>2 DEF row

(* One message, handled.                                                   *)
LEMMA TableHandle ==
  ASSUME PrefixesAreNames, NobodyRenames, InsertsWork,
         ServerInv, TableInv, NEW fd \in Fds, NEW m, WellTyped(m), Handle(fd, m)
  PROVE  TableInv'
<1> USE DEF ServerInv
<1>1. Receive(fd)
  BY HandleLemma
<1>2. /\ server = "up" /\ changing = NoChange
      /\ OneNodeEach(userHead) /\ Listed(userHead) = {r.name : r \in table}
  BY <1>1, ReceiveNet DEF TableInv, Accounted
<1>3. /\ writeLock = "free" /\ ~ LockForever
      /\ "step" \notin Faults /\ "prepare" \notin Faults
  BY DEF LockInv, InsertsWork, LockForever
<1>4. userHead \in Seq(Node) /\ \A i \in DOMAIN userHead : userHead[i].userId \in Names
  BY ListLemma DEF TypeOK
<1>5. ASSUME server' = "up", UNCHANGED <<table, changing>>, OneNodeEach(userHead'),
             Listed(userHead') = Listed(userHead)
      PROVE  TableInv'
  BY <1>2, <1>5 DEF TableInv, Accounted
<1>6. CASE UNCHANGED <<server, table, changing, userHead>>
  BY <1>2, <1>5, <1>6
<1>7. CASE \/ Discard(fd) \/ ReqUsers(fd) \/ Logout(fd) \/ Quit(fd)
           \/ ReqMedia(fd) \/ StopMedia(fd)
           \/ \E name \in Names, pw \in Passwords : Login(fd, name, pw)
  BY <1>2, <1>5, <1>7, NamesKept, ListedSame
<1>8. CASE m.type = "REGIST" /\ Register(fd, m.name, m.pw)
  <2>1. m.name \in Names /\ server' = "up" /\ changing' = NoChange
    BY <1>2, <1>3, <1>8 DEF WellTyped, Register
  <2>2. \/ UNCHANGED <<server, table, changing, userHead>>
        \/ /\ ~ Taken(m.name)
           /\ table' = table \cup {[name |-> m.name, pw |-> m.pw]}
           /\ userHead' = addUserToList(userHead, NewNode(m.name, fd))
    BY <1>2, <1>3, <1>8, <2>1 DEF Register, qq_sql3_insert
  <2>3. CASE /\ ~ Taken(m.name)
             /\ table' = table \cup {[name |-> m.name, pw |-> m.pw]}
             /\ userHead' = addUserToList(userHead, NewNode(m.name, fd))
    <3>1. /\ NewNode(m.name, fd) \in Node
          /\ NewNode(m.name, fd).userId = m.name
      BY <2>1 DEF NewNode, Node
    <3>2. m.name \notin Listed(userHead)
      BY <1>2, <2>3 DEF Taken
    <3>3. /\ Listed(userHead') = Listed(userHead) \cup {m.name}
          /\ OneNodeEach(userHead')
      BY <1>2, <1>4, <2>3, <3>1, <3>2, ListedAdd
    <3>4. {r.name : r \in table'} = {r.name : r \in table} \cup {m.name}
      BY <2>3, RowAdded
    <3> QED BY <1>2, <2>1, <3>3, <3>4 DEF TableInv, Accounted
  <2> QED BY <1>6, <2>2, <2>3
<1>9. CASE m.type = "RENAME" /\ Rename(fd, m.name)
  BY <1>9 DEF WellTyped, NobodyRenames
<1>10. CASE m.type = "CHG_PW" /\ ChangePassward(fd, m.pw)
  <2>1. server' = "up" /\ userHead' = userHead
    BY <1>2, <1>3, <1>10 DEF ChangePassward
  <2>2. PICK i \in DOMAIN userHead :
          \/ UNCHANGED <<table, changing>>
          \/ /\ changing' = [fd |-> fd, name |-> userHead[i].userId, pw |-> m.pw]
             /\ table' = {r \in table : r.name # userHead[i].userId}
    BY <1>3, <1>10 DEF ChangePassward, qq_sql3_delete, dbVars
  <2>3. CASE UNCHANGED <<table, changing>>
    BY <1>2, <1>6, <2>1, <2>3
  <2>4. CASE /\ changing' = [fd |-> fd, name |-> userHead[i].userId, pw |-> m.pw]
             /\ table' = {r \in table : r.name # userHead[i].userId}
    <3> DEFINE name == userHead[i].userId
    <3>1. changing' # NoChange /\ changing'.name = name
      BY <2>4 DEF NoChange, Fds, NoFd
    <3>2. name \in Listed(userHead)
      BY DEF Listed, NamesAt
    <3>3. {r.name : r \in table'} = {r.name : r \in table} \ {name}
      BY <2>4
    <3>4. {r.name : r \in table'} \cup {name} = Listed(userHead)
      BY <1>2, <3>2, <3>3
    <3> QED BY <1>2, <2>1, <3>1, <3>4 DEF TableInv, Accounted
  <2> QED BY <2>2, <2>3, <2>4
<1>11. CASE m.type = "UNREGIST" /\ Unregister(fd)
  <2>1. server' = "up" /\ changing' = NoChange
    BY <1>2, <1>3, <1>11 DEF Unregister
  <2>2. PICK i \in DOMAIN userHead :
          \/ UNCHANGED <<table, userHead>>
          \/ /\ table' = {r \in table : r.name # userHead[i].userId}
             /\ deleteNodeByName(userHead, userHead[i].userId, userHead')
    BY <1>3, <1>11 DEF Unregister, qq_sql3_delete
  <2>3. CASE UNCHANGED <<table, userHead>>
    BY <1>2, <1>6, <2>1, <2>3
  <2>4. CASE /\ table' = {r \in table : r.name # userHead[i].userId}
             /\ deleteNodeByName(userHead, userHead[i].userId, userHead')
    <3> DEFINE name == userHead[i].userId
    <3>1. ~ NoNodeByName(userHead, name)
      BY <1>4, PrefixAssumption DEF NoNodeByName, Matches
    <3>2. PICK k \in DOMAIN userHead :
            findNodeByName(userHead, name, k) /\ userHead' = RemoveAt(userHead, k)
      BY <2>4, <3>1 DEF deleteNodeByName
    <3>3. userHead[k].userId = name
      BY <3>2, FindLemma
    <3>4. Listed(userHead') = Listed(userHead) \ {name} /\ OneNodeEach(userHead')
      BY <1>2, <1>4, <3>2, <3>3, ListedRemove
    <3>5. {r.name : r \in table'} = {r.name : r \in table} \ {name}
      BY <2>4
    <3> QED BY <1>2, <2>1, <3>4, <3>5 DEF TableInv, Accounted
  <2> QED BY <2>2, <2>3, <2>4
<1>12. m.type = "LOGIN" /\ Login(fd, m.name, m.pw)
         => \E name \in Names, pw \in Passwords : Login(fd, name, pw)
  BY DEF WellTyped
<1> QED BY <1>7, <1>8, <1>9, <1>10, <1>11, <1>12 DEF Handle

LEMMA TableStep ==
  ASSUME PrefixesAreNames, NobodyRenames, InsertsWork,
         CoreInv, TableInv, MyQQNext
  PROVE  TableInv'
<1> USE DEF CoreInv, ServerInv
<1>1. CASE UNCHANGED <<server, table, changing, userHead>>
  BY <1>1 DEF TableInv, Accounted, Listed, NamesAt, OneNodeEach
<1>2. ASSUME NEW fd \in Fds, User(fd)
      PROVE  TableInv'
  BY <1>1, <1>2, UserQuiet DEF Quiet, dbVars
<1>3. ASSUME NEW fd \in Fds, Deliver(fd)
      PROVE  TableInv'
  BY <1>3, FirstLemma, TableHandle DEF Deliver
<1>4. CASE FinishHandler
  <2>1. /\ server' = "up" /\ changing' = NoChange /\ changing # NoChange
        /\ userHead' = userHead
        /\ table' = table \cup {[name |-> changing.name, pw |-> changing.pw]}
    BY <1>4 DEF FinishHandler, FinishChange, qq_sql3_insert, InsertsWork
  <2>2. server = "up"
    BY <1>4 DEF FinishHandler, FinishChange
  <2>3. {r.name : r \in table'} = {r.name : r \in table} \cup {changing.name}
    BY <2>1, RowAdded
  <2> QED BY <2>1, <2>2, <2>3 DEF TableInv, Accounted
<1>5. CASE Connect
  BY <1>1, <1>5 DEF Connect, Accept, dbVars
<1>6. CASE Boot
  <2>1. Start
    BY <1>6 DEF Boot
  <2>2. /\ server' = "up" /\ changing' = changing /\ table' = table
        /\ server # "up" /\ LoadUsers
    BY <2>1 DEF Start, qq_sql3_init
  <2>3. changing' = NoChange
    BY <2>2 DEF TableInv
  <2>4. Listed(userHead') = {r.name : r \in table} /\ OneNodeEach(userHead')
    BY <2>2, ListedLoaded
  <2> QED BY <2>2, <2>3, <2>4 DEF TableInv, Accounted
<1>7. CASE Stop
  <2>1. server' # "up" /\ changing' = NoChange /\ userHead' = <<>>
    BY <1>7 DEF Stop, AcceptFail, Crash, Gone
  <2> QED BY <2>1 DEF TableInv
<1>8. CASE SenderFails \/ KillSender
  BY <1>1, <1>8, SenderGoneLemma DEF dbVars
<1> QED BY <1>2, <1>3, <1>4, <1>5, <1>6, <1>7, <1>8 DEF MyQQNext

LEMMA TableInvariant ==
  ASSUME PrefixesAreNames, NobodyRenames, InsertsWork
  PROVE  MyQQSpec => []TableInv
<1>1. MyQQInit => TableInv
  BY DEF MyQQInit, Init, TableInv
<1>2. CoreInv /\ TableInv /\ [MyQQNext]_myqqVars => TableInv'
  <2>1. CASE UNCHANGED myqqVars
    BY <2>1 DEF myqqVars, vars, dbVars, TableInv, Accounted, Listed, NamesAt,
                OneNodeEach
  <2> QED BY <2>1, TableStep
<1> QED BY <1>1, <1>2, CoreInvariant, PTL DEF MyQQSpec

(* When no name is a prefix of another, nobody renames himself and inserts *)
(* do not fail, the list holds, between two handlers, the names of the     *)
(* table, each once: whatever number of users register, unregister and     *)
(* change their passwords in whatever order, and wherever the server is    *)
(* stopped and started again.  That the names in the list are distinct     *)
(* counts them.                                                            *)
THEOREM ListIsTheTable ==
  ASSUME PrefixesAreNames, NobodyRenames, InsertsWork
  PROVE  MyQQSpec => []ListIsTable
<1>1. ASSUME TypeOK, TableInv, server = "up", changing = NoChange
      PROVE  ListIsTable
  <2> DEFINE list == userHead
             S == {r.name : r \in table}
             f == [i \in 1..Len(list) |-> list[i].userId]
  <2>1. /\ Len(list) \in Nat /\ DOMAIN list = 1..Len(list)
        /\ Listed(list) = S /\ OneNodeEach(list)
    BY <1>1, ListLemma DEF TypeOK, TableInv, Accounted
  <2>2. f \in Bijection(1..Len(list), S)
    <3>1. f \in [1..Len(list) -> S]
      BY <2>1 DEF Listed, NamesAt
    <3>2. \A i, j \in 1..Len(list) : f[i] = f[j] => i = j
      BY <2>1 DEF OneNodeEach
    <3>3. \A n \in S : \E i \in 1..Len(list) : f[i] = n
      BY <2>1 DEF Listed, NamesAt
    <3> HIDE DEF f, S
    <3> QED BY <3>1, <3>2, <3>3 DEF Bijection, Injection, Surjection, IsInjective
  <2>3. IsFiniteSet(1..Len(list)) /\ Cardinality(1..Len(list)) = Len(list)
    <3> DEFINE n == Len(list)
    <3>1. n \in Nat
      BY <2>1
    <3> HIDE DEF n
    <3>2. /\ IsFiniteSet(1..n)
          /\ Cardinality(1..n) = IF 1 > n THEN 0 ELSE n - 1 + 1
      BY <3>1, FS_Interval
    <3>3. IsFiniteSet(1..n) /\ Cardinality(1..n) = n
      BY <3>1, <3>2
    <3> QED BY <3>3 DEF n
  <2>4. Cardinality(S) = Len(list)
    <3> HIDE DEF f, S
    <3> QED BY <2>2, <2>3, FS_Bijection DEF ExistsBijection
  <2> QED BY <2>1, <2>4 DEF ListIsTable, Listed
<1>2. TypeOK /\ TableInv => ListIsTable
  BY <1>1 DEF ListIsTable
<1>3. CoreInv /\ TableInv => ListIsTable
  BY <1>2 DEF CoreInv, ServerInv
<1> QED BY <1>3, CoreInvariant, TableInvariant, PTL

-----------------------------------------------------------------------------
(* The queues and the places of the clients.  What is in a queue after one *)
(* more message,                                                           *)
LEMMA SentLemma ==
  ASSUME NEW s \in Seq(Request), NEW m \in Request
  PROVE  /\ Has(s \o <<m>>, InReq) <=> Has(s, InReq) \/ m \in InReq
         /\ Has(s \o <<m>>, OutReq) <=> Has(s, OutReq) \/ m \in OutReq
         /\ Has(s \o <<m>>, EndReq) <=> Has(s, EndReq) \/ m \in EndReq
         /\ NeverAfter(s \o <<m>>, InReq, OutReq) <=>
              /\ NeverAfter(s, InReq, OutReq)
              /\ Has(s, InReq) => m \notin OutReq
         /\ NeverAfter(s \o <<m>>, OutReq, InReq) <=>
              /\ NeverAfter(s, OutReq, InReq)
              /\ Has(s, OutReq) => m \notin InReq
<1> DEFINE t == <<m>>
<1>1. t \in Seq(Request)
  OBVIOUS
<1>2. /\ Has(t, InReq) <=> m \in InReq
      /\ Has(t, OutReq) <=> m \in OutReq
      /\ Has(t, EndReq) <=> m \in EndReq
      /\ NeverAfter(t, InReq, OutReq) /\ NeverAfter(t, OutReq, InReq)
  BY ShortLemma
<1> HIDE DEF t
<1>3. /\ Has(s \o t, InReq) <=> Has(s, InReq) \/ Has(t, InReq)
      /\ NeverAfter(s \o t, InReq, OutReq) <=>
           /\ NeverAfter(s, InReq, OutReq) /\ NeverAfter(t, InReq, OutReq)
           /\ Has(s, InReq) => ~ Has(t, OutReq)
  BY <1>1, ConcatLemma
<1>4. /\ Has(s \o t, OutReq) <=> Has(s, OutReq) \/ Has(t, OutReq)
      /\ NeverAfter(s \o t, OutReq, InReq) <=>
           /\ NeverAfter(s, OutReq, InReq) /\ NeverAfter(t, OutReq, InReq)
           /\ Has(s, OutReq) => ~ Has(t, InReq)
  BY <1>1, ConcatLemma
<1>5. Has(s \o t, EndReq) <=> Has(s, EndReq) \/ Has(t, EndReq)
  BY <1>1, ConcatLemma
<1> QED BY <1>2, <1>3, <1>4, <1>5 DEF t

(* and after one less, when a client takes it,                             *)
LEMMA TakenLemma ==
  ASSUME MyQQTypeOK, NEW fd \in Fds, Takes(fd)
  PROVE  LET c == toClient[fd]
             d == toClient'[fd]
         IN
         /\ Has(c, InReply) <=> Head(c) \in InReply \/ Has(d, InReply)
         /\ Has(c, OutReply) <=> Head(c) \in OutReply \/ Has(d, OutReply)
         /\ Has(c, {"LOGIN_OK"}) <=> Head(c) = "LOGIN_OK" \/ Has(d, {"LOGIN_OK"})
         /\ NeverAfter(c, InReply, OutReply) <=>
              /\ NeverAfter(d, InReply, OutReply)
              /\ Head(c) \in InReply => ~ Has(d, OutReply)
         /\ NeverAfter(c, OutReply, InReply) <=>
              /\ NeverAfter(d, OutReply, InReply)
              /\ Head(c) \in OutReply => ~ Has(d, InReply)
<1> DEFINE c == toClient[fd]
           d == toClient'[fd]
           S == ReplyTypes \cup {"EOF"}
<1>1. c \in Seq(S) /\ c # <<>>
  BY DEF MyQQTypeOK, Takes
<1> HIDE DEF c, d, S
<1>2. CASE d = Tail(c)
  <2>1. /\ Has(c, InReply) <=> Head(c) \in InReply \/ Has(d, InReply)
        /\ NeverAfter(c, InReply, OutReply) <=>
              /\ NeverAfter(d, InReply, OutReply)
              /\ Head(c) \in InReply => ~ Has(d, OutReply)
    BY <1>1, <1>2, HeadLemma
  <2>2. /\ Has(c, OutReply) <=> Head(c) \in OutReply \/ Has(d, OutReply)
        /\ NeverAfter(c, OutReply, InReply) <=>
              /\ NeverAfter(d, OutReply, InReply)
              /\ Head(c) \in OutReply => ~ Has(d, InReply)
    BY <1>1, <1>2, HeadLemma
  <2>3. Has(c, {"LOGIN_OK"}) <=> Head(c) = "LOGIN_OK" \/ Has(d, {"LOGIN_OK"})
    <3>1. Has(c, {"LOGIN_OK"}) <=> Head(c) \in {"LOGIN_OK"} \/ Has(d, {"LOGIN_OK"})
      BY <1>1, <1>2, HeadLemma
    <3> QED BY <3>1
  <2> QED BY <2>1, <2>2, <2>3 DEF c, d
<1>3. CASE c = <<"EOF">> /\ d = c
  <2>1. /\ Head(c) = "EOF"
        /\ \A X : Has(c, X) <=> "EOF" \in X
        /\ \A X, Y : NeverAfter(c, X, Y)
    BY <1>3 DEF Has, NeverAfter
  <2> QED BY <1>3, <2>1 DEF InReply, OutReply, c, d
<1> QED BY <1>2, <1>3 DEF Takes, c, d

(* or when the server does.                                                *)
LEMMA ServedLemma ==
  ASSUME MyQQTypeOK, NEW fd \in Fds, toServer[fd] # <<>>,
         toServer' = [toServer EXCEPT ![fd] = Tail(@)]
  PROVE  LET s == toServer[fd]
             t == toServer'[fd]
         IN
         /\ Has(s, InReq) <=> Head(s) \in InReq \/ Has(t, InReq)
         /\ Has(s, OutReq) <=> Head(s) \in OutReq \/ Has(t, OutReq)
         /\ Has(s, EndReq) <=> Head(s) \in EndReq \/ Has(t, EndReq)
         /\ NeverAfter(s, InReq, OutReq) <=>
              /\ NeverAfter(t, InReq, OutReq)
              /\ Head(s) \in InReq => ~ Has(t, OutReq)
         /\ NeverAfter(s, OutReq, InReq) <=>
              /\ NeverAfter(t, OutReq, InReq)
              /\ Head(s) \in OutReq => ~ Has(t, InReq)
<1> DEFINE s == toServer[fd]
           t == toServer'[fd]
<1>1. s \in Seq(Request) /\ s # <<>> /\ t = Tail(s)
  BY DEF MyQQTypeOK
<1> HIDE DEF s, t
<1>2. /\ Has(s, InReq) <=> Head(s) \in InReq \/ Has(t, InReq)
      /\ NeverAfter(s, InReq, OutReq) <=>
            /\ NeverAfter(t, InReq, OutReq)
            /\ Head(s) \in InReq => ~ Has(t, OutReq)
  BY <1>1, HeadLemma
<1>3. /\ Has(s, OutReq) <=> Head(s) \in OutReq \/ Has(t, OutReq)
      /\ NeverAfter(s, OutReq, InReq) <=>
            /\ NeverAfter(t, OutReq, InReq)
            /\ Head(s) \in OutReq => ~ Has(t, InReq)
  BY <1>1, HeadLemma
<1>4. Has(s, EndReq) <=> Head(s) \in EndReq \/ Has(t, EndReq)
  BY <1>1, HeadLemma
<1> QED BY <1>2, <1>3, <1>4 DEF s, t

(* Where nothing of X or nothing of Y is, nothing of Y comes after         *)
(* something of X.                                                         *)
LEMMA NoneAfter ==
  ASSUME NEW s, NEW X, NEW Y, ~ Has(s, X) \/ ~ Has(s, Y)
  PROVE  NeverAfter(s, X, Y)
BY DEF Has, NeverAfter

(* The requests of the clients.                                            *)
LEMMA KindLemma ==
  ASSUME NEW fd \in Fds
  PROVE  /\ \A typed \in Types[fd] :
              /\ WithAccount("LOGIN", typed) \in InReq
              /\ WithAccount("LOGIN", typed) \notin OutReq \cup EndReq
              /\ WithAccount("REGIST", typed) \notin InReq \cup OutReq \cup EndReq
         /\ \A t \in {"REQ_OL", "STOP_MEDIA"} :
              Req(t) \notin InReq \cup OutReq \cup EndReq
         /\ \A t \in {"QUIT", "EOF"} :
              Req(t) \in EndReq /\ Req(t) \notin InReq \cup OutReq
         /\ \A t \in Uses[fd] : \A m \in Payload(t) : m \notin InReq \cup EndReq
<1>1. \A t \in Uses[fd] : t \notin {"LOGIN", "QUIT", "EOF"}
  BY ClientAssumption
<1>2. \A typed \in Types[fd] :
        /\ WithAccount("LOGIN", typed) \in Request
        /\ WithAccount("LOGIN", typed).type = "LOGIN"
        /\ WithAccount("REGIST", typed).type = "REGIST"
  BY RequestLemma
<1>3. \A t \in {"REQ_OL", "STOP_MEDIA", "QUIT", "EOF"} :
        Req(t).type = t /\ Req(t) \in Request
  BY RequestLemma DEF Req
<1>4. \A t \in Uses[fd] : \A m \in Payload(t) : m.type = t
  BY RequestLemma
<1>5. \A m : /\ m \in InReq <=> m \in Request /\ m.type = "LOGIN"
             /\ m \in OutReq <=> m \in Request /\ m.type \in {"LOGOUT", "UNREGIST"}
             /\ m \in EndReq <=> m \in Request /\ m.type \in {"QUIT", "EOF"}
  BY DEF InReq, OutReq, EndReq
<1>6. \A t \in Uses[fd] : \A m \in Payload(t) : m \notin InReq \cup EndReq
  BY <1>1, <1>4, <1>5
<1>7. /\ \A t \in {"REQ_OL", "STOP_MEDIA"} :
              Req(t) \notin InReq \cup OutReq \cup EndReq
      /\ \A t \in {"QUIT", "EOF"} :
              Req(t) \in EndReq /\ Req(t) \notin InReq \cup OutReq
  BY <1>3, <1>5
<1>8. \A typed \in Types[fd] :
              /\ WithAccount("LOGIN", typed) \in InReq
              /\ WithAccount("LOGIN", typed) \notin OutReq \cup EndReq
              /\ WithAccount("REGIST", typed) \notin InReq \cup OutReq \cup EndReq
  BY <1>2, <1>5
<1> QED BY <1>6, <1>7, <1>8

(* A step of a user keeps the flow.                                        *)
LEMMA FlowUser ==
  ASSUME MyQQTypeOK, MessagesInv, TriesInv, FlowInv, NEW fd \in Fds, User(fd)
  PROVE  FlowInv'
<1> DEFINE s == toServer[fd]
           c == toClient[fd]
<1>1. Stays(fd) /\ UserMoves(fd)
  BY UserLemma
<1>2. server' = server /\ watched' = watched
  BY UserQuiet DEF Quiet, netVars
<1>3. ASSUME NEW g \in Fds \ {fd}
      PROVE  QueuesInv(g)' /\ (Alive => PlacesInv(g) /\ OrderInv(g))'
  <2>1. /\ at'[g] = at[g] /\ toServer'[g] = toServer[g]
        /\ toClient'[g] = toClient[g]
    BY <1>1 DEF Stays
  <2>2. QueuesInv(g) /\ (Alive => PlacesInv(g) /\ OrderInv(g))
    BY DEF FlowInv
  <2> QED BY <1>2, <2>1, <2>2
          DEF QueuesInv, PlacesInv, OrderInv, NoOutAfterIn, NoInAfterOut, Alive
<1>4. QueuesInv(fd) /\ (Alive => PlacesInv(fd) /\ OrderInv(fd))
  BY DEF FlowInv
<1>5. /\ s \in Seq(Request)
      /\ Req("REQ_OL") \in Request /\ Req("STOP_MEDIA") \in Request
      /\ Req("QUIT") \in Request /\ Req("EOF") \in Request
      /\ \A t \in {"LOGIN", "REGIST"}, typed \in Types[fd] :
            WithAccount(t, typed) \in Request
      /\ \A t \in Uses[fd] : \A m \in Payload(t) : m \in Request
  BY RequestLemma DEF MyQQTypeOK
<1>6. Alive' <=> Alive
  BY <1>2 DEF Alive
<1> SUFFICES QueuesInv(fd)' /\ (Alive => PlacesInv(fd)' /\ OrderInv(fd)')
  BY <1>3, <1>6 DEF FlowInv
<1> USE DEF QueuesInv, PlacesInv, OrderInv
<1>7. CASE \/ Asks(fd, "REGIST", {"regist"})
           \/ Asks(fd, "LOGIN", {"login", "relogin"})
  <2>1. PICK m \in Request :
          /\ toServer'[fd] = IF Alive THEN s \o <<m>> ELSE s
          /\ m \notin OutReq \cup EndReq
    BY <1>5, <1>7, KindLemma DEF Asks
  <2>2. /\ Has(s \o <<m>>, OutReq) <=> Has(s, OutReq)
        /\ Has(s \o <<m>>, EndReq) <=> Has(s, EndReq)
        /\ NeverAfter(s \o <<m>>, InReq, OutReq) <=> NeverAfter(s, InReq, OutReq)
    BY <1>5, <2>1, SentLemma
  <2>3. /\ at[fd] \in Asking /\ at'[fd] \in Waiting /\ toClient'[fd] = c
        /\ at[fd] \notin {"none", "gone", "leaving"}
        /\ at'[fd] \notin {"none", "gone", "leaving", "reoffer"} \cup Talking
    BY <1>7 DEF Asks, Asking, Waiting, Talking
  <2>4. CASE Alive
    BY <1>4, <1>6, <2>1, <2>2, <2>3, <2>4 DEF NoOutAfterIn
  <2>5. CASE ~ Alive
    BY <1>4, <1>6, <2>1, <2>3, <2>5
  <2> QED BY <2>4, <2>5
<1>8. ASSUME Enters(fd)
      PROVE  /\ Has(toServer'[fd], InReq) <=> Has(s, InReq)
             /\ Has(toServer'[fd], OutReq) <=> Has(s, OutReq)
             /\ Has(toServer'[fd], EndReq) <=> Has(s, EndReq)
             /\ NeverAfter(toServer'[fd], OutReq, InReq) <=> NeverAfter(s, OutReq, InReq)
             /\ ~ Alive => toServer'[fd] = s
             /\ at'[fd] = "talk"
  <2> DEFINE m == Req("REQ_OL")
  <2>1. m \in Request /\ m \notin InReq \cup OutReq \cup EndReq
    BY <1>5, KindLemma
  <2>2. /\ toServer'[fd] = IF Alive THEN s \o <<m>> ELSE s
        /\ at'[fd] = "talk"
    BY <1>8 DEF Enters
  <2> HIDE DEF m
  <2>3. /\ Has(s \o <<m>>, InReq) <=> Has(s, InReq)
        /\ Has(s \o <<m>>, OutReq) <=> Has(s, OutReq)
        /\ Has(s \o <<m>>, EndReq) <=> Has(s, EndReq)
        /\ NeverAfter(s \o <<m>>, OutReq, InReq) <=> NeverAfter(s, OutReq, InReq)
    BY <1>5, <2>1, SentLemma
  <2> QED BY <2>2, <2>3
<1>9. CASE /\ at[fd] \in {"exist", "offer", "reoffer"}
           /\ at'[fd] \in {"menu", "again", "reagain"}
           /\ Keeps(fd) /\ toClient'[fd] = c
  BY <1>4, <1>6, <1>9 DEF Keeps, NoOutAfterIn, Waiting, Asking, Talking
<1>10. CASE at[fd] = "reoffer" /\ Enters(fd) /\ toClient'[fd] = c
  <2>1. Alive => /\ ~ Has(c, OutReply) /\ ~ Has(s, OutReq)
                 /\ NeverAfter(c, OutReply, InReply)
                 /\ NeverAfter(s, OutReq, InReq)
    BY <1>4, <1>10, NoneAfter
  <2> QED BY <1>4, <1>6, <1>8, <1>10, <2>1 DEF NoInAfterOut, Waiting, Asking, Talking
<1>11. CASE at[fd] \in Waiting /\ at'[fd] \in Asking \ {"reoffer"}
            /\ Takes(fd) /\ Keeps(fd)
  BY <1>4, <1>6, <1>11, TakenLemma
     DEF Keeps, NoOutAfterIn, Waiting, Asking, Talking
<1>12. CASE at[fd] \in Waiting /\ at'[fd] = "reoffer"
            /\ Takes(fd) /\ Keeps(fd) /\ Head(c) = "UN_EXIST"
  <2>1. Head(c) \in InReply
    BY <1>12 DEF InReply
  <2> QED BY <1>4, <1>6, <1>12, <2>1, TakenLemma
             DEF Keeps, NoOutAfterIn, Waiting, Asking, Talking
<1>13. CASE at[fd] \in Waiting /\ Enters(fd) /\ Takes(fd) /\ Head(c) = "LOGIN_OK"
  <2>1. Head(c) \in InReply
    BY <1>13 DEF InReply
  <2>2. Alive => ~ Has(toClient'[fd], OutReply) /\ ~ Has(s, OutReq)
    BY <1>4, <1>13, <2>1, TakenLemma DEF NoOutAfterIn
  <2>3. Alive => /\ NeverAfter(toClient'[fd], OutReply, InReply)
                 /\ NeverAfter(s, OutReq, InReq)
    BY <2>2, NoneAfter
  <2> QED BY <1>4, <1>6, <1>8, <1>13, <2>2, <2>3
             DEF NoInAfterOut, Waiting, Asking, Talking
<1>14. CASE at[fd] = "talk" /\ at'[fd] = "menu"
            /\ Takes(fd) /\ Keeps(fd) /\ Head(c) \in OutReply
  <2>1. Alive => ~ Has(toClient'[fd], InReply) /\ ~ Has(s, InReq)
    BY <1>4, <1>14, TakenLemma DEF NoInAfterOut, Talking
  <2>2. Alive => /\ NeverAfter(toClient'[fd], InReply, OutReply)
                 /\ NeverAfter(s, InReq, OutReq)
    BY <2>1, NoneAfter
  <2> QED BY <1>4, <1>6, <1>14, <2>1, <2>2
             DEF Keeps, NoOutAfterIn, Waiting, Asking, Talking
<1>15. CASE at[fd] = "talk" /\ at'[fd] = "talk" /\ Takes(fd) /\ Keeps(fd)
  BY <1>4, <1>6, <1>15, TakenLemma
     DEF Keeps, NoInAfterOut, Waiting, Asking, Talking
<1>16. CASE /\ at[fd] = "talk" /\ at'[fd] = "talk" /\ toClient'[fd] = c
            /\ \E t \in Uses[fd] : \E m \in Payload(t) :
                 toServer'[fd] = IF Alive THEN s \o <<m>> ELSE s
  <2>1. PICK m \in Request : /\ toServer'[fd] = IF Alive THEN s \o <<m>> ELSE s
                             /\ m \notin InReq \cup EndReq
    BY <1>5, <1>16, KindLemma
  <2>2. /\ Has(s \o <<m>>, InReq) <=> Has(s, InReq)
        /\ Has(s \o <<m>>, EndReq) <=> Has(s, EndReq)
        /\ NeverAfter(s \o <<m>>, OutReq, InReq) <=> NeverAfter(s, OutReq, InReq)
    BY <1>5, <2>1, SentLemma
  <2> QED BY <1>4, <1>6, <1>16, <2>1, <2>2
             DEF NoInAfterOut, Waiting, Asking, Talking
<1>17. CASE /\ at[fd] = "talk" /\ at'[fd] = "leaving" /\ toClient'[fd] = c
            /\ toServer'[fd] = IF Alive
                               THEN s \o <<Req("STOP_MEDIA"), Req("QUIT")>> ELSE s
  <2> DEFINE m == Req("STOP_MEDIA")
             n == Req("QUIT")
             r == s \o <<m>>
  <2>1. /\ m \in Request /\ m \notin InReq \cup OutReq \cup EndReq
        /\ n \in Request /\ n \notin InReq \cup OutReq
    BY <1>5, KindLemma
  <2>2. toServer'[fd] = IF Alive THEN s \o <<m, n>> ELSE s
    BY <1>17
  <2> HIDE DEF m, n, s
  <2>3. s \o <<m, n>> = r \o <<n>>
    <3>1. s \in Seq(Request) /\ <<m>> \in Seq(Request) /\ <<n>> \in Seq(Request)
      BY <1>5, <2>1
    <3>3. <<m>> \o <<n>> = <<m, n>>
      <4> DEFINE t == <<m>>
                 u == <<n>>
                 both == t \o u
                 v == <<m, n>>
      <4>1. /\ t \in Seq(Request) /\ Len(t) = 1 /\ t[1] = m
            /\ u \in Seq(Request) /\ Len(u) = 1 /\ u[1] = n
            /\ v \in Seq(Request) /\ Len(v) = 2 /\ v[1] = m /\ v[2] = n
        BY <2>1
      <4> HIDE DEF t, u, v
      <4>2. both \in Seq(Request) /\ Len(both) = 2 /\ both[1] = m /\ both[2] = n
        <5>1. /\ both \in Seq(Request) /\ Len(both) = Len(t) + Len(u)
              /\ \A i \in 1..(Len(t) + Len(u)) :
                   both[i] = IF i <= Len(t) THEN t[i] ELSE u[i - Len(t)]
          BY <4>1, ConcatProperties, Zenon
        <5> HIDE DEF both
        <5>2. Len(both) = 2 /\ both[1] = t[1]
          BY <4>1, <5>1
        <5>3. both[2] = u[1]
          BY <4>1, <5>1
        <5> QED BY <4>1, <5>1, <5>2, <5>3
      <4> HIDE DEF both
      <4>3. both = v
        BY <4>1, <4>2, SeqEqual
      <4> QED BY <4>3 DEF both, t, u, v
    <3>2. (s \o <<m>>) \o <<n>> = s \o (<<m>> \o <<n>>)
      BY <3>1, ConcatAssociative
    <3> QED BY <3>2, <3>3
  <2>4. /\ Has(r, InReq) <=> Has(s, InReq)
        /\ NeverAfter(r, OutReq, InReq) <=> NeverAfter(s, OutReq, InReq)
        /\ r \in Seq(Request)
    BY <1>5, <2>1, SentLemma
  <2> HIDE DEF r
  <2>5. /\ Has(r \o <<n>>, InReq) <=> Has(s, InReq)
        /\ NeverAfter(r \o <<n>>, OutReq, InReq) <=> NeverAfter(s, OutReq, InReq)
    BY <2>1, <2>4, SentLemma
  <2> QED BY <1>4, <1>6, <1>17, <2>2, <2>3, <2>5
             DEF NoInAfterOut, Waiting, Asking, Talking, s
<1>18. CASE at[fd] \in {"talk", "udp"} /\ at'[fd] \in {"talk", "udp"}
            /\ Keeps(fd) /\ toClient'[fd] = c
  BY <1>4, <1>6, <1>18 DEF Keeps, NoInAfterOut, Waiting, Asking, Talking
<1>19. CASE Exit(fd)
  <2> DEFINE m == Req("EOF")
  <2>1. /\ at'[fd] = "gone" /\ toClient'[fd] = <<>>
        /\ toServer'[fd] = IF Alive THEN s \o <<m>> ELSE s
    BY <1>19, ExitLemma
  <2>2. m \in Request /\ m \in EndReq
    BY <1>5, KindLemma
  <2> HIDE DEF m, s
  <2>3. Has(s \o <<m>>, EndReq)
    BY <1>5, <2>2, SentLemma
  <2> QED BY <1>4, <1>6, <2>1, <2>3 DEF Waiting, Asking, Talking, s
<1> QED BY <1>1, <1>7, <1>9, <1>10, <1>11, <1>12, <1>13, <1>14, <1>15, <1>16,
           <1>17, <1>18, <1>19 DEF UserMoves

-----------------------------------------------------------------------------
(* What the server writes, by the types of the messages.                   *)
Wrote(g, X) == Has(TypesOf(sent'[g]), X)
Chatter == {"BROCAST", "FLASH_OL_USERS", "FLASH_ALL_USERS"}

LEMMA SilentLemma ==
  ASSUME sent' = Silence, NEW g \in Fds, NEW X
  PROVE  ~ Wrote(g, X)
BY DEF Silence, Wrote, Has, TypesOf

LEMMA AnsweredLemma ==
  ASSUME NEW fd \in Fds, NEW message, sent' = Write(fd, message),
         NEW g \in Fds, NEW X
  PROVE  Wrote(g, X) <=> g = fd /\ message.type \in X
<1>1. sent'[g] = IF g = fd THEN <<message>> ELSE <<>>
  BY DEF Write, Silence
<1>2. CASE g = fd
  <2>1. /\ DOMAIN TypesOf(sent'[g]) = {1}
        /\ TypesOf(sent'[g])[1] = message.type
    BY <1>1, <1>2 DEF TypesOf
  <2> QED BY <1>2, <2>1 DEF Wrote, Has
<1>3. CASE g # fd
  BY <1>1, <1>3 DEF Wrote, Has, TypesOf
<1> QED BY <1>2, <1>3

LEMMA NewsLemma ==
  ASSUME NEW list, NEW g, NEW c
  PROVE  /\ News(list, g, c) \in {<<>>, <<Msg("BROCAST"), FlashOnline(list)>>}
         /\ Msg("BROCAST").type = "BROCAST"
         /\ FlashOnline(list).type = "FLASH_OL_USERS"
BY DEF News, Msg, FlashOnline

LEMMA ToldLemma ==
  ASSUME NEW fd \in Fds, NEW message, NEW list, NEW c,
         sent' = WriteAndBrocast(fd, message, list, c),
         NEW g \in Fds, NEW X, X \cap Chatter = {}
  PROVE  Wrote(g, X) <=> g = fd /\ message.type \in X
<1> DEFINE w == sent'[g]
           n == News(list, g, c)
           b == Msg("BROCAST")
           f == FlashOnline(list)
<1>1. w = (IF g = fd THEN <<message>> ELSE <<>>) \o n
  BY DEF WriteAndBrocast
<1>2. /\ n \in {<<>>, <<b, f>>}
      /\ b.type \notin X /\ f.type \notin X
  BY NewsLemma DEF Chatter
<1> HIDE DEF n, b, f, w
<1>3. \/ /\ g = fd /\ DOMAIN w = {1} /\ w[1] = message
      \/ /\ g = fd /\ DOMAIN w = {1, 2, 3} /\ w[1] = message /\ w[2] = b /\ w[3] = f
      \/ /\ g # fd /\ DOMAIN w = {}
      \/ /\ g # fd /\ DOMAIN w = {1, 2} /\ w[1] = b /\ w[2] = f
  <2>1. CASE g = fd /\ n = <<>>
    <3>1. w = <<message>> \o <<>>
      BY <1>1, <2>1
    <3> QED BY <2>1, <3>1
  <2>2. CASE g = fd /\ n = <<b, f>>
    <3>1. w = <<message>> \o <<b, f>>
      BY <1>1, <2>2
    <3> QED BY <2>2, <3>1
  <2>3. CASE g # fd /\ n = <<>>
    <3>1. w = <<>> \o <<>>
      BY <1>1, <2>3
    <3> QED BY <2>3, <3>1
  <2>4. CASE g # fd /\ n = <<b, f>>
    <3>1. w = <<>> \o <<b, f>>
      BY <1>1, <2>4
    <3> QED BY <2>4, <3>1
  <2> QED BY <1>2, <2>1, <2>2, <2>3, <2>4
<1>4. Wrote(g, X) <=> \E i \in DOMAIN w : w[i].type \in X
  BY DEF Wrote, Has, TypesOf, w
<1> QED BY <1>2, <1>3, <1>4

LEMMA CastLemma ==
  ASSUME NEW list, NEW c, sent' = Brocast(list, c),
         NEW g \in Fds, NEW X, X \cap Chatter = {}
  PROVE  ~ Wrote(g, X)
<1> DEFINE b == Msg("BROCAST")
           f == FlashOnline(list)
           w == sent'[g]
<1>1. w = News(list, g, c)
  BY DEF Brocast
<1>2. /\ w \in {<<>>, <<b, f>>}
      /\ b.type \notin X /\ f.type \notin X
  BY <1>1, NewsLemma DEF Chatter
<1> HIDE DEF b, f, w
<1>3. DOMAIN w = {} \/ (DOMAIN w = {1, 2} /\ w[1] = b /\ w[2] = f)
  BY <1>2
<1>4. Wrote(g, X) <=> \E i \in DOMAIN w : w[i].type \in X
  BY DEF Wrote, Has, TypesOf, w
<1> QED BY <1>2, <1>3, <1>4

LEMMA KindsOfReply ==
  /\ InReply \cap Chatter = {} /\ OutReply \cap Chatter = {}
  /\ {"LOGIN_OK"} \cap Chatter = {} /\ {"LOGIN_OK"} \subseteq InReply
  /\ \A t : Msg(t).type = t
BY DEF InReply, OutReply, Chatter, Msg

(* Only the answer to a login is one that lets a client in, or lets it     *)
(* believe so; only the answer to a logout or to a removal sends it back.  *)
LEMMA OutputLemma ==
  ASSUME NEW fd \in Fds, NEW m, Handle(fd, m), NEW g \in Fds
  PROVE  /\ Wrote(g, InReply) => g = fd /\ m.type = "LOGIN"
         /\ Wrote(g, OutReply) => g = fd /\ m.type \in {"LOGOUT", "UNREGIST"}
<1> USE KindsOfReply
<1>1. ASSUME NEW message, sent' = Write(fd, message),
             message.type \notin InReply \cup OutReply
      PROVE  ~ Wrote(g, InReply) /\ ~ Wrote(g, OutReply)
  BY <1>1, AnsweredLemma
<1>2. CASE sent' = Silence
  BY <1>2, SilentLemma
<1>3. CASE m.type = "REGIST" /\ Register(fd, m.name, m.pw)
  <2>1. \/ \E t \in {"EXIST", "REGIST_OK", "FAIL"} : sent' = Write(fd, Msg(t))
        \/ sent' = Silence
    BY <1>3 DEF Register, LockForever
  <2>2. \A t \in {"EXIST", "REGIST_OK", "FAIL"} :
           Msg(t).type \notin InReply \cup OutReply
    BY DEF InReply, OutReply
  <2> QED BY <1>1, <1>2, <2>1, <2>2
<1>4. CASE m.type = "LOGIN" /\ Login(fd, m.name, m.pw)
  <2>1. \/ \E t \in {"UN_EXIST", "HAS_ONLINE", "LOGIN_FAIL", "LOGIN_OK"} :
             sent' = Write(fd, Msg(t))
        \/ sent' = WriteAndBrocast(fd, Msg("LOGIN_OK"), userHead', fd)
    BY <1>4 DEF Login, CheckPassward
  <2>2. \A t \in {"UN_EXIST", "HAS_ONLINE", "LOGIN_FAIL", "LOGIN_OK"} :
           Msg(t).type \notin OutReply
    BY DEF OutReply
  <2>3. CASE \E t \in {"UN_EXIST", "HAS_ONLINE", "LOGIN_FAIL", "LOGIN_OK"} :
               sent' = Write(fd, Msg(t))
    BY <1>4, <2>2, <2>3, AnsweredLemma
  <2>4. CASE sent' = WriteAndBrocast(fd, Msg("LOGIN_OK"), userHead', fd)
    BY <1>4, <2>2, <2>4, ToldLemma
  <2> QED BY <2>1, <2>3, <2>4
<1>5. CASE Quit(fd)
  <2>1. sent' = Silence \/ sent' = Brocast(userHead', fd)
    BY <1>5 DEF Quit, QuitOnline
  <2> QED BY <1>2, <2>1, CastLemma
<1>6. CASE Discard(fd) \/ StopMedia(fd)
  BY <1>2, <1>6 DEF Discard, StopMedia
<1>7. CASE ReqUsers(fd)
  <2>1. /\ FlashOnline(userHead).type \in Chatter /\ FlashAll(userHead).type \in Chatter
        /\ Msg("BROCAST").type \in Chatter
    BY DEF FlashOnline, FlashAll, Msg, Chatter
  <2>2. \/ sent' = Silence \/ sent' = Write(fd, FlashOnline(userHead))
        \/ sent' = Write(fd, FlashAll(userHead)) \/ sent' = Write(fd, Msg("BROCAST"))
    BY <1>7 DEF ReqUsers, WriteOnline
  <2> QED BY <1>1, <1>2, <2>1, <2>2
<1>8. CASE m.type = "RENAME" /\ Rename(fd, m.name)
  <2> DEFINE ok == [Msg("RENAME_OK") EXCEPT !.name = m.name]
  <2>1. /\ ok.type \notin InReply \cup OutReply
        /\ Msg("BROCAST").type \notin InReply \cup OutReply
    BY DEF Msg, InReply, OutReply
  <2> HIDE DEF ok
  <2>2. sent' = Silence \/ sent' = Write(fd, ok) \/ sent' = Write(fd, Msg("BROCAST"))
    BY <1>8 DEF Rename, LockForever, ok
  <2> QED BY <1>1, <1>2, <2>1, <2>2
<1>9. CASE m.type = "CHG_PW" /\ ChangePassward(fd, m.pw)
  <2>1. sent' = Silence \/ sent' = Write(fd, Msg("BROCAST"))
    BY <1>9 DEF ChangePassward, LockForever
  <2>2. Msg("BROCAST").type \notin InReply \cup OutReply
    BY DEF InReply, OutReply
  <2> QED BY <1>1, <1>2, <2>1, <2>2
<1>10. CASE m.type = "UNREGIST" /\ Unregister(fd)
  <2>1. \/ sent' = Silence \/ sent' = Write(fd, Msg("BROCAST"))
        \/ \E c : sent' = WriteAndBrocast(fd, Msg("UNREGIST_OK"), userHead', c)
    BY <1>10 DEF Unregister, LockForever
  <2>2. /\ Msg("BROCAST").type \notin InReply \cup OutReply
        /\ Msg("UNREGIST_OK").type \notin InReply
    BY DEF InReply, OutReply
  <2>3. CASE \E c : sent' = WriteAndBrocast(fd, Msg("UNREGIST_OK"), userHead', c)
    BY <1>10, <2>2, <2>3, ToldLemma
  <2> QED BY <1>1, <1>2, <2>1, <2>2, <2>3
<1>11. CASE m.type = "LOGOUT" /\ Logout(fd)
  <2>1. sent' = WriteAndBrocast(fd, Msg("LOGOUT_OK"), userHead', fd)
    BY <1>11 DEF Logout
  <2>2. Msg("LOGOUT_OK").type \notin InReply
    BY DEF InReply
  <2> QED BY <1>11, <2>1, <2>2, ToldLemma
<1>12. CASE ReqMedia(fd)
  <2>1. sent' = Silence \/ sent' = Write(fd, Msg("MEDIA_PLAYING"))
    BY <1>12 DEF ReqMedia, AddPlayer
  <2>2. Msg("MEDIA_PLAYING").type \notin InReply \cup OutReply
    BY DEF InReply, OutReply
  <2> QED BY <1>1, <1>2, <2>1, <2>2
<1> QED BY <1>3, <1>4, <1>5, <1>6, <1>7, <1>8, <1>9, <1>10, <1>11, <1>12 DEF Handle

(* What the server has written is at the end of the queue of the client.   *)
LEMMA GainLemma ==
  ASSUME TypeOK, TypeOK', MyQQTypeOK, Carry, NEW g \in Fds,
         at[g] \notin {"none", "gone"}
  PROVE  /\ \A X : Has(toClient'[g], X) <=> Has(toClient[g], X) \/ Wrote(g, X)
         /\ \A X, Y : NeverAfter(toClient'[g], X, Y) <=>
              /\ NeverAfter(toClient[g], X, Y) /\ NeverAfter(TypesOf(sent'[g]), X, Y)
              /\ Has(toClient[g], X) => ~ Wrote(g, Y)
<1> DEFINE w == TypesOf(sent'[g])
           c == toClient[g]
           S == ReplyTypes \cup {"EOF"}
<1>1. w \in Seq(S) /\ c \in Seq(S) /\ toClient'[g] = c \o w
  BY CarryLemma DEF MyQQTypeOK
<1> HIDE DEF w, c, S
<1>2. ASSUME NEW X, NEW Y
      PROVE  /\ Has(c \o w, X) <=> Has(c, X) \/ Has(w, X)
             /\ NeverAfter(c \o w, X, Y) <=>
                  /\ NeverAfter(c, X, Y) /\ NeverAfter(w, X, Y)
                  /\ Has(c, X) => ~ Has(w, Y)
  BY <1>1, ConcatLemma
<1> QED BY <1>1, <1>2 DEF Wrote, w, c

(* A step of the server that writes no reply of these kinds and takes no   *)
(* message.                                                                *)
LEMMA FlowQuiet ==
  ASSUME TypeOK, TypeOK', MyQQTypeOK, FlowInv, Carry, toServer' = toServer,
         Alive, Alive', watched' = watched,
         \A g \in Fds : ~ Wrote(g, InReply) /\ ~ Wrote(g, OutReply)
  PROVE  FlowInv'
<1> SUFFICES ASSUME NEW g \in Fds
             PROVE  QueuesInv(g)' /\ PlacesInv(g)' /\ OrderInv(g)'
  BY DEF FlowInv
<1>1. QueuesInv(g) /\ PlacesInv(g) /\ OrderInv(g)
  BY DEF FlowInv
<1>2. at' = at /\ toServer'[g] = toServer[g]
  BY DEF Carry
<1>3. CASE at[g] \in {"none", "gone"}
  <2>1. toClient'[g] = <<>>
    BY <1>3, CarryLemma
  <2> QED BY <1>1, <1>2, <1>3, <2>1
          DEF QueuesInv, PlacesInv, OrderInv, Waiting, Asking, Talking
<1>4. CASE at[g] \notin {"none", "gone"}
  <2>1. /\ Has(toClient'[g], InReply) <=> Has(toClient[g], InReply)
        /\ Has(toClient'[g], OutReply) <=> Has(toClient[g], OutReply)
        /\ NeverAfter(toClient'[g], InReply, OutReply)
             <=> NeverAfter(toClient[g], InReply, OutReply)
        /\ NeverAfter(toClient'[g], OutReply, InReply)
             <=> NeverAfter(toClient[g], OutReply, InReply)
    <3>1. /\ NeverAfter(TypesOf(sent'[g]), InReply, OutReply)
          /\ NeverAfter(TypesOf(sent'[g]), OutReply, InReply)
      BY NoneAfter DEF Wrote
    <3> QED BY <1>4, <3>1, GainLemma
  <2> QED BY <1>1, <1>2, <1>4, <2>1
          DEF QueuesInv, PlacesInv, OrderInv, NoOutAfterIn, NoInAfterOut
<1> QED BY <1>3, <1>4

(* A message is delivered to the server.                                   *)
LEMMA FlowDeliver ==
  ASSUME TypeOK, TypeOK', MyQQTypeOK, MessagesInv, FlowInv,
         NEW fd \in Fds, Deliver(fd)
  PROVE  FlowInv'
<1> DEFINE m == Head(toServer[fd])
<1>1. /\ toServer[fd] # <<>> /\ Handle(fd, m) /\ Carry
      /\ toServer' = [toServer EXCEPT ![fd] = Tail(@)]
      /\ m \in Request /\ Receive(fd)
  BY FirstLemma, HandleLemma DEF Deliver
<1>2. /\ Alive /\ Alive' /\ fd \in watched /\ at' = at
      /\ watched' = watched \/ watched' = watched \ {fd}
  BY <1>1, ReceiveNet DEF Alive, Carry
<1> HIDE DEF m
<1>3. m \in EndReq => watched' = watched \ {fd}
  BY <1>1 DEF EndReq, Handle, NeedsNode, Quit
<1>4. \A g \in Fds :
        /\ Wrote(g, InReply) => g = fd /\ m \in InReq
        /\ Wrote(g, OutReply) => g = fd /\ m \in OutReq
  BY <1>1, OutputLemma DEF InReq, OutReq
<1>5. m \in InReq => m \notin OutReq
  BY DEF InReq, OutReq
<1> SUFFICES ASSUME NEW g \in Fds
             PROVE  QueuesInv(g)' /\ PlacesInv(g)' /\ OrderInv(g)'
  BY DEF FlowInv
<1>6. QueuesInv(g) /\ PlacesInv(g) /\ OrderInv(g)
  BY <1>2 DEF FlowInv
<1> DEFINE c == toClient[g]
           d == toClient'[g]
           s == toServer[g]
           t == toServer'[g]
<1>7. /\ Has(s, InReq) <=> (g = fd /\ m \in InReq) \/ Has(t, InReq)
      /\ Has(s, OutReq) <=> (g = fd /\ m \in OutReq) \/ Has(t, OutReq)
      /\ Has(s, EndReq) <=> (g = fd /\ m \in EndReq) \/ Has(t, EndReq)
      /\ NeverAfter(s, InReq, OutReq) <=>
           /\ NeverAfter(t, InReq, OutReq)
           /\ g = fd /\ m \in InReq => ~ Has(t, OutReq)
      /\ NeverAfter(s, OutReq, InReq) <=>
           /\ NeverAfter(t, OutReq, InReq)
           /\ g = fd /\ m \in OutReq => ~ Has(t, InReq)
  <2>1. CASE g = fd
    BY <1>1, <2>1, ServedLemma DEF m
  <2>2. CASE g # fd
    <3>1. t = s
      BY <1>1, <2>2 DEF MyQQTypeOK
    <3> QED BY <2>2, <3>1
  <2> QED BY <2>1, <2>2
<1>8. CASE at[g] \in {"none", "gone"}
  <2>1. d = <<>>
    BY <1>1, <1>8, CarryLemma
  <2>2. at[g] = "none" => t = <<>>
    BY <1>1, <1>6 DEF QueuesInv, MyQQTypeOK
  <2> HIDE DEF c, d, s, t
  <2>3. (QueuesInv(g) /\ PlacesInv(g) => QueuesInv(g)' /\ PlacesInv(g)') /\ OrderInv(g)'
    BY <1>2, <1>3, <1>7, <1>8, <2>1, <2>2
       DEF QueuesInv, PlacesInv, OrderInv, Waiting, Asking, Talking, c, d, s, t
  <2> QED BY <1>6, <2>3
<1>9. CASE at[g] \notin {"none", "gone"}
  <2>1. /\ NeverAfter(TypesOf(sent'[g]), InReply, OutReply)
        /\ NeverAfter(TypesOf(sent'[g]), OutReply, InReply)
    BY <1>4, <1>5, NoneAfter DEF Wrote
  <2>2. /\ Has(d, InReply) <=> Has(c, InReply) \/ Wrote(g, InReply)
        /\ Has(d, OutReply) <=> Has(c, OutReply) \/ Wrote(g, OutReply)
        /\ NeverAfter(d, InReply, OutReply) <=>
             /\ NeverAfter(c, InReply, OutReply)
             /\ Has(c, InReply) => ~ Wrote(g, OutReply)
        /\ NeverAfter(d, OutReply, InReply) <=>
             /\ NeverAfter(c, OutReply, InReply)
             /\ Has(c, OutReply) => ~ Wrote(g, InReply)
    BY <1>1, <1>9, <2>1, GainLemma
  <2> HIDE DEF c, d, s, t
  <2>3. NoOutAfterIn(g) => NoOutAfterIn(g)'
    BY <1>4, <1>5, <1>7, <2>2 DEF NoOutAfterIn, c, d, s, t
  <2>4. NoInAfterOut(g) => NoInAfterOut(g)'
    BY <1>4, <1>5, <1>7, <2>2 DEF NoInAfterOut, c, d, s, t
  <2>5. OrderInv(g)'
    BY <1>2, <1>4, <1>6, <1>7, <2>2, <2>3, <2>4 DEF OrderInv, c, d, s, t
  <2>6. QueuesInv(g)' /\ PlacesInv(g)'
    BY <1>2, <1>3, <1>6, <1>7, <1>9 DEF QueuesInv, PlacesInv, s, t
  <2> QED BY <2>5, <2>6
<1> QED BY <1>8, <1>9

LEMMA FlowStep ==
  ASSUME CoreInv, CoreInv', FlowInv, MyQQNext
  PROVE  FlowInv'
<1> USE DEF CoreInv
<1>0. TypeOK /\ TypeOK'
  BY DEF ServerInv
<1>1. ASSUME NEW fd \in Fds, User(fd)
      PROVE  FlowInv'
  BY <1>1, FlowUser
<1>2. ASSUME NEW fd \in Fds, Deliver(fd)
      PROVE  FlowInv'
  BY <1>0, <1>2, FlowDeliver
<1>3. CASE FinishHandler
  <2>1. /\ Carry /\ toServer' = toServer /\ watched' = watched
        /\ Alive /\ Alive' /\ changing \in [fd : Fds, name : Names, pw : Passwords]
    BY <1>0, <1>3 DEF FinishHandler, FinishChange, Alive, netVars, TypeOK
  <2>2. sent' = Silence \/ sent' = Write(changing.fd, Msg("BROCAST"))
    BY <1>3 DEF FinishHandler, FinishChange
  <2>3. changing.fd \in Fds /\ Msg("BROCAST").type \notin InReply \cup OutReply
    BY <2>1, KindsOfReply DEF InReply, OutReply
  <2>4. ASSUME NEW g \in Fds
        PROVE  ~ Wrote(g, InReply) /\ ~ Wrote(g, OutReply)
    <3>1. CASE sent' = Silence
      BY <3>1, SilentLemma
    <3>2. CASE sent' = Write(changing.fd, Msg("BROCAST"))
      BY <2>3, <3>2, AnsweredLemma
    <3> QED BY <2>2, <3>1, <3>2
  <2> QED BY <1>0, <2>1, <2>4, FlowQuiet
<1>4. CASE Connect
  <2>1. /\ conns' \in Fds /\ Go(conns', "menu") /\ Alive
        /\ watched' = watched \cup {conns'}
        /\ UNCHANGED <<toServer, toClient, server>>
    BY <1>0, <1>4, FdAssumption DEF Connect, Accept, TypeOK, Fds, Alive
  <2>2. /\ at'[conns'] = "menu"
        /\ \A g \in Fds \ {conns'} : at'[g] = at[g]
    BY <2>1 DEF MyQQTypeOK, Go
  <2>3. at[conns'] = "none"
    BY <1>0, <1>4, <2>1 DEF Connect, Accept, TypeOK, FreshInv
  <2>4. ASSUME NEW g \in Fds \ {conns'}
        PROVE  QueuesInv(g)' /\ PlacesInv(g)' /\ OrderInv(g)'
    <3>1. QueuesInv(g) /\ PlacesInv(g) /\ OrderInv(g)
      BY <2>1 DEF FlowInv
    <3> QED BY <2>1, <2>2, <3>1
            DEF QueuesInv, PlacesInv, OrderInv, NoOutAfterIn, NoInAfterOut, Alive
  <2>5. ASSUME NEW g \in Fds, g = conns'
        PROVE  QueuesInv(g)' /\ PlacesInv(g)' /\ OrderInv(g)'
    <3>1. at[g] = "none" /\ at'[g] = "menu"
      BY <2>2, <2>3, <2>5
    <3>2. toServer'[g] = <<>> /\ toClient'[g] = <<>>
      BY <2>1, <3>1 DEF FlowInv, QueuesInv
    <3>3. /\ ~ Has(toServer'[g], EndReq) /\ ~ Has(toClient'[g], InReply)
          /\ NeverAfter(toServer'[g], InReq, OutReq)
          /\ NeverAfter(toClient'[g], InReply, OutReply)
      <4>1. /\ ~ Has(<<>>, EndReq) /\ ~ Has(<<>>, InReply)
            /\ NeverAfter(<<>>, InReq, OutReq)
            /\ NeverAfter(<<>>, InReply, OutReply)
        BY ShortLemma
      <4> QED BY <3>2, <4>1, Zenon
    <3> QED BY <3>1, <3>2, <3>3
            DEF QueuesInv, PlacesInv, OrderInv, NoOutAfterIn, Waiting, Asking, Talking
  <2> QED BY <2>4, <2>5 DEF FlowInv
<1>5. CASE Boot
  <2>1. /\ ~ Alive /\ at' = [g \in Fds |-> "none"]
        /\ \A g \in Fds : at[g] \in {"none", "gone"}
        /\ UNCHANGED <<toServer, toClient>>
    BY <1>5 DEF Boot, Start, Alive
  <2>2. ASSUME NEW g \in Fds
        PROVE  QueuesInv(g)' /\ PlacesInv(g)' /\ OrderInv(g)'
    <3>1. toServer'[g] = <<>> /\ toClient'[g] = <<>> /\ at'[g] = "none"
      BY <2>1 DEF FlowInv, QueuesInv
    <3> QED BY <3>1, ShortLemma
            DEF QueuesInv, PlacesInv, OrderInv, Waiting, Asking, Talking
  <2> QED BY <2>2 DEF FlowInv
<1>6. ASSUME ~ Alive', at' = at, NEW ended, End(ended),
             \A g \in Fds : toServer'[g] = <<>>
      PROVE  FlowInv'
  <2>1. ASSUME NEW g \in Fds
        PROVE  QueuesInv(g)'
    <3>1. at[g] \in {"none", "gone"} => toClient'[g] = <<>>
      BY <1>6, EndLemma
    <3> QED BY <1>6, <3>1, ShortLemma DEF QueuesInv
  <2> QED BY <1>6, <2>1 DEF FlowInv
<1>7. CASE Stop
  <2>1. /\ ~ Alive' /\ at' = at /\ toServer' = [g \in Fds |-> <<>>]
        /\ \E ended : End(ended)
    BY <1>7 DEF Stop, AcceptFail, Crash, Alive
  <2> QED BY <1>6, <2>1
<1>8. CASE SenderFails \/ KillSender
  <2>1. /\ at' = at /\ toServer' = toServer /\ watched' = watched
        /\ (Alive' <=> Alive)
        /\ IF Alive THEN toClient' = toClient ELSE End(heirs)
    BY <1>8, SenderGoneLemma DEF netVars
  <2>2. CASE Alive
    BY <2>1, <2>2 DEF FlowInv, QueuesInv, PlacesInv, OrderInv, NoOutAfterIn, NoInAfterOut
  <2>3. CASE ~ Alive
    <3>1. \A g \in Fds : toServer'[g] = <<>>
      BY <2>1, <2>3 DEF FlowInv, QueuesInv
    <3> QED BY <1>6, <2>1, <2>3, <3>1
  <2> QED BY <2>2, <2>3
<1> QED BY <1>1, <1>2, <1>3, <1>4, <1>5, <1>7, <1>8 DEF MyQQNext

LEMMA FlowInvariant == MyQQSpec => []FlowInv
<1>1. MyQQInit => FlowInv
  <2> SUFFICES ASSUME MyQQInit, NEW g \in Fds
               PROVE  QueuesInv(g) /\ PlacesInv(g) /\ OrderInv(g)
    BY DEF FlowInv
  <2>1. at[g] = "none" /\ toServer[g] = <<>> /\ toClient[g] = <<>>
    BY DEF MyQQInit
  <2> QED BY <2>1, ShortLemma
          DEF QueuesInv, PlacesInv, OrderInv, Waiting, Asking, Talking
<1>2. FlowInv /\ UNCHANGED myqqVars => FlowInv'
  BY DEF myqqVars, vars, netVars, clientVars, FlowInv, QueuesInv, PlacesInv,
         OrderInv, NoOutAfterIn, NoInAfterOut, Alive
<1>3. CoreInv /\ CoreInv' /\ FlowInv /\ [MyQQNext]_myqqVars => FlowInv'
  BY <1>2, FlowStep
<1> QED BY <1>1, <1>3, CoreInvariant, PTL DEF MyQQSpec

-----------------------------------------------------------------------------
(* Whom the operations on the list leave online: OnlineProofs bounds the   *)
(* set from above, here it is bounded from below.                          *)
LEMMA StillSame ==
  ASSUME NEW list, NEW after, DOMAIN after = DOMAIN list,
         \A i \in DOMAIN list : /\ after[i].socketfd = list[i].socketfd
                                /\ after[i].logFlag = list[i].logFlag
  PROVE  OnlineFds(after) = OnlineFds(list)
BY DEF OnlineFds, OnlineAt

LEMMA StillAdd ==
  ASSUME NEW list \in Seq(Node), NEW node \in Node, node.logFlag = NO
  PROVE  OnlineFds(addUserToList(list, node)) = OnlineFds(list)
<1> DEFINE after == addUserToList(list, node)
<1>1. Len(list) \in Nat /\ DOMAIN list = 1..Len(list)
  BY ListLemma
<1>2. /\ DOMAIN after = 1..(Len(list) + 1)
      /\ \A j \in 2..(Len(list) + 1) : after[j] = list[j - 1]
  <2>1. list \in Seq(Node) /\ node \in Node
    OBVIOUS
  <2>2. DOMAIN after = 1..(Len(list) + 1)
    BY <2>1, AddLemma
  <2>3. \A j \in 2..(Len(list) + 1) : after[j] = list[j - 1]
    BY <2>1, AddLemma
  <2> QED BY <2>2, <2>3, Zenon
<1>3. OnlineFds(after) \subseteq OnlineFds(list)
  BY OnlineAdd
<1> HIDE DEF after
<1>4. ASSUME NEW i \in OnlineAt(list)
      PROVE  i + 1 \in OnlineAt(after) /\ after[i + 1] = list[i]
  BY <1>1, <1>2 DEF OnlineAt
<1>5. OnlineFds(list) \subseteq OnlineFds(after)
  BY <1>4 DEF OnlineFds
<1> QED BY <1>3, <1>5 DEF after

LEMMA StillSet ==
  ASSUME NEW list \in Seq(Node), NEW i \in DOMAIN list, NEW fd \in Fds,
         list[i].logFlag = NO
  PROVE  OnlineFds(SetOnline(list, i, fd)) = OnlineFds(list) \cup {fd}
<1> DEFINE after == SetOnline(list, i, fd)
<1>1. \A j \in DOMAIN list : list[j] \in Node
  BY ListLemma
<1>2. /\ DOMAIN after = DOMAIN list
      /\ after[i].socketfd = fd /\ after[i].logFlag = YES
      /\ \A j \in DOMAIN list : j # i => after[j] = list[j]
  BY <1>1 DEF SetOnline, Node
<1>3. OnlineFds(after) \subseteq OnlineFds(list) \cup {fd}
  BY OnlineSet
<1> HIDE DEF after
<1>4. OnlineFds(list) \subseteq OnlineFds(after)
  BY <1>2 DEF OnlineFds, OnlineAt, NO, YES
<1>5. fd \in OnlineFds(after)
  BY <1>2 DEF OnlineFds, OnlineAt
<1> QED BY <1>3, <1>4, <1>5 DEF after

LEMMA StillQuit ==
  ASSUME NEW list \in Seq(Node), NEW i \in DOMAIN list, NEW fd \in Fds
  PROVE  OnlineFds(list) \ {fd} \subseteq OnlineFds(AfterQuit(list, i, fd))
<1> DEFINE after == AfterQuit(list, i, fd)
           l == setLoginBySockID(list, fd, NO)
<1>1. \A j \in DOMAIN list : list[j] \in Node
  BY ListLemma
<1>2. /\ DOMAIN l = DOMAIN list
      /\ \A j \in DOMAIN list :
           /\ l[j] \in Node
           /\ l[j].socketfd = list[j].socketfd
           /\ list[j].socketfd # fd => l[j].logFlag = list[j].logFlag
  BY <1>1 DEF setLoginBySockID, findNodeBySocketID, Node, NO, YES
<1> HIDE DEF l
<1>3. after = [l EXCEPT ![i].rtspPlayFlag = NO]
  BY DEF l, AfterQuit
<1> HIDE DEF after
<1>4. DOMAIN after = DOMAIN list
  BY <1>2, <1>3
<1>5. \A j \in DOMAIN list : /\ after[j].socketfd = l[j].socketfd
                             /\ after[j].logFlag = l[j].logFlag
  BY <1>2, <1>3 DEF Node
<1>6. OnlineFds(list) \ {fd} \subseteq OnlineFds(after)
  BY <1>2, <1>4, <1>5 DEF OnlineFds, OnlineAt
<1> QED BY <1>6 DEF after

LEMMA StillLogout ==
  ASSUME NEW list \in Seq(Node), NEW i \in DOMAIN list,
         NEW after, after = [list EXCEPT ![i].logFlag = NO]
  PROVE  /\ OnlineFds(list) \ {list[i].socketfd} \subseteq OnlineFds(after)
         /\ list[i].socketfd \in OnlineFds(after) \cap Fds
              => list[i].socketfd \in InSeveral(list)
<1>1. \A j \in DOMAIN list : list[j] \in Node
  BY ListLemma
<1>2. /\ DOMAIN after = DOMAIN list
      /\ after[i].socketfd = list[i].socketfd /\ after[i].logFlag = NO
      /\ \A j \in DOMAIN list : j # i => after[j] = list[j]
  BY <1>1 DEF Node
<1>3. OnlineFds(list) \ {list[i].socketfd} \subseteq OnlineFds(after)
  BY <1>2 DEF OnlineFds, OnlineAt
<1>4. list[i].socketfd \in OnlineFds(after) \cap Fds
        => list[i].socketfd \in InSeveral(list)
  BY <1>2 DEF OnlineFds, OnlineAt, InSeveral, NO, YES
<1> QED BY <1>3, <1>4

LEMMA StillRemove ==
  ASSUME NEW list \in Seq(Node), NEW i \in DOMAIN list
  PROVE  LET after == RemoveAt(list, i) IN
         /\ OnlineFds(list) \ {list[i].socketfd} \subseteq OnlineFds(after)
         /\ list[i].socketfd \in OnlineFds(after) \cap Fds
              => list[i].socketfd \in InSeveral(list)
<1> DEFINE after == RemoveAt(list, i)
<1>1. Len(list) \in Nat /\ DOMAIN list = 1..Len(list)
  BY ListLemma
<1>2. /\ DOMAIN after = 1..(Len(list) - 1)
      /\ \A j \in 1..(Len(list) - 1) :
            after[j] = IF j < i THEN list[j] ELSE list[j + 1]
  BY <1>1, RemoveLemma
<1> HIDE DEF after
<1>3. \A j \in DOMAIN after : \E k \in DOMAIN list : k # i /\ after[j] = list[k]
  BY <1>1, <1>2
<1>4. ASSUME NEW k \in DOMAIN list, k # i
      PROVE  \E j \in DOMAIN after : after[j] = list[k]
  <2>1. CASE k < i
    <3>1. k \in DOMAIN after /\ after[k] = list[k]
      BY <1>1, <1>2, <2>1
    <3> QED BY <3>1
  <2>2. CASE k > i
    <3>1. k - 1 \in DOMAIN after /\ after[k - 1] = list[k]
      BY <1>1, <1>2, <2>2
    <3> QED BY <3>1
  <2> QED BY <1>1, <1>4, <2>1, <2>2
<1>5. OnlineFds(list) \ {list[i].socketfd} \subseteq OnlineFds(after)
  BY <1>4 DEF OnlineFds, OnlineAt
<1>6. list[i].socketfd \in OnlineFds(after) \cap Fds
        => list[i].socketfd \in InSeveral(list)
  BY <1>3 DEF OnlineFds, OnlineAt, InSeveral
<1> QED BY <1>5, <1>6 DEF after

-----------------------------------------------------------------------------
(* How the message m from fd and the answer to it belong together with who *)
(* is online before and after it.                                          *)
Out(fd) == Wrote(fd, OutReply)
In(fd) == Wrote(fd, {"LOGIN_OK"})
Effects(fd, m) ==
  /\ OnlineFds(userHead') \subseteq Online \cup {fd}
  /\ Online \ {fd} \subseteq OnlineFds(userHead')
  /\ fd \in OnlineFds(userHead') \ Online => In(fd)
  /\ fd \in Online \ OnlineFds(userHead') => m \in EndReq \/ Out(fd)
  /\ Out(fd) \/ m \in EndReq
       => fd \notin OnlineFds(userHead') \/ fd \in InSeveral(userHead) \cup InSeveral(userHead')
  /\ In(fd) => fd \in OnlineFds(userHead')
  /\ m \notin EndReq => watched' = watched

LEMMA EffectsLemma ==
  ASSUME PrefixesAreNames, NobodyRenames, TypeOK, OneNodeEach(userHead),
         NEW fd \in Fds, NEW m \in Request, WellTyped(m), Handle(fd, m)
  PROVE  Effects(fd, m)
<1> DEFINE list == userHead
           In1 == In(fd)
           Out1 == Out(fd)
           End1 == m \in EndReq
<1> USE KindsOfReply
<1>1. list \in Seq(Node) /\ \A i \in DOMAIN list : list[i] \in Node
  BY ListLemma DEF TypeOK
<1>2. /\ OnlineFds(userHead') \subseteq Online \cup {fd}
  BY HandleLemma, OnlineStep DEF Online
<1>3. End1 <=> m.type \in {"QUIT", "EOF"}
  BY DEF EndReq
<1>4. /\ In1 => m.type = "LOGIN"
      /\ Out1 => m.type \in {"LOGOUT", "UNREGIST"}
  <2>1. In1 => Wrote(fd, InReply)
    BY DEF In, Wrote, Has
  <2> QED BY <2>1, OutputLemma DEF Out
<1>5. ASSUME OnlineFds(userHead') = Online, ~ In1, ~ Out1, ~ End1, watched' = watched
      PROVE  Effects(fd, m)
  BY <1>5 DEF Effects
<1>6. ASSUME sent' = Silence
      PROVE  ~ In1 /\ ~ Out1
  BY <1>6, SilentLemma DEF In, Out
<1>7. ASSUME NEW t, sent' = Write(fd, Msg(t)), t \notin OutReply \cup {"LOGIN_OK"}
      PROVE  ~ In1 /\ ~ Out1
  BY <1>7, AnsweredLemma DEF In, Out
<1>8. CASE m.type = "REGIST" /\ Register(fd, m.name, m.pw)
  <2>1. watched' = watched /\ userHead' \in {list, addUserToList(list, NewNode(m.name, fd))}
    BY <1>8 DEF Register, LockForever, netVars
  <2>2. NewNode(m.name, fd) \in Node /\ NewNode(m.name, fd).logFlag = NO
    BY <1>8 DEF WellTyped, NewNode, Node
  <2>3. OnlineFds(userHead') = Online
    BY <1>1, <2>1, <2>2, StillAdd DEF Online
  <2> QED BY <1>3, <1>4, <1>5, <1>8, <2>1, <2>3
<1>9. CASE m.type = "LOGIN" /\ Login(fd, m.name, m.pw)
  <2>1. watched' = watched /\ ~ End1 /\ ~ Out1
    BY <1>3, <1>4, <1>9 DEF Login, netVars
  <2>2. CASE userHead' = list /\ \E t \in {"UN_EXIST", "HAS_ONLINE", "LOGIN_FAIL"} :
               sent' = Write(fd, Msg(t))
    <3>1. PICK t \in {"UN_EXIST", "HAS_ONLINE", "LOGIN_FAIL"} :
            sent' = Write(fd, Msg(t))
      BY <2>2
    <3>2. t \notin OutReply \cup {"LOGIN_OK"}
      BY DEF OutReply
    <3> QED BY <1>5, <1>7, <2>1, <2>2, <3>1, <3>2 DEF Online
  <2>3. CASE /\ \E i \in DOMAIN list : /\ list[i].logFlag = NO
                                       /\ userHead' = SetOnline(list, i, fd)
             /\ sent' = WriteAndBrocast(fd, Msg("LOGIN_OK"), userHead', fd)
    <3>1. OnlineFds(userHead') = Online \cup {fd}
      BY <1>1, <2>3, StillSet DEF Online
    <3>2. In1
      BY <2>3, ToldLemma DEF In
    <3> QED BY <2>1, <3>1, <3>2 DEF Effects
  <2>4. \/ userHead' = list /\ \E t \in {"UN_EXIST", "HAS_ONLINE", "LOGIN_FAIL"} :
               sent' = Write(fd, Msg(t))
        \/ /\ \E i \in DOMAIN list : /\ list[i].logFlag = NO
                                     /\ userHead' = SetOnline(list, i, fd)
           /\ sent' = WriteAndBrocast(fd, Msg("LOGIN_OK"), userHead', fd)
    BY <1>9 DEF Login, CheckPassward
  <2> QED BY <2>2, <2>3, <2>4
<1>10. CASE m.type \in {"QUIT", "EOF"} /\ Quit(fd)
  <2>1. userHead' = list \/ \E i \in DOMAIN list : userHead' = AfterQuit(list, i, fd)
    BY <1>10 DEF Quit, QuitOnline, AfterQuit
  <2>2. Online \ {fd} \subseteq OnlineFds(userHead')
    BY <1>1, <2>1, StillQuit DEF Online
  <2>3. fd \in OnlineFds(userHead') => fd \in InSeveral(userHead')
    BY <1>10, QuitShares
  <2>4. fd \in OnlineFds(userHead') => fd \in Online
    <3>1. CASE \E i \in DOMAIN list : userHead' = AfterQuit(list, i, fd)
      <4>1. PICK i \in DOMAIN list : userHead' = AfterQuit(list, i, fd)
        BY <3>1
      <4>2. /\ DOMAIN userHead' = DOMAIN list
            /\ \A j \in DOMAIN list :
                 /\ userHead'[j].socketfd = list[j].socketfd
                 /\ userHead'[j].logFlag = YES => list[j].logFlag = YES
        BY <1>1, <4>1, OnlineQuit
      <4> QED BY <4>2, OnlineSame DEF Online
    <3> QED BY <2>1, <3>1 DEF Online
  <2> QED BY <1>2, <1>3, <1>4, <1>10, <2>2, <2>3, <2>4 DEF Effects
<1>11. CASE (Discard(fd) \/ ReqUsers(fd)) /\ m.type \notin {"QUIT", "EOF"}
  <2>1. userHead' = list /\ watched' = watched
    BY <1>11 DEF Discard, ReqUsers, netVars
  <2>2. ~ In1 /\ ~ Out1
    <3>1. CASE Discard(fd)
      BY <1>6, <3>1 DEF Discard
    <3>2. CASE ReqUsers(fd)
      <4>1. /\ FlashOnline(list).type \in Chatter /\ FlashAll(list).type \in Chatter
            /\ Msg("BROCAST").type \in Chatter
        BY DEF FlashOnline, FlashAll, Msg, Chatter
      <4>2. \/ sent' = Silence \/ sent' = Write(fd, FlashOnline(list))
            \/ sent' = Write(fd, FlashAll(list)) \/ sent' = Write(fd, Msg("BROCAST"))
        BY <3>2 DEF ReqUsers, WriteOnline
      <4> QED BY <1>6, <4>1, <4>2, AnsweredLemma DEF In, Out
    <3> QED BY <1>11, <3>1, <3>2
  <2> QED BY <1>3, <1>5, <1>11, <2>1, <2>2 DEF Online
<1>12. CASE m.type = "RENAME" /\ Rename(fd, m.name)
  BY <1>12 DEF WellTyped, NobodyRenames
<1>13. CASE m.type = "CHG_PW" /\ ChangePassward(fd, m.pw)
  <2>1. userHead' = list /\ watched' = watched
    BY <1>13 DEF ChangePassward, LockForever, netVars
  <2> QED BY <1>3, <1>4, <1>5, <1>13, <2>1 DEF Online
<1>14. CASE m.type = "UNREGIST" /\ Unregister(fd)
  <2>1. watched' = watched /\ ~ End1 /\ ~ In1
    BY <1>3, <1>4, <1>14 DEF Unregister, LockForever, netVars
  <2>2. PICK i \in DOMAIN list :
          /\ findNodeBySocketID(list, fd, i)
          /\ \/ userHead' = list /\ sent' \in {Write(fd, Msg("BROCAST")), Silence}
             \/ /\ deleteNodeByName(list, list[i].userId, userHead')
                /\ \E c : sent' = WriteAndBrocast(fd, Msg("UNREGIST_OK"), userHead', c)
    BY <1>14 DEF Unregister, LockForever
  <2>3. CASE userHead' = list /\ sent' \in {Write(fd, Msg("BROCAST")), Silence}
    <3>1. "BROCAST" \notin OutReply \cup {"LOGIN_OK"}
      BY DEF OutReply
    <3>2. ~ Out1
      BY <1>6, <1>7, <2>3, <3>1
    <3> QED BY <1>5, <2>1, <2>3, <3>2 DEF Online
  <2>4. CASE /\ deleteNodeByName(list, list[i].userId, userHead')
             /\ \E c : sent' = WriteAndBrocast(fd, Msg("UNREGIST_OK"), userHead', c)
    <3>1. list[i].userId \in Names /\ list[i].socketfd = fd
      BY <1>1, <2>2 DEF Node, findNodeBySocketID
    <3>2. ~ NoNodeByName(list, list[i].userId)
      BY <3>1, PrefixAssumption DEF NoNodeByName, Matches
    <3>3. PICK k \in DOMAIN list :
            findNodeByName(list, list[i].userId, k) /\ userHead' = RemoveAt(list, k)
      BY <2>4, <3>2 DEF deleteNodeByName
    <3>4. k = i
      BY <3>3, FindLemma DEF OneNodeEach
    <3>5. Out1
      <4>1. Msg("UNREGIST_OK").type \in OutReply
        BY DEF OutReply
      <4> QED BY <2>4, <4>1, ToldLemma DEF Out
    <3>6. /\ Online \ {fd} \subseteq OnlineFds(userHead')
          /\ fd \in OnlineFds(userHead') => fd \in InSeveral(list)
      BY <1>1, <3>1, <3>3, <3>4, StillRemove DEF Online
    <3>7. OnlineFds(userHead') \subseteq Online
      BY <1>1, <3>3, OnlineRemove DEF Online
    <3> QED BY <2>1, <3>5, <3>6, <3>7 DEF Effects
  <2> QED BY <2>2, <2>3, <2>4
<1>15. CASE m.type = "LOGOUT" /\ Logout(fd)
  <2>1. watched' = watched /\ ~ End1 /\ ~ In1
    BY <1>3, <1>4, <1>15 DEF Logout, netVars
  <2>2. PICK i \in DOMAIN list : /\ list[i].socketfd = fd
                                 /\ userHead' = [list EXCEPT ![i].logFlag = NO]
    BY <1>15 DEF Logout, findNodeBySocketID
  <2>3. Out1
    <3>1. Msg("LOGOUT_OK").type \in OutReply
      BY DEF OutReply
    <3> QED BY <1>15, <3>1, ToldLemma DEF Logout, Out
  <2>4. /\ Online \ {fd} \subseteq OnlineFds(userHead')
        /\ fd \in OnlineFds(userHead') => fd \in InSeveral(list)
    BY <1>1, <2>2, StillLogout DEF Online
  <2>5. OnlineFds(userHead') \subseteq Online
    <3>1. /\ DOMAIN userHead' = DOMAIN list
          /\ \A j \in DOMAIN list :
               /\ userHead'[j].socketfd = list[j].socketfd
               /\ userHead'[j].logFlag = YES => list[j].logFlag = YES
      BY <1>1, <2>2 DEF Node, NO, YES
    <3> QED BY <3>1, OnlineSame DEF Online
  <2> QED BY <2>1, <2>3, <2>4, <2>5 DEF Effects
<1>16. CASE \/ m.type = "REQ_MEDIA" /\ ReqMedia(fd)
            \/ m.type = "STOP_MEDIA" /\ StopMedia(fd)
  <2>1. userHead' = list \/ \E i \in DOMAIN list, flag \in {NO, YES} :
          userHead' = [list EXCEPT ![i].rtspPlayFlag = flag]
    <3>1. CASE ReqMedia(fd)
      BY <3>1 DEF ReqMedia, AddPlayer
    <3>2. CASE StopMedia(fd)
      BY <3>2 DEF StopMedia
    <3> QED BY <1>16, <3>1, <3>2
  <2>2. ASSUME NEW i \in DOMAIN list, NEW flag \in {NO, YES},
               userHead' = [list EXCEPT ![i].rtspPlayFlag = flag]
        PROVE  /\ DOMAIN userHead' = DOMAIN list
               /\ \A j \in DOMAIN list :
                    /\ userHead'[j].socketfd = list[j].socketfd
                    /\ userHead'[j].logFlag = list[j].logFlag
    BY <1>1, <2>2 DEF Node
  <2>3. OnlineFds(userHead') = Online
    <3>1. CASE userHead' = list
      BY <3>1 DEF Online
    <3>2. CASE userHead' # list
      <4>1. /\ DOMAIN userHead' = DOMAIN list
            /\ \A j \in DOMAIN list :
                 /\ userHead'[j].socketfd = list[j].socketfd
                 /\ userHead'[j].logFlag = list[j].logFlag
        BY <2>1, <2>2, <3>2
      <4> QED BY <4>1, StillSame DEF Online
    <3> QED BY <3>1, <3>2
  <2>4. watched' = watched
    BY <1>16 DEF ReqMedia, StopMedia, netVars
  <2> QED BY <1>3, <1>4, <1>5, <1>16, <2>3, <2>4
<1> QED BY <1>8, <1>9, <1>10, <1>11, <1>12, <1>13, <1>14, <1>15, <1>16
        DEF Handle, NeedsNode

(* The list and the clients, step by step: a user,                         *)
LEMMA ServedUser ==
  ASSUME CoreInv, FlowInv, ServedInv, NEW fd \in Fds, User(fd)
  PROVE  ServedInv'
<1> DEFINE s == toServer[fd]
           c == toClient[fd]
           d == toClient'[fd]
<1> USE DEF CoreInv
<1>1. Stays(fd) /\ UserMoves(fd)
  BY UserLemma
<1>2. /\ server' = server /\ watched' = watched /\ userHead' = userHead
      /\ shared' = shared
  BY UserQuiet DEF Quiet, netVars
<1>3. SharedInv'
  BY <1>2 DEF ServedInv, SharedInv, Alive, InSeveral
<1> SUFFICES ASSUME server = "up", NEW g \in Fds
             PROVE  NodeInv(g)'
  BY <1>2, <1>3 DEF ServedInv
<1>4. NodeInv(g) /\ (Online' = Online)
  BY <1>2 DEF ServedInv, Online
<1>5. CASE g # fd
  <2>1. /\ at'[g] = at[g] /\ toServer'[g] = toServer[g]
        /\ toClient'[g] = toClient[g] /\ (g \in astray' <=> g \in astray)
    BY <1>1, <1>5 DEF Stays
  <2> QED BY <1>2, <1>4, <2>1 DEF NodeInv
<1> SUFFICES ASSUME g = fd
             PROVE  NodeInv(fd)'
  BY <1>5
<1>6. NodeInv(fd) /\ QueuesInv(fd) /\ OrderInv(fd)
  BY <1>4 DEF FlowInv, Alive
<1> USE DEF NodeInv
<1> HIDE DEF s, c, d
<1>7. ASSUME NEW m \in Request, toServer'[fd] = s \o <<m>> \/ toServer'[fd] = s
      PROVE  Has(s, EndReq) => Has(toServer'[fd], EndReq)
  <2>1. s \in Seq(Request)
    BY DEF MyQQTypeOK, s
  <2>2. Has(s \o <<m>>, EndReq) <=> Has(s, EndReq) \/ m \in EndReq
    BY <2>1, SentLemma
  <2> QED BY <1>7, <2>2
<1>8. Req("REQ_OL") \in Request
  BY RequestLemma
<1>9. CASE \/ Asks(fd, "REGIST", {"regist"}) /\ astray' = astray
           \/ Asks(fd, "LOGIN", {"login", "relogin"}) /\ astray' = astray
  <2>1. Has(s, EndReq) => Has(toServer'[fd], EndReq)
    <3>1. PICK m \in Request : toServer'[fd] = s \o <<m>> \/ toServer'[fd] = s
      BY <1>9, RequestLemma DEF Asks, s
    <3> QED BY <1>7, <3>1
  <2>2. at[fd] \in Asking /\ at'[fd] \in Waiting /\ d = c
    BY <1>9 DEF Asks, Asking, Waiting, c, d
  <2> QED BY <1>2, <1>4, <1>6, <2>1, <2>2 DEF s, c, d, Asking, Waiting, Talking
<1>10. CASE /\ at[fd] \in {"exist", "offer", "reoffer"}
            /\ at'[fd] \in {"menu", "again", "reagain"}
            /\ Keeps(fd) /\ d = c
  BY <1>2, <1>4, <1>6, <1>10 DEF Keeps, c, d, Asking, Waiting, Talking
<1>11. CASE /\ at[fd] = "reoffer" /\ Enters(fd) /\ d = c
            /\ astray' = astray \cup {fd}
  <2>1. ~ Has(c, OutReply) /\ at'[fd] = "talk"
    BY <1>6, <1>11 DEF OrderInv, Enters, c
  <2> QED BY <1>2, <1>4, <1>6, <1>11, <2>1 DEF c, d, Asking, Waiting, Talking
<1>12. CASE /\ at[fd] \in Waiting /\ at'[fd] \in Asking
            /\ Takes(fd) /\ Keeps(fd) /\ Head(c) # "LOGIN_OK"
  <2>1. Has(c, {"LOGIN_OK"}) <=> Has(d, {"LOGIN_OK"})
    BY <1>12, TakenLemma DEF c, d
  <2> QED BY <1>2, <1>4, <1>6, <1>12, <2>1
             DEF Keeps, c, d, Asking, Waiting, Talking
<1>13. CASE /\ at[fd] \in Waiting /\ Enters(fd) /\ Takes(fd)
            /\ Head(c) = "LOGIN_OK"
  <2>1. Head(c) \in InReply
    BY <1>13 DEF InReply
  <2>2. Has(c, {"LOGIN_OK"}) /\ ~ Has(d, OutReply) /\ at'[fd] = "talk"
    BY <1>6, <1>13, <2>1, TakenLemma DEF OrderInv, NoOutAfterIn, Enters, c, d
  <2>3. fd \in Online
    BY <1>6, <1>13, <2>2 DEF c
  <2> QED BY <1>2, <1>4, <1>6, <1>13, <2>2, <2>3 DEF c, d, Asking, Waiting, Talking
<1>14. CASE /\ at[fd] = "talk" /\ at'[fd] = "menu"
            /\ Takes(fd) /\ Head(c) \in OutReply
  <2>1. Has(c, OutReply) /\ ~ Has(d, InReply)
    BY <1>6, <1>14, TakenLemma DEF OrderInv, NoInAfterOut, Talking, c, d
  <2>2. ~ Has(d, {"LOGIN_OK"})
    BY <2>1 DEF Has, InReply
  <2>3. fd \notin Online \ shared
    BY <1>6, <1>14, <2>1 DEF Talking, c
  <2> QED BY <1>2, <1>4, <1>14, <2>2, <2>3 DEF c, d, Talking
<1>15. CASE /\ at[fd] = "talk" /\ at'[fd] = "talk"
            /\ Takes(fd) /\ Head(c) \notin OutReply /\ astray' = astray
  <2>1. Has(c, OutReply) <=> Has(d, OutReply)
    BY <1>15, TakenLemma DEF c, d
  <2> QED BY <1>2, <1>4, <1>6, <1>15, <2>1 DEF c, d, Asking, Waiting, Talking
<1>16. CASE /\ at[fd] \in {"talk", "udp"} /\ at'[fd] \in Talking /\ d = c
            /\ astray' = astray
  BY <1>2, <1>4, <1>6, <1>16 DEF c, d, Asking, Waiting, Talking
<1>17. CASE Exit(fd)
  <2> DEFINE m == Req("EOF")
  <2>1. at'[fd] = "gone" /\ toServer'[fd] = s \o <<m>>
    BY <1>17, ExitLemma DEF Alive, s
  <2>2. m \in Request /\ m \in EndReq /\ s \in Seq(Request)
    BY RequestLemma, KindLemma DEF MyQQTypeOK, s
  <2> HIDE DEF m
  <2>3. Has(toServer'[fd], EndReq)
    BY <2>1, <2>2, SentLemma
  <2>4. fd \in Online \ shared => fd \in watched
    BY DEF ServerInv, OnlineInv, Online
  <2> QED BY <1>2, <1>4, <2>1, <2>3, <2>4 DEF Asking, Waiting, Talking
<1>18. /\ "talk" \in Talking /\ "leaving" \in Talking /\ "udp" \in Talking
       /\ "reoffer" \in Asking
  BY DEF Talking, Asking
<1>19. CASE \/ /\ at[fd] \in Waiting /\ at'[fd] \in Asking \ {"reoffer"}
               /\ Takes(fd) /\ Keeps(fd) /\ Head(toClient[fd]) # "LOGIN_OK"
            \/ /\ at[fd] \in Waiting /\ at'[fd] = "reoffer"
               /\ Takes(fd) /\ Keeps(fd) /\ Head(toClient[fd]) = "UN_EXIST"
  BY <1>12, <1>18, <1>19 DEF c
<1>20. CASE \/ /\ at[fd] = "talk" /\ at'[fd] \in {"talk", "leaving"}
               /\ toClient'[fd] = toClient[fd] /\ astray' = astray
            \/ /\ at[fd] \in {"talk", "udp"} /\ at'[fd] \in {"talk", "udp"}
               /\ toClient'[fd] = toClient[fd] /\ astray' = astray
  BY <1>16, <1>18, <1>20 DEF c, d
<1>21. CASE /\ at[fd] \in Waiting /\ Enters(fd) /\ Takes(fd)
            /\ Head(toClient[fd]) = "LOGIN_OK"
  BY <1>13, <1>21 DEF c
<1>22. CASE \/ /\ at[fd] \in {"exist", "offer", "reoffer"}
               /\ at'[fd] \in {"menu", "again", "reagain"}
               /\ Keeps(fd) /\ toClient'[fd] = toClient[fd]
            \/ /\ at[fd] = "reoffer" /\ Enters(fd) /\ astray' = astray \cup {fd}
               /\ toClient'[fd] = toClient[fd]
  BY <1>10, <1>11, <1>22 DEF c, d
<1>23. CASE \/ /\ at[fd] = "talk" /\ at'[fd] = "menu"
               /\ Takes(fd) /\ Head(toClient[fd]) \in OutReply
            \/ /\ at[fd] = "talk" /\ at'[fd] = "talk"
               /\ Takes(fd) /\ Head(toClient[fd]) \notin OutReply
               /\ astray' = astray
  BY <1>14, <1>15, <1>23 DEF c
<1> QED BY <1>1, <1>9, <1>17, <1>19, <1>20, <1>21, <1>22, <1>23 DEF UserMoves

(* the server, which forgets nothing of what was shared while it runs,     *)
LEMMA SharedStep ==
  ASSUME CoreInv, ServedInv, MyQQNext
  PROVE  SharedInv' /\ (Alive /\ Alive' => shared \subseteq shared')
<1>1. CASE Next
  <2>1. Remember
    BY <1>1 DEF Next
  <2> QED BY <2>1 DEF Remember, SharedInv, Alive
<1>2. CASE Quiet
  BY <1>2 DEF Quiet, ServedInv, SharedInv, Alive, InSeveral
<1> QED BY <1>1, <1>2, ServerMoves DEF CoreInv

LEMMA ServedDeliver ==
  ASSUME PrefixesAreNames, NobodyRenames, CoreInv, CoreInv', TableInv, FlowInv,
         ServedInv, SharedInv', shared \subseteq shared',
         NEW fd \in Fds, Deliver(fd)
  PROVE  ServedInv'
<1> DEFINE m == Head(toServer[fd])
<1> USE DEF CoreInv
<1>1. /\ toServer[fd] # <<>> /\ Handle(fd, m) /\ Carry
      /\ toServer' = [toServer EXCEPT ![fd] = Tail(@)]
      /\ m \in Request /\ WellTyped(m) /\ Receive(fd)
  BY FirstLemma, HandleLemma DEF Deliver
<1>2. /\ server = "up" /\ Alive /\ Alive' /\ fd \in watched /\ at' = at
      /\ astray' = astray
      /\ watched' = watched \/ watched' = watched \ {fd}
  BY <1>1, ReceiveNet DEF Alive, Carry
<1>3. TypeOK /\ TypeOK' /\ MyQQTypeOK
  BY DEF ServerInv
<1>4. Effects(fd, m)
  BY <1>1, <1>2, <1>3, EffectsLemma DEF TableInv
<1> HIDE DEF m
<1>5. \A g \in Fds :
        /\ Wrote(g, {"LOGIN_OK"}) => g = fd /\ m \in InReq
        /\ Wrote(g, OutReply) => g = fd /\ m \in OutReq
  <2>1. \A g \in Fds : Wrote(g, {"LOGIN_OK"}) => Wrote(g, InReply)
    BY KindsOfReply DEF Wrote, Has
  <2> QED BY <1>1, <2>1, OutputLemma DEF InReq, OutReq
<1>6. InSeveral(userHead) \cup InSeveral(userHead') \subseteq shared'
  BY <1>2 DEF ServedInv, SharedInv
<1>7. (m \in InReq => m \notin OutReq \cup EndReq) /\ (m \in OutReq => m \notin EndReq)
  BY DEF InReq, OutReq, EndReq
<1> SUFFICES ASSUME NEW g \in Fds
             PROVE  NodeInv(g)'
  BY DEF ServedInv
<1> DEFINE c == toClient[g]
           d == toClient'[g]
           s == toServer[g]
           t == toServer'[g]
<1>8. NodeInv(g) /\ QueuesInv(g) /\ PlacesInv(g) /\ OrderInv(g)
  BY <1>2 DEF ServedInv, FlowInv
<1>9. /\ Has(s, InReq) <=> (g = fd /\ m \in InReq) \/ Has(t, InReq)
      /\ Has(s, OutReq) <=> (g = fd /\ m \in OutReq) \/ Has(t, OutReq)
      /\ Has(s, EndReq) <=> (g = fd /\ m \in EndReq) \/ Has(t, EndReq)
  <2>1. CASE g = fd
    BY <1>1, <1>3, <2>1, ServedLemma DEF m
  <2>2. CASE g # fd
    <3>1. t = s
      BY <1>1, <2>2 DEF MyQQTypeOK
    <3> QED BY <2>2, <3>1
  <2> QED BY <2>1, <2>2
<1>10. /\ at[g] \in {"none", "gone"} => c = <<>> /\ d = <<>>
       /\ at[g] = "none" => s = <<>>
  BY <1>1, <1>3, <1>8, CarryLemma DEF QueuesInv
<1>11. at[g] \notin {"none", "gone"} =>
         /\ Has(d, {"LOGIN_OK"}) <=> Has(c, {"LOGIN_OK"}) \/ Wrote(g, {"LOGIN_OK"})
         /\ Has(d, OutReply) <=> Has(c, OutReply) \/ Wrote(g, OutReply)
  BY <1>1, <1>3, GainLemma
<1>12. /\ ~ Has(<<>>, {"LOGIN_OK"}) /\ ~ Has(<<>>, OutReply)
       /\ ~ Has(<<>>, InReq) /\ ~ Has(<<>>, EndReq)
       /\ Has(c, {"LOGIN_OK"}) => Has(c, InReply)
  BY ShortLemma, KindsOfReply DEF Has
<1>13. at[g] \in Places
  BY DEF MyQQTypeOK
<1> HIDE DEF c, d, s, t
<1> DEFINE on == g \in Online
           on1 == g \in Online'
           served == \/ at[g] \in Talking
                     \/ Has(c, {"LOGIN_OK"})
                     \/ g \in watched /\ Has(s, EndReq)
<1>14. NodeInv(g)' <=>
         /\ on1 /\ g \notin shared' =>
              /\ \/ at[g] \in Talking \/ Has(d, {"LOGIN_OK"})
                 \/ g \in watched' /\ Has(t, EndReq)
              /\ at[g] \in Talking => ~ Has(d, OutReply)
         /\ at[g] \in Waiting \cup Asking /\ Has(d, {"LOGIN_OK"}) => on1
         /\ at[g] \in {"talk", "udp"} /\ g \notin astray => on1 \/ Has(d, OutReply)
  BY <1>2 DEF NodeInv, d, t
<1>15. /\ on /\ g \notin shared =>
            /\ at[g] \in Talking \/ Has(c, {"LOGIN_OK"})
                 \/ (g \in watched /\ Has(s, EndReq))
            /\ at[g] \in Talking => ~ Has(c, OutReply)
       /\ at[g] \in Waiting \cup Asking /\ Has(c, {"LOGIN_OK"}) => on
       /\ at[g] \in {"talk", "udp"} /\ g \notin astray => on \/ Has(c, OutReply)
  BY <1>8 DEF NodeInv, c, s
<1>16. CASE g # fd
  <2>1. /\ ~ Wrote(g, {"LOGIN_OK"}) /\ ~ Wrote(g, OutReply)
        /\ on1 <=> on
        /\ g \in watched => g \in watched'
    BY <1>2, <1>4, <1>5, <1>16 DEF Effects, Online
  <2>2. CASE at[g] \in {"none", "gone"}
    BY <1>9, <1>10, <1>12, <1>14, <1>15, <1>16, <2>1, <2>2
       DEF Talking, Waiting, Asking
  <2>3. CASE at[g] \notin {"none", "gone"}
    BY <1>9, <1>11, <1>14, <1>15, <1>16, <2>1, <2>3
  <2> QED BY <2>2, <2>3
<1>17. CASE g = fd
  <2>1. /\ on1 /\ ~ on => Wrote(g, {"LOGIN_OK"})
        /\ on /\ ~ on1 => m \in EndReq \/ Wrote(g, OutReply)
        /\ m \in EndReq \/ Wrote(g, OutReply) => ~ on1 \/ g \in shared'
        /\ Wrote(g, {"LOGIN_OK"}) => on1
        /\ m \notin EndReq => watched' = watched
    BY <1>4, <1>6, <1>17 DEF Effects, Online, In, Out
  <2>2. /\ Wrote(g, {"LOGIN_OK"}) => m \in InReq /\ Has(s, InReq)
        /\ Wrote(g, OutReply) => m \in OutReq /\ Has(s, OutReq)
        /\ m \in EndReq => at[g] \in {"leaving", "gone"}
    BY <1>5, <1>8, <1>9, <1>17 DEF QueuesInv, s
  <2>3. CASE at[g] \in {"none", "gone"}
    <3>1. ~ Has(c, {"LOGIN_OK"}) /\ ~ Has(d, {"LOGIN_OK"})
      BY <1>10, <1>12, <2>3
    <3>2. Has(s, EndReq)
      <4>1. at[g] # "none"
        BY <1>1, <1>10, <1>17 DEF s
      <4> QED BY <1>2, <1>8, <1>17, <2>3, <4>1 DEF PlacesInv, s
    <3>3. on1 /\ g \notin shared' => g \in watched' /\ Has(t, EndReq)
      BY <1>2, <1>9, <1>17, <2>1, <3>2
    <3> QED BY <1>14, <2>3, <3>1, <3>3 DEF Talking, Waiting, Asking
  <2>4. CASE at[g] \in Talking
    <3>1. NoInAfterOut(g)
      BY <1>8, <2>4 DEF OrderInv
    <3>2. Has(c, OutReply) => ~ Wrote(g, {"LOGIN_OK"})
      BY <2>2, <3>1 DEF NoInAfterOut, c, s
    <3>3. at[g] \notin {"none", "gone"} \cup Waiting \cup Asking
      BY <2>4 DEF Talking, Waiting, Asking
    <3>4. on1 /\ g \notin shared' => ~ Has(d, OutReply)
      BY <1>11, <1>15, <2>1, <2>4, <3>2, <3>3
    <3>5. at[g] \in {"talk", "udp"} /\ g \notin astray => on1 \/ Has(d, OutReply)
      BY <1>11, <1>15, <2>1, <2>2, <3>3
    <3> QED BY <1>14, <2>4, <3>3, <3>4, <3>5
  <2>5. CASE at[g] \in Waiting \cup Asking
    <3>1. NoOutAfterIn(g)
      BY <1>8, <2>5 DEF OrderInv
    <3>2. Has(c, {"LOGIN_OK"}) => ~ Wrote(g, OutReply)
      BY <1>12, <2>2, <3>1 DEF NoOutAfterIn, c, s
    <3>3. at[g] \notin {"none", "gone", "leaving"} \cup Talking
      BY <2>5 DEF Talking, Waiting, Asking
    <3>4. on1 /\ g \notin shared' =>
            Has(d, {"LOGIN_OK"}) \/ (g \in watched' /\ Has(t, EndReq))
      BY <1>9, <1>11, <1>15, <2>1, <2>2, <3>3
    <3>5. Has(d, {"LOGIN_OK"}) => on1
      BY <1>11, <1>15, <2>1, <2>2, <2>5, <3>2, <3>3
    <3> QED BY <1>14, <2>5, <3>3, <3>4, <3>5 DEF Talking
  <2> QED BY <1>13, <2>3, <2>4, <2>5 DEF Places
<1> QED BY <1>16, <1>17

(* and everything else.                                                    *)
LEMMA ServedStep ==
  ASSUME PrefixesAreNames, NobodyRenames, CoreInv, CoreInv', TableInv, FlowInv,
         ServedInv, MyQQNext
  PROVE  ServedInv'
<1> USE DEF CoreInv
<1>0. SharedInv' /\ (Alive /\ Alive' => shared \subseteq shared')
  BY SharedStep
<1>1. ASSUME NEW fd \in Fds, User(fd)
      PROVE  ServedInv'
  BY <1>1, ServedUser
<1>2. ASSUME NEW fd \in Fds, Deliver(fd)
      PROVE  ServedInv'
  <2>1. Receive(fd)
    BY <1>2, FirstLemma, HandleLemma DEF Deliver
  <2>2. Alive /\ Alive'
    BY <2>1, ReceiveNet DEF Alive
  <2> QED BY <1>0, <1>2, <2>2, ServedDeliver
<1>3. CASE FinishHandler
  <2>1. /\ Carry /\ toServer' = toServer /\ watched' = watched /\ at' = at
        /\ astray' = astray /\ userHead' = userHead /\ server = "up"
        /\ Alive /\ Alive' /\ changing \in [fd : Fds, name : Names, pw : Passwords]
    BY <1>3 DEF FinishHandler, FinishChange, Alive, netVars, ServerInv, TypeOK, Carry
  <2>2. sent' = Silence \/ sent' = Write(changing.fd, Msg("BROCAST"))
    BY <1>3 DEF FinishHandler, FinishChange
  <2>3. changing.fd \in Fds /\ Msg("BROCAST").type \notin InReply \cup OutReply
    BY <2>1, KindsOfReply DEF InReply, OutReply
  <2>4. \A g \in Fds : ~ Wrote(g, {"LOGIN_OK"}) /\ ~ Wrote(g, OutReply)
    <3>1. CASE sent' = Silence
      BY <3>1, SilentLemma
    <3>2. CASE sent' = Write(changing.fd, Msg("BROCAST"))
      BY <2>3, <3>2, AnsweredLemma, KindsOfReply
    <3> QED BY <2>2, <3>1, <3>2
  <2>5. ASSUME NEW g \in Fds
        PROVE  NodeInv(g)'
    <3>1. NodeInv(g) /\ Online' = Online /\ shared \subseteq shared'
      BY <1>0, <2>1 DEF ServedInv, Online
    <3>2. CASE at[g] \in {"none", "gone"}
      <4>1. /\ toClient'[g] = <<>> /\ toClient[g] = <<>>
            /\ ~ Has(<<>>, {"LOGIN_OK"})
        BY <2>1, <3>2, CarryLemma, ShortLemma DEF ServerInv, FlowInv, QueuesInv
      <4> QED BY <2>1, <3>1, <3>2, <4>1 DEF NodeInv, Talking, Waiting, Asking
    <3>3. CASE at[g] \notin {"none", "gone"}
      <4>1. /\ Has(toClient'[g], {"LOGIN_OK"}) <=> Has(toClient[g], {"LOGIN_OK"})
            /\ Has(toClient'[g], OutReply) <=> Has(toClient[g], OutReply)
        BY <2>1, <2>4, <3>3, GainLemma DEF ServerInv
      <4> QED BY <2>1, <3>1, <4>1 DEF NodeInv
    <3> QED BY <3>2, <3>3
  <2> QED BY <1>0, <2>5 DEF ServedInv
<1>4. CASE Connect
  <2>1. /\ conns' = conns + 1 /\ conns \in Nat /\ conns' \in Fds
        /\ server = "up" /\ Alive /\ Alive' /\ userHead' = userHead
        /\ watched \subseteq watched' /\ Go(conns', "menu")
        /\ UNCHANGED <<toServer, toClient, astray>>
    BY <1>4, FdAssumption DEF Connect, Accept, ServerInv, TypeOK, Fds, Alive
  <2>2. /\ at'[conns'] = "menu"
        /\ \A g \in Fds \ {conns'} : at'[g] = at[g]
    BY <2>1 DEF MyQQTypeOK, Go
  <2>3. at[conns'] = "none" /\ conns' \notin Online
    <3>1. conns' > conns /\ conns' \notin 1..conns
      BY <2>1
    <3> QED BY <2>1, <3>1 DEF FreshInv, ServerInv, OnlineInv, Online
  <2>4. ASSUME NEW g \in Fds
        PROVE  NodeInv(g)'
    <3>1. NodeInv(g) /\ Online' = Online /\ shared \subseteq shared'
      BY <1>0, <2>1 DEF ServedInv, Online
    <3>2. CASE g = conns'
      <4>1. ~ Has(toClient'[g], {"LOGIN_OK"})
        <5>1. toClient'[g] = <<>> /\ ~ Has(<<>>, {"LOGIN_OK"})
          BY <2>1, <2>3, <3>2, ShortLemma DEF FlowInv, QueuesInv
        <5> QED BY <5>1, Zenon
      <4>2. g \notin Online' /\ at'[g] = "menu"
        BY <2>2, <2>3, <3>1, <3>2
      <4> QED BY <4>1, <4>2 DEF NodeInv
    <3>3. CASE g # conns'
      BY <2>1, <2>2, <3>1, <3>3 DEF NodeInv
    <3> QED BY <3>2, <3>3
  <2> QED BY <1>0, <2>4 DEF ServedInv
<1>5. CASE Boot
  <2>1. /\ at' = [g \in Fds |-> "none"]
        /\ \A i \in DOMAIN userHead' : userHead'[i].logFlag = NO
    BY <1>5 DEF Boot, Start, LoadUsers, NewNode
  <2>2. Online' = {}
    BY <2>1 DEF Online, OnlineFds, OnlineAt, NO, YES
  <2>3. \A g \in Fds : NodeInv(g)'
    BY <2>1, <2>2 DEF NodeInv, Waiting, Asking
  <2> QED BY <1>0, <2>3 DEF ServedInv
<1>6. CASE Stop
  <2>1. server' # "up"
    BY <1>6 DEF Stop, AcceptFail, Crash
  <2> QED BY <1>0, <2>1 DEF ServedInv
<1>7. CASE SenderFails \/ KillSender
  <2>1. /\ UNCHANGED <<server, at, astray, toServer, userHead, shared>>
        /\ watched' = watched /\ (Alive => toClient' = toClient)
    BY <1>7, SenderGoneLemma DEF netVars
  <2>2. CASE server = "up"
    <3>1. toClient' = toClient
      BY <2>1, <2>2 DEF Alive
    <3> QED BY <1>0, <2>1, <3>1 DEF ServedInv, NodeInv, Online
  <2>3. CASE server # "up"
    BY <1>0, <2>1, <2>3 DEF ServedInv
  <2> QED BY <2>2, <2>3
<1> QED BY <1>1, <1>2, <1>3, <1>4, <1>5, <1>6, <1>7 DEF MyQQNext

LEMMA ServedInvariant ==
  ASSUME PrefixesAreNames, NobodyRenames, InsertsWork
  PROVE  MyQQSpec => []ServedInv
<1>1. MyQQInit => ServedInv
  BY DEF MyQQInit, Init, ServedInv, SharedInv, Alive
<1>2. ServedInv /\ UNCHANGED myqqVars => ServedInv'
  BY DEF myqqVars, vars, netVars, clientVars, ServedInv, SharedInv, NodeInv,
         Online, OnlineFds, OnlineAt, InSeveral, Alive
<1>3. CoreInv /\ CoreInv' /\ TableInv /\ FlowInv /\ ServedInv /\ [MyQQNext]_myqqVars
      => ServedInv'
  <2> SUFFICES ASSUME CoreInv, CoreInv', TableInv, FlowInv, ServedInv,
                      [MyQQNext]_myqqVars
               PROVE  ServedInv'
    OBVIOUS
  <2>1. CASE MyQQNext
    BY <2>1, ServedStep
  <2>2. CASE UNCHANGED myqqVars
    BY <2>2, <1>2
  <2> QED BY <2>1, <2>2
<1>4. MyQQSpec => []TableInv
  BY TableInvariant
<1>5. MyQQSpec => []FlowInv
  BY FlowInvariant
<1> QED BY <1>1, <1>3, <1>4, <1>5, CoreInvariant, PTL DEF MyQQSpec

(* When no name is a prefix of another, nobody renames himself and inserts *)
(* do not fail, nobody stays online after his client ended or went back to *)
(* the menu: whoever is shown online has a client that talks, or is about  *)
(* to read that it is logged in, or whose end the server is about to read, *)
(* unless the connection was the descriptor of several nodes at once.      *)
THEOREM OnlineAreServed ==
  ASSUME PrefixesAreNames, NobodyRenames, InsertsWork
  PROVE  MyQQSpec => []OnlineIsServed
<1>1. CoreInv /\ TableInv /\ ServedInv => OnlineIsServed
  <2> SUFFICES ASSUME CoreInv, TableInv, ServedInv, NEW i \in OnlineAt(userHead),
                      userHead[i].socketfd \notin shared
               PROVE  Served(userHead[i].socketfd)
    BY DEF OnlineIsServed
  <2> DEFINE fd == userHead[i].socketfd
  <2>1. fd \in Online
    BY DEF Online, OnlineFds
  <2>2. fd \in 1..conns /\ 1..conns \subseteq Fds
    BY <2>1, FdAssumption DEF CoreInv, ServerInv, OnlineInv, Online, TypeOK, Fds
  <2>3. server = "up"
    BY DEF TableInv, OnlineAt
  <2> HIDE DEF fd
  <2>4. /\ \/ at[fd] \in Talking
           \/ Has(toClient[fd], {"LOGIN_OK"})
           \/ fd \in watched /\ Has(toServer[fd], EndReq)
    BY <2>1, <2>2, <2>3 DEF ServedInv, NodeInv, fd
  <2>5. CASE Has(toClient[fd], {"LOGIN_OK"})
    <3>1. "LOGIN_OK" \in Range(toClient[fd])
      BY <2>5 DEF Has, Range
    <3> QED BY <3>1 DEF Served, fd
  <2>6. CASE fd \in watched /\ Has(toServer[fd], EndReq)
    BY <2>6 DEF Has, EndReq, Served, fd
  <2> QED BY <2>4, <2>5, <2>6 DEF Served, fd
<1> QED BY <1>1, CoreInvariant, TableInvariant, ServedInvariant, PTL

(* Under the same conditions, a client that talks has an account online at *)
(* its connection, or an answer under way that will send it back to the    *)
(* menu, unless it took the wish to register another name for a login.     *)
THEOREM TalkersLoggedIn ==
  ASSUME PrefixesAreNames, NobodyRenames, InsertsWork
  PROVE  MyQQSpec => []TalksLoggedIn
<1>1. ServedInv => TalksLoggedIn
  <2> SUFFICES ASSUME ServedInv, server = "up", NEW fd \in Fds \ astray,
                      at[fd] \in {"talk", "udp"}
               PROVE  \/ OnlineAs(fd) # {}
                      \/ Range(toClient[fd]) \cap {"LOGOUT_OK", "UNREGIST_OK"} # {}
    BY DEF TalksLoggedIn
  <2>1. fd \in Online \/ Has(toClient[fd], OutReply)
    BY DEF ServedInv, NodeInv
  <2>2. CASE fd \in Online
    BY <2>2 DEF Online, OnlineFds, OnlineAs
  <2>3. CASE Has(toClient[fd], OutReply)
    BY <2>3 DEF Has, OutReply, Range
  <2> QED BY <2>1, <2>2, <2>3
<1> QED BY <1>1, ServedInvariant, PTL

-----------------------------------------------------------------------------
(* A server that is gone has said nothing last.                            *)
MuteInv == Alive \/ sent = Silence

(* The answer to a login goes to the one who asked, and puts online the    *)
(* node that the name found: with PrefixesAreNames the node of that name.  *)
LEMMA LoginLemma ==
  ASSUME PrefixesAreNames, TypeOK, NEW fd \in Fds, NEW m \in Request, WellTyped(m),
         Handle(fd, m), NEW g \in Fds, Wrote(g, {"LOGIN_OK"})
  PROVE  g = fd /\ m.name \in OnlineAs(fd)'
<1>1. g = fd /\ m.type = "LOGIN"
  <2>1. Wrote(g, InReply)
    BY KindsOfReply DEF Wrote, Has
  <2> QED BY <2>1, OutputLemma
<1>2. Login(fd, m.name, m.pw)
  BY <1>1 DEF Handle, NeedsNode
<1>3. ~ \E t \in {"UN_EXIST", "HAS_ONLINE", "LOGIN_FAIL"} : sent' = Write(fd, Msg(t))
  BY KindsOfReply, AnsweredLemma
<1>4. PICK i \in DOMAIN userHead :
        /\ findNodeByName(userHead, m.name, i)
        /\ userHead' = SetOnline(userHead, i, fd)
  BY <1>2, <1>3 DEF Login, CheckPassward
<1>5. userHead[i] \in Node /\ m.name \in Names
  BY <1>1, ListLemma DEF TypeOK, WellTyped
<1>6. userHead[i].userId = m.name
  BY <1>4, <1>5 DEF findNodeByName, Matches, PrefixesAreNames, Node
<1>7. /\ i \in DOMAIN userHead' /\ userHead'[i].userId = m.name
      /\ userHead'[i].socketfd = fd /\ userHead'[i].logFlag = YES
  BY <1>4, <1>5, <1>6 DEF SetOnline, Node
<1> QED BY <1>1, <1>7 DEF OnlineAs, OnlineAt

LEMMA MuteInvariant == MyQQSpec => []MuteInv
<1>1. MyQQInit => MuteInv
  BY DEF MyQQInit, Init, MuteInv
<1>2. CoreInv /\ MuteInv /\ [MyQQNext]_myqqVars => MuteInv'
  <2> SUFFICES ASSUME CoreInv, MuteInv, [MyQQNext]_myqqVars
               PROVE  MuteInv'
    OBVIOUS
  <2>1. ASSUME NEW fd \in Fds, User(fd)
        PROVE  MuteInv'
    BY <2>1, UserQuiet DEF Quiet, MuteInv, Alive, Silence
  <2>2. ASSUME NEW fd \in Fds, Deliver(fd)
        PROVE  MuteInv'
    <3>1. Receive(fd)
      BY <2>2, FirstLemma, HandleLemma DEF Deliver, CoreInv
    <3> QED BY <3>1, ReceiveNet DEF MuteInv, Alive
  <2>3. CASE FinishHandler \/ Connect
    BY <2>3 DEF FinishHandler, FinishChange, Connect, Accept, MuteInv, Alive
  <2>4. CASE Boot \/ Stop
    BY <2>4 DEF Boot, Start, Stop, AcceptFail, Crash, Gone, MuteInv, Silence
  <2>5. CASE SenderFails \/ KillSender \/ UNCHANGED myqqVars
    BY <2>5, SenderGoneLemma DEF myqqVars, vars, MuteInv, Alive
  <2> QED BY <2>1, <2>2, <2>3, <2>4, <2>5 DEF MyQQNext
<1> QED BY <1>1, <1>2, CoreInvariant, PTL DEF MyQQSpec

(* "check whether the user name and the password match" (server.c:267) is  *)
(* true when no name is a prefix of another: then who goes online is the   *)
(* user whose name was sent.  (The run MCLoginName shows what two such     *)
(* names do.)                                                              *)
THEOREM LoginsCheckTheName ==
  ASSUME PrefixesAreNames
  PROVE  MyQQSpec => LoginChecksName
<1> DEFINE Checked == \A fd \in Fds : Answers(fd, "LOGIN_OK") =>
                        Head(toServer[fd]).name \in OnlineAs(fd)'
<1>1. CoreInv /\ MuteInv /\ [MyQQNext]_myqqVars => [Checked]_myqqVars
  <2> SUFFICES ASSUME CoreInv, MuteInv, MyQQNext, NEW g \in Fds, Answers(g, "LOGIN_OK")
               PROVE  Head(toServer[g]).name \in OnlineAs(g)'
    OBVIOUS
  <2>1. Wrote(g, {"LOGIN_OK"})
    BY DEF Answers, Wrote, Has, TypesOf
  <2>2. sent' # Silence
    BY <2>1, SilentLemma
  <2>3. ASSUME NEW fd \in Fds, Deliver(fd)
        PROVE  Head(toServer[g]).name \in OnlineAs(g)'
    <3> DEFINE m == Head(toServer[fd])
    <3>1. Handle(fd, m) /\ m \in Request /\ WellTyped(m) /\ TypeOK
      BY <2>3, FirstLemma DEF Deliver, CoreInv, ServerInv
    <3> HIDE DEF m
    <3>2. g = fd /\ m.name \in OnlineAs(fd)'
      BY <2>1, <3>1, LoginLemma
    <3> QED BY <3>2 DEF m
  <2>4. ASSUME NEW fd \in Fds
        PROVE  ~ User(fd)
    BY <2>2, <2>4 DEF User, Read, AskRegister, AskLogin, Decide, ReadRegister, ReadLogin,
       ReadTalk, Command, QuitTalk, TalkToOthers, Exit, Client
  <2>5. CASE FinishHandler
    <3>1. PICK c : sent' = Write(c, Msg("BROCAST"))
      BY <2>2, <2>5 DEF FinishHandler, FinishChange
    <3>2. sent'[g] \in {<<>>, <<Msg("BROCAST")>>}
      BY <3>1 DEF Write, Silence
    <3> QED BY <3>2 DEF Answers, Msg
  <2>6. ~ (Connect \/ Boot \/ Stop)
    BY <2>2 DEF Connect, Accept, Boot, Start, Stop, AcceptFail, Crash, Gone
  <2>7. ~ (SenderFails \/ KillSender)
    BY <2>2, SenderGoneLemma
  <2> QED BY <2>3, <2>4, <2>5, <2>6, <2>7 DEF MyQQNext
<1>2. MyQQSpec => [][Checked]_myqqVars
  BY <1>1, CoreInvariant, MuteInvariant, PTL DEF MyQQSpec
<1> QED BY <1>2 DEF LoginChecksName
=============================================================================
