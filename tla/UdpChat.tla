------------------------------ MODULE UdpChat ------------------------------
(***************************************************************************)
(* The chat over UDP: the two processes of udp_server.c (the parent reads  *)
(* what its operator types, the child receives the datagrams and keeps the *)
(* list of clients) and the clients of udp_client.c, which log in, chat,   *)
(* ask who is online and quit.  Datagrams may get lost and overtake each   *)
(* other.  What clients only print is not followed to them.                *)
(***************************************************************************)
EXTENDS Integers, FiniteSets, SequencesExt

CONSTANTS
  Clients,   \* the runs of udp_client; each has a socket, its address
  Names,
  NameOf,    \* the name a client was started with; names may repeat
  Asks,      \* Asks[c]: what the user of client c does besides quitting
  PrefixOf,  \* <<a, b>> in PrefixOf: name a is a prefix of name b
  MaxInbox   \* bound of the model: datagrams of one client under way

ASSUME UdpAssumption ==
  /\ NameOf \in [Clients -> Names]
  /\ Asks \in [Clients -> SUBSET {"CLIENT_CHAT", "PRINT_ONLINE",
                                  "PRIVATE_CHAT"}]
  /\ MaxInbox \in Nat \ {0}

VARIABLES
  parent,     \* the process of send_message of the server
  receiver,   \* the process of recv_message of the server: up; crashed at a
              \* null pointer; exited, with nobody to answer to; exited because
              \* an answer could not be sent; or killed
  list,       \* its clients, the newest first
  client,     \* the clients: not started, running, quit, killed
  inbox,      \* datagrams of each client under way to the server
  notice,     \* datagrams of the parent under way to the receiver
  told,       \* clients to which a SERVER_QUIT is under way
  reply,      \* what the receiver sent last: for which client and to whom
  disturbed   \* auxiliary: a datagram was lost or overtaken

serverVars == <<parent, receiver, list>>
vars == <<serverVars, client, inbox, notice, told, reply, disturbed>>

Types == {"CLIENT_LOGIN", "CLIENT_CHAT", "CLIENT_QUIT", "PRINT_ONLINE",
          "PRIVATE_CHAT"}
Message == [type : Types, peer : Names]
Nobody == [type |-> "NONE", from |-> {}, to |-> {}]

UdpTypeOK ==
  /\ parent \in {"up", "quitting", "gone"}
  /\ receiver \in {"up", "crashed", "exited", "unsent", "killed"}
  /\ list \in Seq([name : Names, addr : Clients])
  /\ client \in [Clients -> {"off", "on", "quit", "killed"}]
  /\ inbox \in [Clients -> Seq(Message)]
  /\ notice \in Seq({"SERVER_CHAT", "SERVER_QUIT"})
  /\ told \subseteq Clients
  /\ reply \in [type : Types \cup {"NONE", "SERVER_CHAT", "SERVER_QUIT"},
                from : SUBSET Clients, to : SUBSET Clients]
  /\ disturbed \in BOOLEAN

-----------------------------------------------------------------------------
(* The list.                                                               *)
Named(l, name) == {i \in DOMAIN l : l[i].name = name}
Addrs(l) == {l[i].addr : i \in DOMAIN l}

(* Mutants of insert_list: an old node of the name is kept instead, and    *)
(* the address is not copied.                                              *)
insert_list_once(l, name, addr) ==
  IF Named(l, name) = {} THEN Cons([name |-> name, addr |-> addr], l) ELSE l
insert_list_blank(l, name, addr) == Cons([name |-> name, addr |-> "blank"], l)
(* A client that logs in is put in front, whether or not its name is there *)
(* already.                                                                *)
insert_list(l, name, addr) == Cons([name |-> name, addr |-> addr], l)

(* Mutants of delete_list: all nodes of the name, and the newest node.     *)
delete_list_all(l, name) == SelectSeq(l, LAMBDA node : node.name # name)
delete_list_head(l, name) == Tail(l)
(* The first node of the name is unlinked.  The name must be there: the    *)
(* search ends with a null pointer, which is used.                         *)
delete_list(l, name) == RemoveAt(l, Min(Named(l, name)))

-----------------------------------------------------------------------------
(* The clients.                                                            *)
Post(c, m) == inbox' = [inbox EXCEPT ![c] = Append(@, m)]
Msg(type, c) == [type |-> type, peer |-> NameOf[c]]
CanSend(c) == client[c] = "on" /\ Len(inbox[c]) < MaxInbox

Start(c) ==
  /\ client[c] = "off"
  /\ client' = [client EXCEPT ![c] = "on"]
  /\ Post(c, Msg("CLIENT_LOGIN", c))
  /\ UNCHANGED <<serverVars, notice, told, reply, disturbed>>

(* group_chat, print_online, and private_chat, which refuses every prefix  *)
(* of the client's own name.                                               *)
Ask(c) ==
  /\ CanSend(c)
  /\ \/ \E type \in Asks[c] \ {"PRIVATE_CHAT"} : Post(c, Msg(type, c))
     \/ \E peer \in Names :
          /\ "PRIVATE_CHAT" \in Asks[c]
          /\ <<peer, NameOf[c]>> \notin PrefixOf
          /\ Post(c, [type |-> "PRIVATE_CHAT", peer |-> peer])
  /\ UNCHANGED <<serverVars, client, notice, told, reply, disturbed>>

client_quit(c) ==
  /\ CanSend(c)
  /\ client' = [client EXCEPT ![c] = "quit"]
  /\ Post(c, Msg("CLIENT_QUIT", c))
  /\ UNCHANGED <<serverVars, notice, told, reply, disturbed>>

(* The two processes of a client end from the keyboard; nobody is told.    *)
Abort(c) ==
  /\ client[c] = "on"
  /\ client' = [client EXCEPT ![c] = "killed"]
  /\ UNCHANGED <<serverVars, inbox, notice, told, reply, disturbed>>

(* The receiver of the client prints what comes, until SERVER_QUIT: then   *)
(* it kills its parent and exits.                                          *)
Listens(c) == client[c] = "on"
server_quit_client(c) ==
  /\ c \in told
  /\ told' = told \ {c}
  /\ client' = [client EXCEPT ![c] = IF Listens(c) THEN "killed" ELSE @]
  /\ UNCHANGED <<serverVars, inbox, notice, reply, disturbed>>

-----------------------------------------------------------------------------
(* The network loses a datagram.                                           *)
Lose ==
  /\ disturbed' = TRUE
  /\ \/ \E c \in Clients : \E k \in DOMAIN inbox[c] :
          /\ inbox' = [inbox EXCEPT ![c] = RemoveAt(@, k)]
          /\ UNCHANGED told
     \/ \E c \in told : told' = told \ {c} /\ UNCHANGED inbox
  /\ UNCHANGED <<serverVars, client, notice, reply>>

-----------------------------------------------------------------------------
(* The receiver of the server.                                             *)
Reply(type, c, to) == reply' = [type |-> type, from |-> {c}, to |-> to]
(* print_online and private_chat exit when their one sendto fails; the     *)
(* others do not look at what theirs return.                               *)
SendTo(type, c, to) ==
  \/ Reply(type, c, {to}) /\ UNCHANGED receiver
  \/ receiver' = "unsent" /\ UNCHANGED reply

client_login(c) ==
  /\ list' = insert_list(list, NameOf[c], c)
  /\ Reply("CLIENT_LOGIN", c,
           {list'[i].addr : i \in DOMAIN list' \ Named(list', NameOf[c])})
  /\ UNCHANGED receiver

client_chat(c) ==
  /\ Reply("CLIENT_CHAT", c, Addrs(list))
  /\ UNCHANGED <<receiver, list>>

client_quit_server(c) ==
  IF Named(list, NameOf[c]) = {}
  THEN receiver' = "crashed" /\ UNCHANGED <<list, reply>>
  ELSE /\ list' = delete_list(list, NameOf[c])
       /\ Reply("CLIENT_QUIT", c, Addrs(list'))
       /\ UNCHANGED receiver

(* Mutant of Asker: the node the search ended at.                          *)
AskerEnd(c) == list[Len(list)].addr
(* print_online answers to the last node of the name.  Without one the     *)
(* address is uninitialised: the answer goes nowhere, to anybody, or       *)
(* sendto fails and the receiver exits.                                    *)
Asker(c) == list[Max(Named(list, NameOf[c]))].addr
print_online(c) ==
  /\ UNCHANGED list
  /\ IF Named(list, NameOf[c]) # {}
     THEN SendTo("PRINT_ONLINE", c, Asker(c))
     ELSE \/ receiver' = "exited" /\ UNCHANGED reply
          \/ /\ \E to \in {{}} \cup {{d} : d \in Clients} :
                  Reply("PRINT_ONLINE", c, to)
             /\ UNCHANGED receiver

(* private_chat: to the first node of the peer, back to the first one of   *)
(* the sender's name when there is none.                                   *)
private_chat(c, peer) ==
  /\ UNCHANGED list
  /\ LET found == IF Named(list, peer) # {} THEN Named(list, peer)
                  ELSE Named(list, NameOf[c])
     IN IF found # {}
        THEN SendTo("PRIVATE_CHAT", c, list[Min(found)].addr)
        ELSE Reply("PRIVATE_CHAT", c, {}) /\ UNCHANGED receiver

recv_message(c, k) ==
  /\ receiver = "up"
  /\ k \in DOMAIN inbox[c]
  /\ LET m == inbox[c][k] IN
     \/ m.type = "CLIENT_LOGIN" /\ client_login(c)
     \/ m.type = "CLIENT_CHAT" /\ client_chat(c)
     \/ m.type = "CLIENT_QUIT" /\ client_quit_server(c)
     \/ m.type = "PRINT_ONLINE" /\ print_online(c)
     \/ m.type = "PRIVATE_CHAT" /\ private_chat(c, m.peer)
  /\ inbox' = [inbox EXCEPT ![c] = RemoveAt(@, k)]
  /\ disturbed' = (disturbed \/ k > 1)
  /\ UNCHANGED <<parent, client, notice, told>>

-----------------------------------------------------------------------------
(* The operator types a line, or "quit": the parent sends SERVER_QUIT to   *)
(* its child and kills it right after, without waiting.                    *)
server_says ==
  /\ parent = "up" /\ notice = <<>>
  /\ notice' = <<"SERVER_CHAT">>
  /\ UNCHANGED <<serverVars, client, inbox, told, reply, disturbed>>

OperatorQuits ==
  /\ parent = "up"
  /\ parent' = "quitting"
  /\ notice' = Append(notice, "SERVER_QUIT")
  /\ UNCHANGED <<receiver, list, client, inbox, told, reply, disturbed>>

KillReceiver ==
  /\ parent = "quitting"
  /\ parent' = "gone"
  /\ receiver' = IF receiver = "up" THEN "killed" ELSE receiver

server_chat ==
  /\ receiver = "up" /\ notice # <<>> /\ Head(notice) = "SERVER_CHAT"
  /\ reply' = [type |-> "SERVER_CHAT", from |-> {}, to |-> Addrs(list)]
  /\ notice' = Tail(notice)
  /\ UNCHANGED <<serverVars, client, inbox, told, disturbed>>

(* server_quit tells the clients, and ends the parent with SIGUSR1; the    *)
(* SIGKILL of the parent may come in the middle.                           *)
server_quit ==
  /\ receiver = "up" /\ notice # <<>> /\ Head(notice) = "SERVER_QUIT"
  /\ notice' = Tail(notice)
  /\ \E to \in SUBSET Addrs(list) :
       /\ told' = told \cup to
       /\ reply' = [type |-> "SERVER_QUIT", from |-> {}, to |-> to]
       /\ \/ to = Addrs(list) /\ parent' = "gone" /\ UNCHANGED receiver
          \/ KillReceiver
  /\ UNCHANGED <<list, client, inbox, disturbed>>

(* The TCP server kills the parent, which is the only one it knows, before *)
(* it exits; or the parent kills its child first of all.                   *)
ParentKilled ==
  /\ parent # "gone"
  /\ parent' = "gone"
  /\ UNCHANGED <<receiver, list, client, inbox, notice, told, reply, disturbed>>

ReceiverKilled ==
  /\ KillReceiver
  /\ UNCHANGED <<list, client, inbox, notice, told, reply, disturbed>>

-----------------------------------------------------------------------------
Init ==
  /\ parent = "up" /\ receiver = "up" /\ list = <<>>
  /\ client = [c \in Clients |-> "off"]
  /\ inbox = [c \in Clients |-> <<>>]
  /\ notice = <<>> /\ told = {}
  /\ reply = Nobody
  /\ disturbed = FALSE

Next ==
  \/ \E c \in Clients :
       \/ Start(c) \/ Ask(c) \/ client_quit(c) \/ Abort(c)
       \/ server_quit_client(c)
       \/ \E k \in 1..MaxInbox : recv_message(c, k)
  \/ Lose
  \/ server_says \/ OperatorQuits \/ server_chat \/ server_quit
  \/ ParentKilled \/ ReceiverKilled

Spec == Init /\ [][Next]_vars

-----------------------------------------------------------------------------
(* A client that is here is one whose login was handled and whose quit was *)
(* not (a killed client never quits).                                      *)
UnderWay(c, type) == \E k \in DOMAIN inbox[c] : inbox[c][k].type = type
Here(c) ==
  /\ client[c] # "off"
  /\ ~ UnderWay(c, "CLIENT_LOGIN")
  /\ client[c] \in {"on", "killed"} \/ UnderWay(c, "CLIENT_QUIT")

(* While the network keeps all datagrams in order, the list has as many    *)
(* nodes of a name as there are clients of that name here, although it is  *)
(* kept by name only and clients may share one.                            *)
ListCounts ==
  ~ disturbed /\ receiver = "up" =>
    \A n \in Names : Cardinality(Named(list, n)) =
                     Cardinality({c \in Clients : NameOf[c] = n /\ Here(c)})

(* While the network keeps all datagrams in order, only the operator and a *)
(* sendto that fails end the receiver: no client quits that delete_list    *)
(* does not find, and none asks who is online that print_online does not   *)
(* find, although both go by a name that several clients may have.         *)
ReceiverLives == ~ disturbed /\ parent = "up" => receiver \in {"up", "unsent"}

(* A client whose name no other client has had is in the list only while   *)
(* it is here: nobody is shown online, or written to, who has quit.        *)
Alone(c) == \A d \in Clients \ {c} : NameOf[d] = NameOf[c] => client[d] = "off"
ListedIsHere ==
  ~ disturbed /\ receiver = "up" =>
    \A i \in DOMAIN list : Alone(list[i].addr) => Here(list[i].addr)

(* The same for the answers: who alone has his name and is here is found   *)
(* by print_online, and is the one it answers to.                          *)
AnswersReachAsker ==
  ~ disturbed /\ receiver = "up" =>
    \A c \in Clients : Alone(c) /\ Here(c) =>
      Named(list, NameOf[c]) # {} /\ Asker(c) = c
=============================================================================
