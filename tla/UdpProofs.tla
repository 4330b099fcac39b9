----------------------------- MODULE UdpProofs -----------------------------
(***************************************************************************)
(* Proofs about UdpChat, for any number of clients, however they share     *)
(* names, whatever they ask and however many datagrams are under way.      *)
(***************************************************************************)
EXTENDS UdpChat, ListLemmas, TLAPS

Node == [name : Names, addr : Clients]

(* The nodes of the list are those of clients that were started, each with *)
(* the name of its client.                                                 *)
NodesInv ==
  \A i \in DOMAIN list :
    list[i].name = NameOf[list[i].addr] /\ client[list[i].addr] # "off"

(* Only finitely many clients have been started.                           *)
StartedInv == IsFiniteSet({c \in Clients : client[c] # "off"})

(* What a client can have under way: its login in front, its quit at the   *)
(* end; and while the network keeps the order, a client that quits has its *)
(* quit under way until the receiver has nothing more of it.               *)
InboxInv(c) ==
  /\ client[c] = "off" => inbox[c] = <<>>
  /\ \A k \in DOMAIN inbox[c] :
       /\ inbox[c][k].type = "CLIENT_LOGIN" => k = 1
       /\ inbox[c][k].type = "CLIENT_QUIT" =>
            client[c] = "quit" /\ k = Len(inbox[c])
  /\ ~ disturbed /\ client[c] = "quit" /\ inbox[c] # <<>> =>
       inbox[c][Len(inbox[c])].type = "CLIENT_QUIT"

UdpInv ==
  /\ UdpTypeOK /\ NodesInv /\ StartedInv
  /\ \A c \in Clients : InboxInv(c)
  /\ ListCounts /\ ReceiverLives

-----------------------------------------------------------------------------
(* What the operations on the list return.                                 *)

(* The nodes of a name are positions of the list, finitely many.           *)
LEMMA NamedLemma ==
  ASSUME NEW l \in Seq(Node), NEW n
  PROVE  /\ Len(l) \in Nat /\ DOMAIN l = 1..Len(l)
         /\ \A i \in DOMAIN l : l[i].name \in Names /\ l[i].addr \in Clients
         /\ Named(l, n) \subseteq 1..Len(l)
         /\ IsFiniteSet(Named(l, n)) /\ Cardinality(Named(l, n)) \in Nat
         /\ Named(l, n) # {} =>
              Min(Named(l, n)) \in Named(l, n) /\ Max(Named(l, n)) \in Named(l, n)
<1>1. Len(l) \in Nat /\ DOMAIN l = 1..Len(l) /\ \A i \in 1..Len(l) : l[i] \in Node
  BY LenProperties, ElementOfSeq
<1>2. Named(l, n) \in SUBSET (1..Len(l))
  BY <1>1 DEF Named
<1>3. IsFiniteSet(1..Len(l))
  BY <1>1, FS_Interval
<1>4. IsFiniteSet(Named(l, n)) /\ Cardinality(Named(l, n)) \in Nat
  BY <1>2, <1>3, FS_Subset, FS_CardinalityType
<1>5. Named(l, n) \in SUBSET (0..Len(l)) /\ Named(l, n) \in SUBSET Nat
  BY <1>1, <1>2
<1>6. Named(l, n) # {} =>
        Min(Named(l, n)) \in Named(l, n) /\ Max(Named(l, n)) \in Named(l, n)
  BY <1>1, <1>5, MinLemma, MaxLemma
<1>7. QED
  BY <1>1, <1>2, <1>4, <1>6 DEF Node

(* insert_list adds one node of the name, and none of any other.           *)
LEMMA NamedInsert ==
  ASSUME NEW l \in Seq(Node), NEW name \in Names, NEW addr \in Clients, NEW n
  PROVE  /\ insert_list(l, name, addr) \in Seq(Node)
         /\ Cardinality(Named(insert_list(l, name, addr), n)) =
              Cardinality(Named(l, n)) + (IF n = name THEN 1 ELSE 0)
<1> DEFINE node == [name |-> name, addr |-> addr]
           after == insert_list(l, name, addr)
           f == [i \in Named(l, n) |-> i + 1]
<1>1. /\ after \in Seq(Node)
      /\ DOMAIN after = 1..(Len(l) + 1)
      /\ after[1] = node
      /\ \A i \in 2..(Len(l) + 1) : after[i] = l[i - 1]
  <2>1. l \in Seq(Node) /\ node \in Node /\ after = Cons(node, l)
    BY DEF insert_list, Node
  <2>2. ASSUME NEW x \in Node
        PROVE  /\ Cons(x, l) \in Seq(Node)
               /\ DOMAIN Cons(x, l) = 1..(Len(l) + 1)
               /\ Cons(x, l)[1] = x
               /\ \A i \in 2..(Len(l) + 1) : Cons(x, l)[i] = l[i - 1]
    BY ConsLemma
  <2> HIDE DEF node, after, f
  <2>3. QED
    BY <2>1, <2>2, Zenon
<1>2. /\ Len(l) \in Nat /\ DOMAIN l = 1..Len(l) /\ Named(l, n) \subseteq 1..Len(l)
      /\ IsFiniteSet(Named(l, n)) /\ Cardinality(Named(l, n)) \in Nat
  BY NamedLemma
<1> HIDE DEF after
<1>3. f \in Bijection(Named(l, n), Named(after, n) \ {1})
  <2>1. \A i \in Named(l, n) : f[i] \in Named(after, n) \ {1}
    <3>1. ASSUME NEW i \in Named(l, n)
          PROVE  i + 1 \in Named(after, n) \ {1}
      <4>1. i + 1 \in 2..(Len(l) + 1) /\ (i + 1) - 1 = i /\ l[i].name = n
        BY <1>2 DEF Named
      <4>2. QED
        BY <1>1, <1>2, <4>1 DEF Named
    <3>2. QED
      BY <3>1
  <2>2. \A j \in Named(after, n) \ {1} : \E i \in Named(l, n) : f[i] = j
    <3>1. ASSUME NEW j \in Named(after, n) \ {1}
          PROVE  j - 1 \in Named(l, n) /\ f[j - 1] = j
      <4>1. j \in 2..(Len(l) + 1) /\ j - 1 \in 1..Len(l) /\ (j - 1) + 1 = j
        BY <1>1, <1>2 DEF Named
      <4>2. l[j - 1].name = n
        BY <1>1, <4>1 DEF Named
      <4>3. QED
        BY <1>2, <4>1, <4>2 DEF Named
    <3>2. QED
      BY <3>1
  <2>3. \A i, j \in Named(l, n) : f[i] = f[j] => i = j
    BY <1>2
  <2> HIDE DEF f
  <2>4. f \in [Named(l, n) -> Named(after, n) \ {1}]
    BY <2>1 DEF f
  <2>5. QED
    BY <2>2, <2>3, <2>4 DEF Bijection, Injection, IsInjective, Surjection
<1>4. /\ IsFiniteSet(Named(after, n) \ {1})
      /\ Cardinality(Named(after, n) \ {1}) = Cardinality(Named(l, n))
  BY <1>2, <1>3, FS_Bijection DEF ExistsBijection
<1>5. CASE n = name
  <2>1. Named(after, n) = (Named(after, n) \ {1}) \cup {1}
    BY <1>1, <1>2, <1>5 DEF Named
  <2>2. Cardinality(Named(after, n)) = Cardinality(Named(after, n) \ {1}) + 1
    BY <1>4, <2>1, FS_AddElement
  <2>3. QED
    BY <1>1, <1>4, <1>5, <2>2 DEF after
<1>6. CASE n # name
  <2>1. Named(after, n) = Named(after, n) \ {1}
    BY <1>1, <1>6 DEF Named
  <2>2. Cardinality(Named(after, n)) = Cardinality(Named(l, n))
    BY <1>4, <2>1, Zenon
  <2>3. QED
    BY <1>1, <1>2, <1>6, <2>2 DEF after
<1>7. QED
  BY <1>5, <1>6

(* delete_list takes one node of the name away, and none of any other.     *)
LEMMA NamedDelete ==
  ASSUME NEW l \in Seq(Node), NEW name, Named(l, name) # {}, NEW n
  PROVE  /\ delete_list(l, name) \in Seq(Node)
         /\ \A j \in DOMAIN delete_list(l, name) :
              \E i \in DOMAIN l : delete_list(l, name)[j] = l[i]
         /\ Cardinality(Named(delete_list(l, name), n)) =
              Cardinality(Named(l, n)) - (IF n = name THEN 1 ELSE 0)
<1> DEFINE k == Min(Named(l, name))
           after == delete_list(l, name)
           f == [j \in Named(after, n) |-> IF j < k THEN j ELSE j + 1]
<1>1. /\ Len(l) \in Nat /\ DOMAIN l = 1..Len(l) /\ Named(l, n) \subseteq 1..Len(l)
      /\ IsFiniteSet(Named(l, n)) /\ Cardinality(Named(l, n)) \in Nat
      /\ k \in Named(l, name) /\ k \in 1..Len(l) /\ l[k].name = name
  BY NamedLemma DEF Named
<1> HIDE DEF k
<1>2. /\ after \in Seq(Node)
      /\ DOMAIN after = 1..(Len(l) - 1)
      /\ \A j \in 1..(Len(l) - 1) : after[j] = IF j < k THEN l[j] ELSE l[j + 1]
  BY <1>1, RemoveLemma DEF delete_list, k
<1> HIDE DEF after
<1>3. f \in Bijection(Named(after, n), Named(l, n) \ {k})
  <2>1. \A j \in Named(after, n) : f[j] \in Named(l, n) \ {k}
    <3>1. ASSUME NEW j \in Named(after, n)
          PROVE  (IF j < k THEN j ELSE j + 1) \in Named(l, n) \ {k}
      <4>1. j \in 1..(Len(l) - 1) /\ after[j].name = n
        BY <1>2 DEF Named
      <4>2. CASE j < k
        BY <1>1, <1>2, <4>1, <4>2 DEF Named
      <4>3. CASE ~ (j < k)
        BY <1>1, <1>2, <4>1, <4>3 DEF Named
      <4>4. QED
        BY <4>2, <4>3
    <3>2. QED
      BY <3>1
  <2>2. \A i \in Named(l, n) \ {k} : \E j \in Named(after, n) : f[j] = i
    <3>1. ASSUME NEW i \in Named(l, n) \ {k}
          PROVE  \E j \in Named(after, n) : f[j] = i
      <4>1. i \in 1..Len(l) /\ l[i].name = n /\ i # k
        BY <1>1 DEF Named
      <4>2. CASE i < k
        <5>1. i \in 1..(Len(l) - 1) /\ after[i] = l[i]
          BY <1>1, <1>2, <4>1, <4>2
        <5>2. i \in Named(after, n)
          BY <1>2, <4>1, <5>1 DEF Named
        <5>3. QED
          BY <4>2, <5>2
      <4>3. CASE ~ (i < k)
        <5>1. i - 1 \in 1..(Len(l) - 1) /\ ~ (i - 1 < k) /\ (i - 1) + 1 = i
          BY <1>1, <4>1, <4>3
        <5>2. after[i - 1] = l[i]
          BY <1>2, <5>1
        <5>3. i - 1 \in Named(after, n)
          BY <1>2, <4>1, <5>1, <5>2 DEF Named
        <5>4. f[i - 1] = i
          BY <5>1, <5>3
        <5>5. QED
          BY <5>3, <5>4
      <4>4. QED
        BY <4>2, <4>3
    <3>2. QED
      BY <3>1
  <2>3. \A i, j \in Named(after, n) : f[i] = f[j] => i = j
    <3>1. Named(after, n) \subseteq Int /\ k \in Int
      BY <1>1, <1>2 DEF Named
    <3>2. QED
      BY <3>1
  <2> HIDE DEF f
  <2>4. f \in [Named(after, n) -> Named(l, n) \ {k}]
    BY <2>1 DEF f
  <2>5. QED
    BY <2>2, <2>3, <2>4 DEF Bijection, Injection, IsInjective, Surjection
<1>4. /\ IsFiniteSet(Named(l, n) \ {k})
      /\ Cardinality(Named(l, n) \ {k}) =
           Cardinality(Named(l, n)) - (IF n = name THEN 1 ELSE 0)
  <2>1. k \in Named(l, n) <=> n = name
    BY <1>1 DEF Named
  <2> DEFINE T == Named(l, n)
  <2> HIDE DEF T
  <2>2. IsFiniteSet(T) => /\ IsFiniteSet(T \ {k})
                          /\ Cardinality(T \ {k}) =
                               IF k \in T THEN Cardinality(T) - 1 ELSE Cardinality(T)
    BY FS_RemoveElement
  <2>3. CASE n = name
    BY <1>1, <2>1, <2>2, <2>3 DEF T
  <2>4. CASE n # name
    BY <1>1, <2>1, <2>2, <2>4 DEF T
  <2>5. QED
    BY <2>3, <2>4
<1>5. Cardinality(Named(after, n)) = Cardinality(Named(l, n) \ {k})
  <2>1. ExistsBijection(Named(after, n), Named(l, n) \ {k})
    BY <1>3 DEF ExistsBijection
  <2>2. IsFiniteSet(Named(after, n))
    BY <1>2, NamedLemma
  <2>3. QED
    BY <2>1, <2>2, FS_Bijection
<1>6. \A j \in DOMAIN after : \E i \in DOMAIN l : after[j] = l[i]
  BY <1>1, <1>2
<1>7. QED
  BY <1>2, <1>4, <1>5, <1>6 DEF after

-----------------------------------------------------------------------------
(* The network and the addresses.                                          *)

(* A datagram that is sent comes behind the others.                        *)
LEMMA PostLemma ==
  ASSUME UdpTypeOK, NEW c \in Clients, NEW m \in Message, Post(c, m)
  PROVE  /\ inbox' \in [Clients -> Seq(Message)]
         /\ \A d \in Clients : d # c => inbox'[d] = inbox[d]
         /\ Len(inbox'[c]) = Len(inbox[c]) + 1
         /\ DOMAIN inbox[c] = 1..Len(inbox[c]) /\ Len(inbox[c]) \in Nat
         /\ DOMAIN inbox'[c] = 1..(Len(inbox[c]) + 1)
         /\ \A k \in 1..Len(inbox[c]) : inbox'[c][k] = inbox[c][k]
         /\ inbox'[c][Len(inbox[c]) + 1] = m
<1>1. inbox \in [Clients -> Seq(Message)] /\ inbox[c] \in Seq(Message)
  BY DEF UdpTypeOK
<1>2. inbox' = [inbox EXCEPT ![c] = Append(inbox[c], m)]
  BY DEF Post
<1>3. /\ Append(inbox[c], m) \in Seq(Message)
      /\ Len(Append(inbox[c], m)) = Len(inbox[c]) + 1
      /\ \A k \in 1..Len(inbox[c]) : Append(inbox[c], m)[k] = inbox[c][k]
      /\ Append(inbox[c], m)[Len(inbox[c]) + 1] = m
  BY <1>1, AppendProperties
<1>4. inbox'[c] = Append(inbox[c], m)
  BY <1>1, <1>2
<1>5. /\ inbox' \in [Clients -> Seq(Message)]
      /\ \A d \in Clients : d # c => inbox'[d] = inbox[d]
  BY <1>1, <1>2, <1>3
<1>6. /\ DOMAIN inbox[c] = 1..Len(inbox[c]) /\ Len(inbox[c]) \in Nat
      /\ DOMAIN inbox'[c] = 1..Len(inbox'[c])
  BY <1>1, <1>3, <1>4, LenProperties
<1>7. QED
  BY <1>3, <1>4, <1>5, <1>6

(* A datagram that is taken leaves the others in their order.              *)
LEMMA TakeLemma ==
  ASSUME UdpTypeOK, NEW c \in Clients, NEW k \in DOMAIN inbox[c],
         inbox' = [inbox EXCEPT ![c] = RemoveAt(@, k)]
  PROVE  /\ inbox' \in [Clients -> Seq(Message)]
         /\ \A d \in Clients : d # c => inbox'[d] = inbox[d]
         /\ Len(inbox[c]) \in Nat \ {0} /\ k \in 1..Len(inbox[c])
         /\ DOMAIN inbox[c] = 1..Len(inbox[c])
         /\ Len(inbox'[c]) = Len(inbox[c]) - 1
         /\ DOMAIN inbox'[c] = 1..(Len(inbox[c]) - 1)
         /\ \A j \in 1..(Len(inbox[c]) - 1) :
              inbox'[c][j] = IF j < k THEN inbox[c][j] ELSE inbox[c][j + 1]
<1>1. inbox \in [Clients -> Seq(Message)] /\ inbox[c] \in Seq(Message)
  BY DEF UdpTypeOK
<1>2. Len(inbox[c]) \in Nat /\ DOMAIN inbox[c] = 1..Len(inbox[c])
  BY <1>1, LenProperties
<1>3. /\ RemoveAt(inbox[c], k) \in Seq(Message)
      /\ Len(RemoveAt(inbox[c], k)) = Len(inbox[c]) - 1
      /\ DOMAIN RemoveAt(inbox[c], k) = 1..(Len(inbox[c]) - 1)
      /\ \A j \in 1..(Len(inbox[c]) - 1) : RemoveAt(inbox[c], k)[j] =
            IF j < k THEN inbox[c][j] ELSE inbox[c][j + 1]
  BY <1>1, <1>2, RemoveLemma
<1>4. inbox'[c] = RemoveAt(inbox[c], k)
  BY <1>1
<1>5. /\ inbox' \in [Clients -> Seq(Message)]
      /\ \A d \in Clients : d # c => inbox'[d] = inbox[d]
  BY <1>1, <1>3
<1>6. Len(inbox[c]) \in Nat \ {0} /\ k \in 1..Len(inbox[c])
  BY <1>2
<1>7. QED
  BY <1>2, <1>3, <1>4, <1>5, <1>6, Zenon

(* What a datagram says is of its type, and who is in the list is a client.*)
LEMMA MessageLemma ==
  ASSUME UdpTypeOK, NEW c \in Clients
  PROVE  /\ \A type \in Types : Msg(type, c) \in Message
         /\ \A k \in DOMAIN inbox[c] : inbox[c][k] \in Message
         /\ Addrs(list) \subseteq Clients
<1>1. NameOf[c] \in Names
  BY UdpAssumption
<1>2. inbox[c] \in Seq(Message)
  BY DEF UdpTypeOK
<1>3. \A i \in DOMAIN list : list[i].addr \in Clients
  BY NamedLemma DEF UdpTypeOK, Node
<1>4. QED
  BY <1>1, <1>2, <1>3, LenProperties, ElementOfSeq DEF Msg, Message, Addrs

-----------------------------------------------------------------------------
(* The type invariant is kept by the receiver of the server.               *)
LEMMA ReceiveType ==
  ASSUME UdpTypeOK, NEW c \in Clients, NEW k \in Nat, recv_message(c, k)
  PROVE  /\ list' \in Seq(Node)
         /\ receiver' \in {"up", "crashed", "exited", "unsent"}
         /\ reply' = reply \/ (\E type \in Types, to \in SUBSET Clients :
                                 Reply(type, c, to))
<1> DEFINE m == inbox[c][k]
<1>1. list \in Seq(Node) /\ receiver = "up" /\ NameOf[c] \in Names
  BY UdpAssumption DEF UdpTypeOK, Node, recv_message
<1>2. ASSUME NEW l \in Seq(Node)
      PROVE  /\ Addrs(l) \subseteq Clients
             /\ \A S \in SUBSET DOMAIN l : {l[i].addr : i \in S} \subseteq Clients
             /\ \A n : Named(l, n) # {} =>
                  /\ l[Min(Named(l, n))].addr \in Clients
                  /\ l[Max(Named(l, n))].addr \in Clients
  BY NamedLemma DEF Addrs
<1>3. CASE client_login(c)
  <2>1. list' \in Seq(Node) /\ receiver' = "up"
    BY <1>1, <1>3, NamedInsert DEF client_login
  <2>2. Reply("CLIENT_LOGIN", c,
              {list'[i].addr : i \in DOMAIN list' \ Named(list', NameOf[c])})
    BY <1>3 DEF client_login
  <2>3. {list'[i].addr : i \in DOMAIN list' \ Named(list', NameOf[c])}
           \in SUBSET Clients
    BY <1>2, <2>1
  <2>4. QED
    BY <2>1, <2>2, <2>3 DEF Types
<1>4. CASE client_chat(c)
  BY <1>1, <1>2, <1>4 DEF client_chat, Types
<1>5. CASE client_quit_server(c)
  <2>1. CASE Named(list, NameOf[c]) = {}
    BY <1>1, <1>5, <2>1 DEF client_quit_server
  <2>2. CASE Named(list, NameOf[c]) # {}
    <3>1. list' \in Seq(Node)
      BY <1>1, <1>5, <2>2, NamedDelete DEF client_quit_server
    <3>2. Addrs(list') \in SUBSET Clients
      BY <1>2, <3>1
    <3>3. QED
      BY <1>1, <1>5, <2>2, <3>1, <3>2 DEF client_quit_server, Types
  <2>3. QED
    BY <2>1, <2>2
<1>6. CASE print_online(c)
  <2>1. list' = list /\ receiver' \in {receiver, "exited", "unsent"}
    BY <1>6 DEF print_online, SendTo
  <2>2. Named(list, NameOf[c]) # {} => {Asker(c)} \in SUBSET Clients
    BY <1>1, <1>2 DEF Asker
  <2>3. \A to \in {{}} \cup {{d} : d \in Clients} : to \in SUBSET Clients
    OBVIOUS
  <2>4. reply' = reply \/ (\E to \in SUBSET Clients : Reply("PRINT_ONLINE", c, to))
    BY <1>6, <2>2, <2>3 DEF print_online, SendTo
  <2>5. QED
    BY <1>1, <2>1, <2>4 DEF Types
<1>7. CASE private_chat(c, m.peer)
  <2>1. list' = list /\ receiver' \in {receiver, "unsent"}
    BY <1>7 DEF private_chat, SendTo
  <2>2. reply' = reply \/ (\E to \in SUBSET Clients : Reply("PRIVATE_CHAT", c, to))
    <3> DEFINE found == IF Named(list, m.peer) # {} THEN Named(list, m.peer)
                        ELSE Named(list, NameOf[c])
               answer == IF found = {} THEN {} ELSE {list[Min(found)].addr}
    <3>1. reply' = reply \/ Reply("PRIVATE_CHAT", c, answer)
      BY <1>7 DEF private_chat, SendTo
    <3>2. answer \in SUBSET Clients
      BY <1>1, <1>2
    <3>3. QED
      BY <3>1, <3>2
  <2>3. QED
    BY <1>1, <2>1, <2>2 DEF Types
<1>8. QED
  BY <1>3, <1>4, <1>5, <1>6, <1>7 DEF recv_message

LEMMA UdpTypeStep ==
  ASSUME UdpTypeOK, [Next]_vars
  PROVE  UdpTypeOK'
<1> USE DEF UdpTypeOK, serverVars
<1>1. ASSUME NEW c \in Clients, NEW m \in Message, Post(c, m),
             UNCHANGED <<serverVars, notice, told, reply, disturbed>>,
             client' \in [Clients -> {"off", "on", "quit", "killed"}]
      PROVE  UdpTypeOK'
  BY <1>1, PostLemma
<1>2. ASSUME NEW c \in Clients, Start(c) \/ client_quit(c)
      PROVE  UdpTypeOK'
  <2>1. /\ Msg("CLIENT_LOGIN", c) \in Message /\ Msg("CLIENT_QUIT", c) \in Message
        /\ client' \in [Clients -> {"off", "on", "quit", "killed"}]
    BY <1>2, MessageLemma DEF Start, client_quit, Types
  <2>2. QED
    BY <1>1, <1>2, <2>1 DEF Start, client_quit
<1>3. ASSUME NEW c \in Clients, Ask(c)
      PROVE  UdpTypeOK'
  <2>1. \E m \in Message : Post(c, m)
    <3>1. CASE \E type \in Asks[c] \ {"PRIVATE_CHAT"} : Post(c, Msg(type, c))
      <4>1. Asks[c] \subseteq Types
        BY UdpAssumption DEF Types
      <4>2. QED
        BY <3>1, <4>1, MessageLemma
    <3>2. CASE \E peer \in Names : Post(c, [type |-> "PRIVATE_CHAT", peer |-> peer])
      BY <3>2 DEF Message, Types
    <3>3. QED
      BY <1>3, <3>1, <3>2 DEF Ask
  <2>2. QED
    BY <1>1, <1>3, <2>1 DEF Ask
<1>4. ASSUME NEW c \in Clients, Abort(c) \/ server_quit_client(c)
      PROVE  UdpTypeOK'
  BY <1>4 DEF Abort, server_quit_client
<1>5. ASSUME NEW c \in Clients, NEW k \in 1..MaxInbox, recv_message(c, k)
      PROVE  UdpTypeOK'
  <2>1. k \in Nat
    BY UdpAssumption
  <2>2. /\ list' \in Seq(Node)
        /\ receiver' \in {"up", "crashed", "exited", "unsent"}
        /\ reply' = reply \/ (\E type \in Types, to \in SUBSET Clients :
                                Reply(type, c, to))
    BY <1>5, <2>1, ReceiveType
  <2>3. inbox' \in [Clients -> Seq(Message)]
    BY <1>5, TakeLemma DEF recv_message
  <2>4. QED
    BY <1>5, <2>2, <2>3 DEF recv_message, Reply, Node
<1>6. CASE Lose
  <2>1. inbox' \in [Clients -> Seq(Message)] /\ told' \subseteq Clients
    BY <1>6, TakeLemma DEF Lose
  <2>2. QED
    BY <1>6, <2>1 DEF Lose
<1>7. CASE server_says \/ OperatorQuits
  <2>1. notice' \in Seq({"SERVER_CHAT", "SERVER_QUIT"})
    <3>1. <<"SERVER_CHAT">> \in Seq({"SERVER_CHAT", "SERVER_QUIT"})
      OBVIOUS
    <3>2. Append(notice, "SERVER_QUIT") \in Seq({"SERVER_CHAT", "SERVER_QUIT"})
      BY AppendProperties
    <3>3. QED
      BY <1>7, <3>1, <3>2 DEF server_says, OperatorQuits
  <2>2. QED
    BY <1>7, <2>1 DEF server_says, OperatorQuits
<1>8. CASE server_chat \/ server_quit
  <2>1. notice' \in Seq({"SERVER_CHAT", "SERVER_QUIT"})
    <3>1. notice \in Seq({"SERVER_CHAT", "SERVER_QUIT"}) /\ notice # <<>>
      BY <1>8 DEF server_chat, server_quit
    <3>2. Tail(notice) \in Seq({"SERVER_CHAT", "SERVER_QUIT"})
      BY <3>1, HeadTailProperties
    <3>3. QED
      BY <1>8, <3>2 DEF server_chat, server_quit
  <2>2. Addrs(list) \in SUBSET Clients
    <3>1. \A i \in DOMAIN list : list[i].addr \in Clients
      BY NamedLemma DEF Node
    <3>2. QED
      BY <3>1 DEF Addrs
  <2>3. QED
    BY <1>8, <2>1, <2>2 DEF server_chat, server_quit, KillReceiver
<1>9. CASE ParentKilled \/ ReceiverKilled
  BY <1>9 DEF ParentKilled, ReceiverKilled, KillReceiver
<1>10. CASE UNCHANGED vars
  BY <1>10 DEF vars
<1>11. QED
  BY <1>2, <1>3, <1>4, <1>5, <1>6, <1>7, <1>8, <1>9, <1>10 DEF Next

-----------------------------------------------------------------------------
(* Who is here.                                                            *)

(* The steps of one client leave what another has under way alone.         *)
LEMMA OtherClient ==
  ASSUME UdpTypeOK, [Next]_vars, NEW d \in Clients
  PROVE  \/ /\ inbox'[d] = inbox[d] /\ client'[d] = client[d]
            /\ disturbed => disturbed'
         \/ Start(d) \/ Ask(d) \/ client_quit(d) \/ Abort(d)
         \/ server_quit_client(d)
         \/ \E k \in 1..MaxInbox : recv_message(d, k)
         \/ Lose
<1> USE DEF UdpTypeOK
<1>1. ASSUME NEW c \in Clients, c # d, Start(c) \/ Ask(c) \/ client_quit(c)
      PROVE  /\ inbox'[d] = inbox[d] /\ client'[d] = client[d]
             /\ disturbed' = disturbed
  BY <1>1 DEF Start, Ask, client_quit, Post
<1>2. ASSUME NEW c \in Clients, c # d, Abort(c) \/ server_quit_client(c)
      PROVE  /\ inbox'[d] = inbox[d] /\ client'[d] = client[d]
             /\ disturbed' = disturbed
  BY <1>2 DEF Abort, server_quit_client
<1>3. ASSUME NEW c \in Clients, c # d, NEW k \in 1..MaxInbox, recv_message(c, k)
      PROVE  /\ inbox'[d] = inbox[d] /\ client'[d] = client[d]
             /\ disturbed => disturbed'
  BY <1>3 DEF recv_message
<1>4. CASE \/ server_says \/ OperatorQuits \/ server_chat \/ server_quit
           \/ ParentKilled \/ ReceiverKilled \/ UNCHANGED vars
  BY <1>4 DEF server_says, OperatorQuits, server_chat, server_quit,
              ParentKilled, ReceiverKilled, vars
<1>5. QED
  BY <1>1, <1>2, <1>3, <1>4 DEF Next

(* What a client has under way keeps its order.                            *)
LEMMA InboxStep ==
  ASSUME UdpTypeOK, [Next]_vars, NEW d \in Clients, InboxInv(d)
  PROVE  InboxInv(d)'
<1>1. /\ Len(inbox[d]) \in Nat /\ DOMAIN inbox[d] = 1..Len(inbox[d])
      /\ client[d] \in {"off", "on", "quit", "killed"}
      /\ inbox[d] = <<>> <=> Len(inbox[d]) = 0
  BY LenProperties, EmptySeq DEF UdpTypeOK
<1> USE DEF InboxInv
<1>2. CASE inbox'[d] = inbox[d] /\ client'[d] = client[d] /\ (disturbed => disturbed')
  BY <1>2
<1>3. ASSUME NEW m \in Message, Post(d, m)
      PROVE  /\ DOMAIN inbox'[d] = 1..(Len(inbox[d]) + 1)
             /\ Len(inbox'[d]) = Len(inbox[d]) + 1
             /\ \A k \in 1..Len(inbox[d]) : inbox'[d][k] = inbox[d][k]
             /\ inbox'[d][Len(inbox[d]) + 1] = m
             /\ inbox'[d] # <<>>
  BY <1>1, <1>3, PostLemma
<1>4. CASE Start(d)
  <2>1. Post(d, Msg("CLIENT_LOGIN", d)) /\ client[d] = "off" /\ client'[d] = "on"
    BY <1>4 DEF Start, UdpTypeOK
  <2>2. Msg("CLIENT_LOGIN", d) \in Message /\ Msg("CLIENT_LOGIN", d).type = "CLIENT_LOGIN"
    BY MessageLemma DEF Types, Msg
  <2>3. Len(inbox[d]) = 0
    BY <1>1, <2>1
  <2>4. DOMAIN inbox'[d] = 1..1 /\ inbox'[d][1].type = "CLIENT_LOGIN"
    BY <1>3, <2>1, <2>2, <2>3
  <2>5. QED
    BY <2>1, <2>4
<1>5. CASE Ask(d)
  <2>1. client[d] = "on" /\ client' = client /\ disturbed' = disturbed
    BY <1>5 DEF Ask, CanSend
  <2>2. PICK m \in Message : Post(d, m) /\ m.type \notin {"CLIENT_LOGIN", "CLIENT_QUIT"}
    <3>1. Asks[d] \subseteq {"CLIENT_CHAT", "PRINT_ONLINE", "PRIVATE_CHAT"}
      BY UdpAssumption
    <3>2. ASSUME NEW type \in Asks[d]
          PROVE  /\ Msg(type, d) \in Message
                 /\ Msg(type, d).type \notin {"CLIENT_LOGIN", "CLIENT_QUIT"}
      BY <3>1, MessageLemma DEF Msg, Types
    <3>3. ASSUME NEW peer \in Names
          PROVE  [type |-> "PRIVATE_CHAT", peer |-> peer] \in Message
      BY DEF Message, Types
    <3>4. QED
      BY <1>5, <3>2, <3>3 DEF Ask
  <2>3. ASSUME NEW k \in DOMAIN inbox'[d]
        PROVE  /\ inbox'[d][k].type = "CLIENT_LOGIN" => k = 1
               /\ inbox'[d][k].type # "CLIENT_QUIT"
    <3>1. CASE k \in DOMAIN inbox[d]
      BY <1>1, <1>3, <2>1, <2>2, <3>1
    <3>2. CASE k = Len(inbox[d]) + 1
      BY <1>3, <2>2, <3>2
    <3>3. QED
      BY <1>1, <1>3, <2>2, <3>1, <3>2
  <2>4. QED
    BY <2>1, <2>3
<1>6. CASE client_quit(d)
  <2>1. /\ Post(d, Msg("CLIENT_QUIT", d)) /\ client[d] = "on"
        /\ client'[d] = "quit" /\ disturbed' = disturbed
    BY <1>6 DEF client_quit, CanSend, UdpTypeOK
  <2>2. Msg("CLIENT_QUIT", d) \in Message /\ Msg("CLIENT_QUIT", d).type = "CLIENT_QUIT"
    BY MessageLemma DEF Types, Msg
  <2>3. /\ DOMAIN inbox'[d] = 1..(Len(inbox[d]) + 1)
        /\ Len(inbox'[d]) = Len(inbox[d]) + 1
        /\ \A k \in 1..Len(inbox[d]) : inbox'[d][k] = inbox[d][k]
        /\ inbox'[d][Len(inbox[d]) + 1].type = "CLIENT_QUIT"
    BY <1>3, <2>1, <2>2
  <2>4. ASSUME NEW k \in DOMAIN inbox'[d]
        PROVE  /\ inbox'[d][k].type = "CLIENT_LOGIN" => k = 1
               /\ inbox'[d][k].type = "CLIENT_QUIT" => k = Len(inbox'[d])
    <3>1. CASE k \in 1..Len(inbox[d])
      BY <1>1, <2>1, <2>3, <3>1
    <3>2. CASE k = Len(inbox[d]) + 1
      BY <2>3, <3>2
    <3>3. QED
      BY <1>1, <2>3, <3>1, <3>2
  <2>5. QED
    BY <2>1, <2>3, <2>4
<1>7. CASE Abort(d)
  BY <1>1, <1>7 DEF Abort, UdpTypeOK
<1>8. CASE server_quit_client(d)
  BY <1>1, <1>8 DEF server_quit_client, Listens, UdpTypeOK
<1>9. ASSUME NEW k \in DOMAIN inbox[d], inbox' = [inbox EXCEPT ![d] = RemoveAt(@, k)],
             client' = client, ~ disturbed' => ~ disturbed /\ k = 1
      PROVE  InboxInv(d)'
  <2>1. /\ Len(inbox[d]) \in Nat \ {0} /\ k \in 1..Len(inbox[d])
        /\ Len(inbox'[d]) = Len(inbox[d]) - 1
        /\ DOMAIN inbox'[d] = 1..(Len(inbox[d]) - 1)
        /\ \A j \in 1..(Len(inbox[d]) - 1) :
             inbox'[d][j] = IF j < k THEN inbox[d][j] ELSE inbox[d][j + 1]
    BY <1>9, TakeLemma
  <2>2. client'[d] # "off"
    BY <1>1, <1>9, <2>1
  <2>3. ASSUME NEW j \in DOMAIN inbox'[d]
        PROVE  /\ inbox'[d][j].type = "CLIENT_LOGIN" => j = 1
               /\ inbox'[d][j].type = "CLIENT_QUIT" =>
                    client'[d] = "quit" /\ j = Len(inbox'[d])
    <3>1. j \in 1..(Len(inbox[d]) - 1)
      BY <2>1
    <3>2. CASE j < k
      <4>1. inbox'[d][j] = inbox[d][j] /\ j \in DOMAIN inbox[d] /\ j # Len(inbox[d])
        BY <1>1, <2>1, <3>1, <3>2
      <4>2. QED
        BY <4>1
    <3>3. CASE ~ (j < k)
      <4>1. /\ inbox'[d][j] = inbox[d][j + 1] /\ j + 1 \in DOMAIN inbox[d]
            /\ j + 1 # 1 /\ j = (j + 1) - 1
        BY <1>1, <2>1, <3>1, <3>3
      <4>2. QED
        BY <1>9, <2>1, <4>1
    <3>4. QED
      BY <3>2, <3>3
  <2>4. ASSUME ~ disturbed', client'[d] = "quit", inbox'[d] # <<>>
        PROVE  inbox'[d][Len(inbox'[d])].type = "CLIENT_QUIT"
    <3>1. ~ disturbed /\ k = 1 /\ client[d] = "quit"
      BY <1>9, <2>1, <2>4
    <3>2. Len(inbox[d]) - 1 # 0
      <4>1. inbox'[d] \in Seq(Message)
        BY <1>9, TakeLemma
      <4>2. Len(inbox'[d]) # 0
        BY <2>4, <4>1, EmptySeq
      <4>3. QED
        BY <2>1, <4>2
    <3>3. inbox'[d][Len(inbox[d]) - 1] = inbox[d][Len(inbox[d])]
      <4>1. /\ Len(inbox[d]) - 1 \in 1..(Len(inbox[d]) - 1)
            /\ ~ (Len(inbox[d]) - 1 < k) /\ (Len(inbox[d]) - 1) + 1 = Len(inbox[d])
        <5>1. \A n \in Nat \ {0} :
                n - 1 # 0 => n - 1 \in 1..(n - 1) /\ ~ (n - 1 < 1) /\ (n - 1) + 1 = n
          OBVIOUS
        <5>2. QED
          BY <2>1, <3>1, <3>2, <5>1, Zenon
      <4>2. QED
        BY <2>1, <4>1
    <3>4. QED
      BY <1>1, <2>1, <3>1, <3>3
  <2>5. QED
    BY <2>2, <2>3, <2>4
<1>10. ASSUME NEW k \in 1..MaxInbox, recv_message(d, k)
       PROVE  InboxInv(d)'
  <2>1. /\ k \in DOMAIN inbox[d] /\ inbox' = [inbox EXCEPT ![d] = RemoveAt(@, k)]
        /\ client' = client /\ disturbed' = (disturbed \/ k > 1)
    BY <1>10 DEF recv_message
  <2>2. ~ disturbed' => ~ disturbed /\ k = 1
    <3>1. k \in Nat \ {0}
      BY <1>1, <2>1
    <3>2. ~ (k > 1) => k = 1
      BY <3>1
    <3>3. QED
      BY <2>1, <3>2, Zenon
  <2>3. QED
    BY <1>9, <2>1, <2>2, Zenon
<1>11. CASE Lose
  <2>1. client' = client /\ disturbed'
    BY <1>11 DEF Lose
  <2>2. CASE inbox' = inbox
    BY <1>2, <2>1, <2>2
  <2>3. ASSUME NEW c \in Clients, NEW k \in DOMAIN inbox[c],
               inbox' = [inbox EXCEPT ![c] = RemoveAt(@, k)]
        PROVE  InboxInv(d)'
    BY <1>2, <1>9, <2>1, <2>3, TakeLemma
  <2>4. QED
    BY <1>11, <2>2, <2>3 DEF Lose
<1>12. QED
  BY <1>2, <1>4, <1>5, <1>6, <1>7, <1>8, <1>10, <1>11, OtherClient

(* Nobody comes or goes but by a datagram that the receiver takes.         *)
LEMMA HereStep ==
  ASSUME UdpTypeOK, [Next]_vars, NEW d \in Clients, InboxInv(d), ~ disturbed',
         ~ \E k \in 1..MaxInbox : recv_message(d, k)
  PROVE  Here(d)' <=> Here(d)
<1>1. /\ Len(inbox[d]) \in Nat /\ DOMAIN inbox[d] = 1..Len(inbox[d])
      /\ client[d] \in {"off", "on", "quit", "killed"}
      /\ inbox[d] = <<>> <=> Len(inbox[d]) = 0
  BY LenProperties, EmptySeq DEF UdpTypeOK
<1> USE DEF InboxInv, Here, UnderWay
<1>2. CASE inbox'[d] = inbox[d] /\ client'[d] = client[d]
  BY <1>2
<1>3. ASSUME NEW m \in Message, Post(d, m)
      PROVE  /\ DOMAIN inbox'[d] = 1..(Len(inbox[d]) + 1)
             /\ \A k \in 1..Len(inbox[d]) : inbox'[d][k] = inbox[d][k]
             /\ inbox'[d][Len(inbox[d]) + 1] = m
             /\ \A type : UnderWay(d, type)' <=> UnderWay(d, type) \/ m.type = type
  <2>1. /\ DOMAIN inbox'[d] = 1..(Len(inbox[d]) + 1)
        /\ \A k \in 1..Len(inbox[d]) : inbox'[d][k] = inbox[d][k]
        /\ inbox'[d][Len(inbox[d]) + 1] = m
    BY <1>1, <1>3, PostLemma
  <2>2. ASSUME NEW type
        PROVE  UnderWay(d, type)' <=> UnderWay(d, type) \/ m.type = type
    <3>1. ASSUME UnderWay(d, type)'
          PROVE  UnderWay(d, type) \/ m.type = type
      BY <1>1, <2>1, <3>1
    <3>2. ASSUME UnderWay(d, type)
          PROVE  UnderWay(d, type)'
      BY <1>1, <2>1, <3>2
    <3>3. ASSUME m.type = type
          PROVE  UnderWay(d, type)'
      <4>1. Len(inbox[d]) + 1 \in DOMAIN inbox'[d]
        BY <1>1, <2>1
      <4>2. QED
        BY <2>1, <3>3, <4>1
    <3>4. QED
      BY <3>1, <3>2, <3>3
  <2>3. QED
    BY <2>1, <2>2
<1>4. CASE Start(d)
  <2>1. Post(d, Msg("CLIENT_LOGIN", d)) /\ client[d] = "off"
    BY <1>4 DEF Start
  <2>2. Msg("CLIENT_LOGIN", d) \in Message /\ Msg("CLIENT_LOGIN", d).type = "CLIENT_LOGIN"
    BY MessageLemma DEF Types, Msg
  <2>3. UnderWay(d, "CLIENT_LOGIN")'
    BY <1>3, <2>1, <2>2
  <2>4. QED
    BY <2>1, <2>3
<1>5. CASE Ask(d)
  <2>1. client' = client
    BY <1>5 DEF Ask
  <2>2. PICK m \in Message : Post(d, m) /\ m.type \notin {"CLIENT_LOGIN", "CLIENT_QUIT"}
    <3>1. Asks[d] \subseteq {"CLIENT_CHAT", "PRINT_ONLINE", "PRIVATE_CHAT"}
      BY UdpAssumption
    <3>2. ASSUME NEW type \in Asks[d]
          PROVE  /\ Msg(type, d) \in Message
                 /\ Msg(type, d).type \notin {"CLIENT_LOGIN", "CLIENT_QUIT"}
      BY <3>1, MessageLemma DEF Msg, Types
    <3>3. ASSUME NEW peer \in Names
          PROVE  [type |-> "PRIVATE_CHAT", peer |-> peer] \in Message
      BY DEF Message, Types
    <3>4. QED
      BY <1>5, <3>2, <3>3 DEF Ask
  <2>3. /\ UnderWay(d, "CLIENT_LOGIN")' <=> UnderWay(d, "CLIENT_LOGIN")
        /\ UnderWay(d, "CLIENT_QUIT")' <=> UnderWay(d, "CLIENT_QUIT")
    <3>1. \A type : UnderWay(d, type)' <=> UnderWay(d, type) \/ m.type = type
      BY <1>3, <2>2, Zenon
    <3>2. m.type # "CLIENT_LOGIN" /\ m.type # "CLIENT_QUIT"
      BY <2>2
    <3>3. QED
      BY <3>1, <3>2, Zenon
  <2>4. QED
    BY <2>1, <2>3
<1>6. CASE client_quit(d)
  <2>1. /\ Post(d, Msg("CLIENT_QUIT", d)) /\ client[d] = "on"
        /\ client'[d] = "quit"
    BY <1>6 DEF client_quit, CanSend, UdpTypeOK
  <2>2. Msg("CLIENT_QUIT", d) \in Message /\ Msg("CLIENT_QUIT", d).type = "CLIENT_QUIT"
    BY MessageLemma DEF Types, Msg
  <2>3. /\ UnderWay(d, "CLIENT_LOGIN")' <=> UnderWay(d, "CLIENT_LOGIN")
        /\ UnderWay(d, "CLIENT_QUIT")'
    BY <1>3, <2>1, <2>2
  <2>4. QED
    BY <2>1, <2>3
<1>7. CASE Abort(d)
  BY <1>7 DEF Abort, UdpTypeOK
<1>8. CASE server_quit_client(d)
  BY <1>1, <1>8 DEF server_quit_client, Listens, UdpTypeOK
<1>9. CASE Lose
  BY <1>9 DEF Lose
<1>10. QED
  BY <1>2, <1>4, <1>5, <1>6, <1>7, <1>8, <1>9, OtherClient

(* What a datagram that is taken in its turn changes: with its login a     *)
(* client comes, with its quit it goes, and with the others it is here.    *)
LEMMA TakeHere ==
  ASSUME UdpTypeOK, NEW d \in Clients, InboxInv(d), NEW k \in 1..MaxInbox,
         recv_message(d, k), ~ disturbed'
  PROVE  /\ k = 1 /\ k \in DOMAIN inbox[d]
         /\ ~ Here(d) <=> inbox[d][k].type = "CLIENT_LOGIN"
         /\ ~ Here(d)' <=> inbox[d][k].type = "CLIENT_QUIT"
<1> DEFINE box == inbox[d]  len == Len(inbox[d])
<1>1. /\ k \in DOMAIN inbox[d] /\ inbox' = [inbox EXCEPT ![d] = RemoveAt(@, k)]
      /\ client' = client /\ disturbed' = (disturbed \/ k > 1)
  BY DEF recv_message
<1>2. /\ len \in Nat \ {0} /\ k \in 1..len /\ DOMAIN inbox[d] = 1..len
      /\ DOMAIN inbox'[d] = 1..(len - 1)
      /\ \A j \in 1..(len - 1) :
           inbox'[d][j] = IF j < k THEN inbox[d][j] ELSE inbox[d][j + 1]
  BY <1>1, TakeLemma
<1>3. k = 1
  <2>1. ~ (k > 1) => k = 1
    BY <1>2
  <2>2. QED
    BY <1>1, <2>1, Zenon
<1>4. ~ disturbed /\ inbox[d] # <<>>
  BY <1>1, <1>2, <1>3, EmptySeq
<1>5. \A j \in 1..(len - 1) : inbox'[d][j] = inbox[d][j + 1] /\ j + 1 \in 2..len
  BY <1>2, <1>3
<1>6. \A j \in 2..len : /\ inbox'[d][j - 1] = inbox[d][j]
                        /\ j - 1 \in DOMAIN inbox'[d] /\ j \in DOMAIN inbox[d]
  <2>1. ASSUME NEW j \in 2..len
        PROVE  /\ inbox'[d][j - 1] = inbox[d][j]
               /\ j - 1 \in DOMAIN inbox'[d] /\ j \in DOMAIN inbox[d]
    <3>1. j - 1 \in 1..(len - 1) /\ (j - 1) + 1 = j /\ j \in 1..len
      BY <1>2
    <3>2. QED
      BY <1>2, <1>5, <3>1
  <2>2. QED
    BY <2>1
<1> HIDE DEF len
<1>7. ~ UnderWay(d, "CLIENT_LOGIN")'
  <2>1. \A j \in 2..len : inbox[d][j].type # "CLIENT_LOGIN"
    <3>1. ASSUME NEW j \in 2..len
          PROVE  j \in DOMAIN inbox[d] /\ j # 1
      BY <1>2, <1>6
    <3>2. \A j \in DOMAIN inbox[d] : inbox[d][j].type = "CLIENT_LOGIN" => j = 1
      BY DEF InboxInv
    <3>3. QED
      BY <3>1, <3>2
  <2>2. ASSUME NEW j \in DOMAIN inbox'[d]
        PROVE  inbox'[d][j].type # "CLIENT_LOGIN"
    <3>1. j \in 1..(len - 1)
      BY <1>2, Zenon
    <3>2. inbox'[d][j] = inbox[d][j + 1] /\ j + 1 \in 2..len
      BY <1>5, <3>1
    <3>3. QED
      BY <2>1, <3>2
  <2>3. QED
    BY <2>2 DEF UnderWay
<1>8. UnderWay(d, "CLIENT_LOGIN") <=> inbox[d][k].type = "CLIENT_LOGIN"
  BY <1>1, <1>2, <1>3 DEF UnderWay, InboxInv
<1>9. client[d] \in {"on", "quit", "killed"} /\ client'[d] = client[d]
  BY <1>1, <1>4 DEF InboxInv, UdpTypeOK
<1>10. CASE inbox[d][k].type = "CLIENT_QUIT"
  <2>1. client[d] = "quit" /\ len = 1
    BY <1>1, <1>3, <1>10 DEF InboxInv, len
  <2>2. ~ UnderWay(d, "CLIENT_QUIT")'
    BY <1>2, <2>1 DEF UnderWay
  <2>3. UnderWay(d, "CLIENT_QUIT")
    BY <1>1, <1>10 DEF UnderWay
  <2>4. QED
    BY <1>1, <1>3, <1>8, <1>9, <1>10, <2>1, <2>2, <2>3 DEF Here
<1>11. CASE inbox[d][k].type # "CLIENT_QUIT"
  <2>1. ASSUME client[d] = "quit"
        PROVE  UnderWay(d, "CLIENT_QUIT") /\ UnderWay(d, "CLIENT_QUIT")'
    <3>1. inbox[d][len].type = "CLIENT_QUIT"
      BY <1>4, <2>1 DEF InboxInv, len
    <3>2. len \in 2..len
      BY <1>2, <1>3, <1>11, <3>1
    <3>3. QED
      BY <1>6, <3>1, <3>2 DEF UnderWay
  <2>2. QED
    BY <1>1, <1>3, <1>7, <1>8, <1>9, <1>11, <2>1 DEF Here
<1>12. QED
  BY <1>10, <1>11

-----------------------------------------------------------------------------
(* The list and the clients that are here.                                 *)
Present(n) == {c \in Clients : NameOf[c] = n /\ Here(c)}

LEMMA PresentLemma ==
  ASSUME StartedInv, NEW n
  PROVE  IsFiniteSet(Present(n)) /\ Cardinality(Present(n)) \in Nat
<1>1. Present(n) \in SUBSET {c \in Clients : client[c] # "off"}
  BY DEF Present, Here
<1>2. QED
  BY <1>1, FS_Subset, FS_CardinalityType DEF StartedInv

(* A datagram taken in its turn: the list and the clients that are here    *)
(* change together, and the receiver finds what it looks for, although it  *)
(* may then not be able to send the answer.                                *)
LEMMA ReceiveStep ==
  ASSUME UdpInv, UdpTypeOK', NEW c \in Clients, NEW k \in 1..MaxInbox,
         recv_message(c, k), \A d \in Clients \ {c} : Here(d)' <=> Here(d),
         ~ disturbed'
  PROVE  /\ receiver' \in {"up", "unsent"}
         /\ \A n \in Names : Cardinality(Named(list', n)) = Cardinality(Present(n)')
<1>1. /\ UdpTypeOK /\ list \in Seq(Node) /\ StartedInv /\ receiver = "up"
      /\ NameOf[c] \in Names
  BY UdpAssumption DEF UdpInv, UdpTypeOK, Node, recv_message
<1>2. /\ k = 1 /\ k \in DOMAIN inbox[c]
      /\ ~ Here(c) <=> inbox[c][k].type = "CLIENT_LOGIN"
      /\ ~ Here(c)' <=> inbox[c][k].type = "CLIENT_QUIT"
  BY TakeHere DEF UdpInv
<1>3. ~ disturbed
  BY <1>1 DEF recv_message, UdpTypeOK
<1>4. \A n \in Names : /\ Cardinality(Named(list, n)) = Cardinality(Present(n))
                       /\ Cardinality(Named(list, n)) \in Nat
                       /\ IsFiniteSet(Named(list, n))
                       /\ IsFiniteSet(Present(n))
  BY <1>1, <1>3, NamedLemma, PresentLemma DEF UdpInv, ListCounts, Present
<1>5. ASSUME Here(c)
      PROVE  Named(list, NameOf[c]) # {}
  <2>1. c \in Present(NameOf[c])
    BY <1>5 DEF Present
  <2>2. Cardinality(Present(NameOf[c])) # 0
    BY <1>1, <1>4, <2>1, FS_EmptySet
  <2>3. QED
    BY <1>1, <1>4, <2>2, FS_EmptySet
<1>6. CASE inbox[c][k].type = "CLIENT_LOGIN"
  <2>1. ~ Here(c) /\ Here(c)'
    BY <1>2, <1>6
  <2>2. list' = insert_list(list, NameOf[c], c) /\ receiver' = receiver
    BY <1>6 DEF recv_message, client_login
  <2>3. ASSUME NEW n \in Names
        PROVE  Cardinality(Named(list', n)) = Cardinality(Present(n)')
    <3>1. Cardinality(Named(list', n)) =
            Cardinality(Named(list, n)) + (IF n = NameOf[c] THEN 1 ELSE 0)
      BY <1>1, <2>2, NamedInsert
    <3>2. CASE n = NameOf[c]
      <4>1. Present(n)' = Present(n) \cup {c} /\ c \notin Present(n)
        BY <2>1, <3>2 DEF Present
      <4>2. Cardinality(Present(n) \cup {c}) = Cardinality(Present(n)) + 1
        BY <1>4, <4>1, FS_AddElement
      <4>3. QED
        BY <1>4, <3>1, <3>2, <4>1, <4>2
    <3>3. CASE n # NameOf[c]
      <4>1. Present(n)' = Present(n)
        BY <3>3 DEF Present
      <4>2. QED
        BY <1>4, <3>1, <3>3, <4>1
    <3>4. QED
      BY <3>2, <3>3
  <2>4. QED
    BY <1>1, <2>2, <2>3
<1>7. CASE inbox[c][k].type = "CLIENT_QUIT"
  <2>1. Here(c) /\ ~ Here(c)'
    BY <1>2, <1>7
  <2>2. Named(list, NameOf[c]) # {}
    BY <1>5, <2>1
  <2>3. list' = delete_list(list, NameOf[c]) /\ receiver' = receiver
    BY <1>7, <2>2 DEF recv_message, client_quit_server
  <2>4. ASSUME NEW n \in Names
        PROVE  Cardinality(Named(list', n)) = Cardinality(Present(n)')
    <3>1. Cardinality(Named(list', n)) =
            Cardinality(Named(list, n)) - (IF n = NameOf[c] THEN 1 ELSE 0)
      BY <1>1, <2>2, <2>3, NamedDelete
    <3>2. CASE n = NameOf[c]
      <4>1. Present(n)' = Present(n) \ {c} /\ c \in Present(n)
        BY <2>1, <3>2 DEF Present
      <4>2. Cardinality(Present(n) \ {c}) = Cardinality(Present(n)) - 1
        BY <1>4, <4>1, FS_RemoveElement
      <4>3. QED
        BY <1>4, <3>1, <3>2, <4>1, <4>2
    <3>3. CASE n # NameOf[c]
      <4>1. Present(n)' = Present(n)
        BY <3>3 DEF Present
      <4>2. QED
        BY <1>4, <3>1, <3>3, <4>1
    <3>4. QED
      BY <3>2, <3>3
  <2>5. QED
    BY <1>1, <2>3, <2>4
<1>8. CASE inbox[c][k].type \notin {"CLIENT_LOGIN", "CLIENT_QUIT"}
  <2>1. Here(c) /\ Here(c)'
    BY <1>2, <1>8
  <2>2. Named(list, NameOf[c]) # {}
    BY <1>5, <2>1
  <2>3. list' = list /\ receiver' \in {receiver, "unsent"}
    BY <1>8, <2>2 DEF recv_message, client_chat, print_online, private_chat, SendTo
  <2>4. \A n : Present(n)' = Present(n)
    BY <2>1 DEF Present
  <2>5. QED
    BY <1>1, <1>4, <2>3, <2>4
<1>9. QED
  BY <1>6, <1>7, <1>8

(* A client that was started stays one that was started.                   *)
LEMMA StartedStays ==
  ASSUME UdpTypeOK, [Next]_vars, NEW d \in Clients, client[d] # "off"
  PROVE  client'[d] # "off"
BY DEF UdpTypeOK, Next, vars, Start, Ask, client_quit, Abort, server_quit_client,
       Listens, recv_message, Lose, server_says, OperatorQuits, server_chat,
       server_quit, ParentKilled, ReceiverKilled

LEMMA StartedStep ==
  ASSUME UdpTypeOK, StartedInv, [Next]_vars
  PROVE  StartedInv'
<1> DEFINE Started == {c \in Clients : client[c] # "off"}
<1>1. ASSUME NEW c \in Clients, Start(c)
      PROVE  StartedInv'
  <2>1. Started' \subseteq Started \cup {c}
    BY <1>1 DEF Start, UdpTypeOK
  <2>2. IsFiniteSet(Started \cup {c})
    BY FS_AddElement DEF StartedInv
  <2>3. IsFiniteSet(Started')
    BY <2>1, <2>2, FS_Subset
  <2>4. QED
    BY <2>3 DEF StartedInv
<1>2. ASSUME ~ \E c \in Clients : Start(c)
      PROVE  StartedInv'
  <2>1. \A d \in Clients : client'[d] # "off" => client[d] # "off"
    BY <1>2
       DEF UdpTypeOK, Next, vars, Ask, client_quit, CanSend, Abort,
           server_quit_client, Listens, recv_message, Lose, server_says,
           OperatorQuits, server_chat, server_quit, ParentKilled, ReceiverKilled
  <2>2. Started' \subseteq Started
    BY <2>1
  <2>3. IsFiniteSet(Started')
    BY <2>2, FS_Subset DEF StartedInv
  <2>4. QED
    BY <2>3 DEF StartedInv
<1>3. QED
  BY <1>1, <1>2

(* The list only changes with a datagram of a client.                      *)
LEMMA ListSame ==
  ASSUME [Next]_vars,
         ~ \E c \in Clients : \E k \in 1..MaxInbox : recv_message(c, k)
  PROVE  list' = list /\ (receiver' = "up" => receiver = "up")
         /\ (parent' = "up" => parent = "up" /\ receiver' = receiver)
BY DEF Next, vars, serverVars, Start, Ask, client_quit, Abort, server_quit_client,
       Lose, server_says, OperatorQuits, server_chat, server_quit, KillReceiver,
       ParentKilled, ReceiverKilled

LEMMA NodesStep ==
  ASSUME UdpTypeOK, NodesInv, \A c \in Clients : InboxInv(c), [Next]_vars
  PROVE  NodesInv'
<1> DEFINE Good(node) == /\ node.addr \in Clients /\ node.name = NameOf[node.addr]
                         /\ client[node.addr] # "off"
<1>1. /\ list \in Seq(Node) /\ Len(list) \in Nat /\ DOMAIN list = 1..Len(list)
      /\ \A i \in DOMAIN list : Good(list[i])
  BY NamedLemma DEF UdpTypeOK, Node, NodesInv
<1>3. ASSUME \A i \in DOMAIN list' : Good(list'[i])
      PROVE  NodesInv'
  <2>1. ASSUME NEW i \in DOMAIN list'
        PROVE  /\ list'[i].name = NameOf[list'[i].addr]
               /\ client'[list'[i].addr] # "off"
    <3>1. Good(list'[i])
      BY <1>3
    <3>2. QED
      BY <3>1, StartedStays
  <2>2. QED
    BY <2>1 DEF NodesInv
<1> HIDE DEF Good
<1>4. CASE list' = list
  BY <1>1, <1>3, <1>4
<1>5. ASSUME NEW c \in Clients, NEW k \in 1..MaxInbox, recv_message(c, k),
             client_login(c)
      PROVE  NodesInv'
  <2>1. list' = Cons([name |-> NameOf[c], addr |-> c], list)
    BY <1>5 DEF client_login, insert_list
  <2>2. Good([name |-> NameOf[c], addr |-> c])
    <3>1. inbox[c] # <<>>
      BY <1>5, LenProperties, EmptySeq DEF recv_message, UdpTypeOK
    <3>2. QED
      BY <3>1 DEF Good, InboxInv
  <2>3. [name |-> NameOf[c], addr |-> c] \in Node
    BY UdpAssumption DEF Node
  <2>4. ASSUME NEW node \in Node, list' = Cons(node, list), Good(node)
        PROVE  \A i \in DOMAIN list' : Good(list'[i])
    <3>0. /\ DOMAIN Cons(node, list) = 1..(Len(list) + 1) /\ Cons(node, list)[1] = node
          /\ \A i \in 2..(Len(list) + 1) : Cons(node, list)[i] = list[i - 1]
      <4>1. list \in Seq(Node) /\ node \in Node
        BY <1>1, <2>4
      <4>2. DOMAIN Cons(node, list) = 1..(Len(list) + 1)
        BY <4>1, ConsLemma
      <4>3. Cons(node, list)[1] = node
        BY <4>1, ConsLemma
      <4>4. \A i \in 2..(Len(list) + 1) : Cons(node, list)[i] = list[i - 1]
        BY <4>1, ConsLemma
      <4>5. QED
        BY <4>2, <4>3, <4>4, Zenon
    <3>1. /\ DOMAIN list' = 1..(Len(list) + 1) /\ list'[1] = node
          /\ \A i \in 2..(Len(list) + 1) : list'[i] = list[i - 1]
      BY <2>4, <3>0
    <3>2. ASSUME NEW i \in 2..(Len(list) + 1)
          PROVE  Good(list'[i])
      BY <1>1, <3>1
    <3>3. QED
      BY <1>1, <2>4, <3>1, <3>2
  <2>5. QED
    BY <1>3, <2>1, <2>2, <2>3, <2>4
<1>6. ASSUME NEW c \in Clients, client_quit_server(c)
      PROVE  NodesInv'
  <2>1. CASE list' = list
    BY <1>4, <2>1
  <2>2. CASE Named(list, NameOf[c]) # {} /\ list' = delete_list(list, NameOf[c])
    <3>1. \A j \in DOMAIN list' : \E i \in DOMAIN list : list'[j] = list[i]
      BY <1>1, <2>2, NamedDelete
    <3>2. QED
      BY <1>1, <1>3, <3>1
  <2>3. QED
    BY <1>6, <2>1, <2>2 DEF client_quit_server
<1>7. ASSUME NEW c \in Clients, NEW k \in 1..MaxInbox, recv_message(c, k)
      PROVE  NodesInv'
  BY <1>4, <1>5, <1>6, <1>7 DEF recv_message, client_chat, print_online, private_chat
<1>8. QED
  BY <1>4, <1>7, ListSame

(* The list agrees with the clients that are here after every step, and    *)
(* the receiver lives as long as nobody ends it.                           *)
LEMMA CountsStep ==
  ASSUME UdpInv, UdpTypeOK', [Next]_vars
  PROVE  ListCounts' /\ ReceiverLives'
<1>1. /\ UdpTypeOK /\ ListCounts /\ ReceiverLives
      /\ \A c \in Clients : InboxInv(c)
  BY DEF UdpInv
<1>2. ASSUME NEW c \in Clients, NEW k \in 1..MaxInbox, recv_message(c, k)
      PROVE  ListCounts' /\ ReceiverLives'
  <2>1. SUFFICES ASSUME ~ disturbed'
                 PROVE  ListCounts' /\ ReceiverLives'
    BY DEF ListCounts, ReceiverLives
  <2>2. ASSUME NEW d \in Clients \ {c}
        PROVE  Here(d)' <=> Here(d)
    <3>1. inbox'[d] = inbox[d] /\ client'[d] = client[d]
      BY <1>1, <1>2 DEF recv_message, UdpTypeOK
    <3>2. QED
      BY <3>1 DEF Here, UnderWay
  <2>3. /\ receiver' \in {"up", "unsent"}
        /\ \A n \in Names : Cardinality(Named(list', n)) = Cardinality(Present(n)')
    BY <1>2, <2>1, <2>2, ReceiveStep
  <2>4. QED
    BY <2>3 DEF ListCounts, ReceiverLives, Present
<1>3. ASSUME ~ \E c \in Clients : \E k \in 1..MaxInbox : recv_message(c, k)
      PROVE  ListCounts' /\ ReceiverLives'
  <2>1. SUFFICES ASSUME ~ disturbed'
                 PROVE  ListCounts' /\ ReceiverLives'
    BY DEF ListCounts, ReceiverLives
  <2>2. \A d \in Clients : Here(d)' <=> Here(d)
    BY <1>1, <1>3, <2>1, HereStep
  <2>3. \A n : Present(n)' = Present(n)
    BY <2>2 DEF Present
  <2>4. /\ list' = list /\ (receiver' = "up" => receiver = "up")
        /\ (parent' = "up" => parent = "up" /\ receiver' = receiver)
    BY <1>3, ListSame
  <2>5. disturbed => disturbed'
    BY DEF Next, vars, Start, Ask, client_quit, Abort, server_quit_client,
           recv_message, Lose, server_says, OperatorQuits, server_chat, server_quit,
           ParentKilled, ReceiverKilled
  <2>6. ~ disturbed
    BY <2>1, <2>5
  <2>7. ListCounts'
    BY <1>1, <2>3, <2>4, <2>6 DEF ListCounts, Present
  <2>8. ReceiverLives'
    BY <1>1, <2>4, <2>6 DEF ReceiverLives
  <2>9. QED
    BY <2>7, <2>8
<1>4. QED
  BY <1>2, <1>3

LEMMA UdpInvInit == Init => UdpInv
<1> SUFFICES ASSUME Init
             PROVE  UdpInv
  OBVIOUS
<1>1. UdpTypeOK
  <2>1. /\ parent = "up" /\ receiver = "up" /\ told = {} /\ disturbed = FALSE
        /\ client \in [Clients -> {"off", "on", "quit", "killed"}]
        /\ list = <<>> /\ notice = <<>> /\ reply = Nobody
    BY DEF Init
  <2>2. inbox \in [Clients -> Seq(Message)]
    BY DEF Init
  <2>3. <<>> \in Seq(Node) /\ <<>> \in Seq({"SERVER_CHAT", "SERVER_QUIT"})
    BY EmptySeq
  <2>4. Nobody \in [type : Types \cup {"NONE", "SERVER_CHAT", "SERVER_QUIT"},
                    from : SUBSET Clients, to : SUBSET Clients]
    BY DEF Nobody
  <2>5. QED
    BY <2>1, <2>2, <2>3, <2>4 DEF UdpTypeOK, Node
<1>2. NodesInv /\ \A c \in Clients : InboxInv(c)
  BY DEF Init, NodesInv, InboxInv
<1>3. {c \in Clients : client[c] # "off"} = {}
  BY DEF Init
<1>4. StartedInv
  BY <1>3, FS_EmptySet DEF StartedInv
<1>5. \A n : Named(list, n) = {}
  BY DEF Init, Named
<1>6. \A n : Present(n) = {}
  BY DEF Init, Present, Here
<1>7. ListCounts /\ ReceiverLives
  BY <1>5, <1>6 DEF ListCounts, ReceiverLives, Present, Init
<1>8. QED
  BY <1>1, <1>2, <1>4, <1>7 DEF UdpInv

LEMMA UdpInvStep == UdpInv /\ [Next]_vars => UdpInv'
<1> SUFFICES ASSUME UdpInv, [Next]_vars
             PROVE  UdpInv'
  OBVIOUS
<1>1. UdpTypeOK' /\ StartedInv' /\ NodesInv'
  BY UdpTypeStep, StartedStep, NodesStep DEF UdpInv
<1>2. \A c \in Clients : InboxInv(c)'
  BY InboxStep DEF UdpInv
<1>3. ListCounts' /\ ReceiverLives'
  BY <1>1, CountsStep
<1>4. QED
  BY <1>1, <1>2, <1>3 DEF UdpInv

(* The inductive invariant of the chat over UDP.                           *)
THEOREM UdpInvariant == Spec => []UdpInv
BY UdpInvInit, UdpInvStep, PTL DEF Spec

-----------------------------------------------------------------------------
(* The variables of the two processes and of the clients keep their types: *)
(* the list holds clients only, whatever comes in whatever order.          *)
THEOREM UdpTypeCorrect == Spec => []UdpTypeOK
<1>1. UdpInv => UdpTypeOK
  BY DEF UdpInv
<1>2. QED
  BY <1>1, UdpInvariant, PTL

(* While datagrams keep their order, the list of udp_server.c has as many  *)
(* nodes of a name as there are clients of the name here.                  *)
THEOREM ListCountsClients == Spec => []ListCounts
<1>1. UdpInv => ListCounts
  BY DEF UdpInv
<1>2. QED
  BY <1>1, UdpInvariant, PTL

(* While datagrams keep their order, neither delete_list nor print_online  *)
(* ends the receiver because a name is not in the list; only the operator  *)
(* and a sendto that fails do.                                             *)
THEOREM ReceiverStaysAlive == Spec => []ReceiverLives
<1>1. UdpInv => ReceiverLives
  BY DEF UdpInv
<1>2. QED
  BY <1>1, UdpInvariant, PTL

(* Who alone has his name is in the list while he is here and not longer.  *)
LEMMA AloneLemma ==
  ASSUME UdpInv, ~ disturbed, receiver = "up", NEW c \in Clients, Alone(c)
  PROVE  Named(list, NameOf[c]) # {} <=> Here(c)
<1>1. /\ list \in Seq(Node) /\ NameOf[c] \in Names /\ StartedInv
      /\ Cardinality(Named(list, NameOf[c])) = Cardinality(Present(NameOf[c]))
  BY UdpAssumption DEF UdpInv, UdpTypeOK, Node, ListCounts, Present
<1>2. IsFiniteSet(Named(list, NameOf[c])) /\ IsFiniteSet(Present(NameOf[c]))
  BY <1>1, NamedLemma, PresentLemma
<1>3. Named(list, NameOf[c]) = {} <=> Present(NameOf[c]) = {}
  BY <1>1, <1>2, FS_EmptySet
<1>4. Present(NameOf[c]) \subseteq {c}
  BY DEF Present, Alone, Here
<1>5. QED
  BY <1>3, <1>4 DEF Present

(* A client whose name no other has had is listed only while it is here.   *)
THEOREM ListedAreHere == Spec => []ListedIsHere
<1>1. UdpInv => ListedIsHere
  <2> SUFFICES ASSUME UdpInv, ~ disturbed, receiver = "up",
                      NEW i \in DOMAIN list, Alone(list[i].addr)
               PROVE  Here(list[i].addr)
    BY DEF ListedIsHere
  <2>1. list[i].addr \in Clients /\ list[i].name = NameOf[list[i].addr]
    BY NamedLemma DEF UdpInv, UdpTypeOK, Node, NodesInv
  <2>2. i \in Named(list, NameOf[list[i].addr])
    BY <2>1 DEF Named
  <2>3. QED
    BY <2>1, <2>2, AloneLemma
<1>2. QED
  BY <1>1, UdpInvariant, PTL

(* Such a client, while it is here, is the one print_online answers to.    *)
THEOREM AskersGetAnswers == Spec => []AnswersReachAsker
<1>1. UdpInv => AnswersReachAsker
  <2> SUFFICES ASSUME UdpInv, ~ disturbed, receiver = "up",
                      NEW c \in Clients, Alone(c), Here(c)
               PROVE  Named(list, NameOf[c]) # {} /\ Asker(c) = c
    BY DEF AnswersReachAsker
  <2>1. Named(list, NameOf[c]) # {}
    BY AloneLemma
  <2>2. list \in Seq(Node)
    BY DEF UdpInv, UdpTypeOK, Node
  <2>3. PICK j \in Named(list, NameOf[c]) : Asker(c) = list[j].addr
    BY <2>1, <2>2, NamedLemma DEF Asker
  <2>4. /\ list[j].addr \in Clients /\ NameOf[list[j].addr] = NameOf[c]
        /\ client[list[j].addr] # "off"
    BY <2>2, <2>3, NamedLemma DEF Named, UdpInv, NodesInv
  <2>5. list[j].addr = c
    BY <2>4 DEF Alone
  <2>6. QED
    BY <2>1, <2>3, <2>5
<1>2. QED
  BY <1>1, UdpInvariant, PTL
=============================================================================
