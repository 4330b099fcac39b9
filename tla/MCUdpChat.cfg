SPECIFICATION Spec
CONSTANTS
  Clients = {"c1", "c2", "c3"}
  Names = {"a", "b"}
  NameOf <- MCNameOf
  Asks <- MCAsks
  PrefixOf <- MCPrefixOf
  MaxInbox = 2
VIEW WithoutReply
CHECK_DEADLOCK FALSE
INVARIANTS
  UdpTypeOK
  ListCounts
  ReceiverLives
  ListedIsHere
  AnswersReachAsker
