----------------------------- MODULE MCUdpChat -----------------------------
(* An instance of UdpChat for TLC: two clients share a name.               *)
EXTENDS UdpChat

MCNameOf == [c \in Clients |-> IF c = "c3" THEN "b" ELSE "a"]
MCAsks == [c \in Clients |->
  CASE c = "c1" -> {"PRINT_ONLINE"}
    [] c = "c2" -> {"CLIENT_CHAT"}
    [] OTHER -> {"PRINT_ONLINE", "PRIVATE_CHAT"}]
MCPrefixOf == {<<n, n>> : n \in Names}
(* What the receiver sent last has no influence on what it does next.      *)
WithoutReply ==
  <<serverVars, client, inbox, notice, told, disturbed>>
=============================================================================
