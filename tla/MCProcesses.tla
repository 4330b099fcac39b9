---------------------------- MODULE MCProcesses ----------------------------
(* Instances of Processes for TLC: the first user has the name "a", the    *)
(* second one "a" and "b".  The first one plays, stops and logs out, the   *)
(* second one plays.                                                       *)
EXTENDS Processes

PrefixFree == {<<n, n>> : n \in Names}
SharedName ==
  [fd \in Fds |-> (IF fd = 1 THEN {"a"} ELSE {"a", "b"}) \X {"p"}]
MCUses == [fd \in Fds |-> IF fd = 1 THEN {"REQ_MEDIA", "STOP_MEDIA", "LOGOUT"}
                                    ELSE {"REQ_MEDIA"}]
(* Bound of the run: once both clients are connected, the UDP server runs  *)
(* as long as the TCP server does.  All its starts and ends are explored   *)
(* before that, and after the end of the TCP server.                       *)
UdpSettled == server = "up" /\ conns = MaxFd => parent = "up" /\ receiver
(* What the last step wrote has no influence on the next one.              *)
WithoutOutput ==
  <<server, dbVars, userHead, netVars, mediaVars, shared, clientVars,
    udpVars, auxVars>>
=============================================================================
