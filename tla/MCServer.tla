------------------------------ MODULE MCServer ------------------------------
(* Instances of Server for TLC: "an" is a prefix of "ann".                 *)
EXTENDS Server

MCNames == {"an", "ann"}
MCPrefixOf == {<<"an", "an">>, <<"ann", "ann">>, <<"an", "ann">>}
(* What the last step wrote has no influence on the next one.              *)
WithoutOutput ==
  <<server, dbVars, userHead, netVars, mediaVars, shared>>
=============================================================================
