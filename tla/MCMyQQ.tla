------------------------------- MODULE MCMyQQ -------------------------------
(* Instances of MyQQ for TLC: "a" and "b" are not a prefix of one another, *)
(* "an" is one of "ann".                                                   *)
EXTENDS MyQQ

PrefixFree == {<<n, n>> : n \in Names}
Prefixed == PrefixFree \cup {<<"an", "ann">>}
(* A name for each user, two names for the first of them, all names for    *)
(* everybody.  They register and log in with the password "p".             *)
OwnName == [fd \in Fds |-> {<<IF fd = 1 THEN "a" ELSE "b", "p">>}]
TwoAndOne == [fd \in Fds |-> (IF fd = 1 THEN Names ELSE {"b"}) \X {"p"}]
AllNames == [fd \in Fds |-> Names \X {"p"}]
(* The commands of the users, run by run.                                  *)
AccountUses == [fd \in Fds |-> {"LOGOUT", "UNREGIST", "CHG_PW"}]
LiveUses == [fd \in Fds |-> IF fd = 1 THEN {"LOGOUT", "REQ_MEDIA"}
                                      ELSE {"RENAME", "UDP"}]
ChangeUses == [fd \in Fds |-> {"CHG_PW"}]
LogoutUses == [fd \in Fds |-> {"LOGOUT"}]
MediaUses ==
  [fd \in Fds |-> {"REQ_MEDIA", "STOP_MEDIA", "LOGOUT", "UNREGIST"}]
OnlyRename == [fd \in Fds |-> {"RENAME"}]
(* What the last step wrote has no influence on the next one.              *)
WithoutOutput ==
  <<server, dbVars, userHead, netVars, mediaVars, shared, clientVars>>
=============================================================================
