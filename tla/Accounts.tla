------------------------------ MODULE Accounts ------------------------------
(***************************************************************************)
(* What the user table promises to the users, whatever the list, the       *)
(* connections and the crashes of the server do: a name belongs to at most *)
(* one account, no operation overwrites somebody else's account, and the   *)
(* only ways an account can disappear are its removal and a change of its  *)
(* password that was interrupted.                                          *)
(***************************************************************************)
CONSTANTS Names, Passwords,
          None         \* no change of password in progress

VARIABLES
  accounts,  \* the rows of the table: which name has which password
  changing   \* the name whose password is being changed, or None

Row == [name : Names, pw : Passwords]

Taken(name) == \E r \in accounts : r.name = name

Init == accounts = {} /\ changing = None

(* A free name is taken.                                                   *)
Open(name, pw) ==
  /\ changing = None
  /\ ~ Taken(name)
  /\ accounts' = accounts \cup {[name |-> name, pw |-> pw]}
  /\ UNCHANGED changing

(* An account is removed.                                                  *)
Close(name) ==
  /\ changing = None
  /\ accounts' = {r \in accounts : r.name # name}
  /\ UNCHANGED changing

(* An account changes its name to a free one and keeps its password.       *)
Move(old, new) ==
  /\ changing = None
  /\ ~ Taken(new)
  /\ \E r \in accounts :
        /\ r.name = old
        /\ accounts' = (accounts \ {r}) \cup {[r EXCEPT !.name = new]}
  /\ UNCHANGED changing

(* A change of password first gives the account up ...                     *)
BeginChange(name) ==
  /\ changing = None
  /\ accounts' = {r \in accounts : r.name # name}
  /\ changing' = name

(* ... and then takes its name again, with the new password ...            *)
EndChange(pw) ==
  /\ changing # None
  /\ ~ Taken(changing)
  /\ accounts' = accounts \cup {[name |-> changing, pw |-> pw]}
  /\ changing' = None

(* ... unless something goes wrong in between: the account is lost.        *)
LoseChange ==
  /\ changing # None
  /\ changing' = None
  /\ UNCHANGED accounts

Next ==
  \/ \E n \in Names, p \in Passwords : Open(n, p)
  \/ \E n \in Names : Close(n) \/ BeginChange(n)
  \/ \E o, n \in Names : Move(o, n)
  \/ \E p \in Passwords : EndChange(p)
  \/ LoseChange

Spec == Init /\ [][Next]_<<accounts, changing>>
=============================================================================
