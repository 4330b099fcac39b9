------------------------------- MODULE Secret -------------------------------
(***************************************************************************)
(* What the password of one account promises its user, however it is       *)
(* stored: the account opens to the text he chose last and to no other.    *)
(***************************************************************************)
CONSTANTS Texts,  \* what users type as a password
          None    \* there is no account

VARIABLES text,   \* the password, None when there is no account
          answer  \* what the last operation was asked and returned

Answer(t, result) == [asked |-> t, result |-> result]

Init == text = None /\ answer = Answer(None, "QQ_OK")

Choose(t) ==
  /\ text = None
  /\ text' = t /\ answer' = Answer(t, "QQ_OK")

Check(t) ==
  /\ answer' = Answer(t, IF text = None THEN "QQ_USER_UN_EXIST"
                         ELSE IF t = text THEN "QQ_OK"
                         ELSE "QQ_PASSWARD_WRONG")
  /\ UNCHANGED text

(* A new password must be new.                                             *)
Change(t) ==
  /\ text # None /\ t # text
  /\ text' = t /\ answer' = Answer(t, "QQ_OK")
Keep(t) ==
  /\ text # None /\ t = text
  /\ answer' = Answer(t, "SAME") /\ UNCHANGED text

Forget == text # None /\ text' = None /\ answer' = Answer(None, "QQ_OK")

Next ==
  \/ \E t \in Texts : Choose(t) \/ Check(t) \/ Change(t) \/ Keep(t)
  \/ Forget

Spec == Init /\ [][Next]_<<text, answer>>
=============================================================================
