------------------------------ MODULE Passward ------------------------------
(***************************************************************************)
(* How sqlite3_userInfo.c keeps the password of an account (NEED_ENCRYPT): *)
(* every byte of the C string, its end included, is shifted by a random    *)
(* factor, and the factor is stored behind the last byte.                  *)
(***************************************************************************)
EXTENDS Integers, Sequences

CONSTANTS
  Texts,    \* the passwords users type
  Factors,  \* the values of qq_encrypt_factor_get: rand() % 0xff
  None      \* nothing is chosen

(* A C string has no zero byte; 0xff is in no UTF-8 or GBK text.  (The     *)
(* cipher does not survive it: any factor but 0 turns it into the end of   *)
(* the string.)                                                            *)
ASSUME TextAssumption == Texts \subseteq Seq(1..254)
ASSUME FactorAssumption == Factors \subseteq 0..254
ASSUME ChosenAssumption == None \notin Texts

VARIABLES
  blob,    \* the column passward, empty when there is no row
  answer,  \* what the last operation was asked and returned
  chosen   \* auxiliary: the text the user chose, None when there is no row

vars == <<blob, answer, chosen>>

Answers ==
  [asked : Texts \cup {None},
   result : {"QQ_OK", "QQ_PASSWARD_WRONG", "QQ_USER_UN_EXIST", "SAME"}]

NoRow == <<>>

-----------------------------------------------------------------------------
(* One byte of qq_encrypt and of qq_un_encrypt: 0xff and not 0x100 is      *)
(* taken away on overflow, so the shifted values 1..254 wrap to 1..254.    *)
(* Mutants of Shift: no wrap, and the wrap of an unsigned char.            *)
ShiftWide(b, ef) == b + ef
ShiftModulo(b, ef) == (b + ef) % 256
Shift(b, ef) == IF b + ef > 255 THEN b + ef - 255 ELSE b + ef
Unshift(c, ef) == IF c - ef < 0 THEN c + 255 - ef ELSE c - ef

CString(t) == Append(t, 0)
qq_encrypt(t, ef) ==
  [i \in 1..(Len(t) + 1) |-> Shift(CString(t)[i], ef)]
Stored(t, ef) == Append(qq_encrypt(t, ef), ef)

qq_un_encrypt(b) ==
  [i \in 1..(Len(b) - 1) |-> Unshift(b[i], b[Len(b)])]

(* strcmp(t, buffer) == 0.                                                 *)
SameText(t, buffer) ==
  /\ Len(t) < Len(buffer)
  /\ buffer[Len(t) + 1] = 0
  /\ \A i \in 1..Len(t) : buffer[i] = t[i]

(* qq_sql3_check_by_name takes the factor from the end of the column and   *)
(* decodes the rest; its callers compare that with the text.               *)
Opens(t) == SameText(t, qq_un_encrypt(blob))

-----------------------------------------------------------------------------
Answer(t, result) == [asked |-> t, result |-> result]

Init == blob = NoRow /\ answer = Answer(None, "QQ_OK") /\ chosen = None

(* myQQ_Register, when the name is free.                                   *)
Register(t, ef) ==
  /\ blob = NoRow
  /\ blob' = Stored(t, ef)
  /\ answer' = Answer(t, "QQ_OK")
  /\ chosen' = t

(* myQQ_LoginCheck.                                                        *)
LoginCheck(t) ==
  /\ answer' = Answer(t, IF blob = NoRow THEN "QQ_USER_UN_EXIST"
                         ELSE IF Opens(t) THEN "QQ_OK"
                         ELSE "QQ_PASSWARD_WRONG")
  /\ UNCHANGED <<blob, chosen>>

(* MSG_USER_CHG_PW: myQQ_IsSamePassward refuses the old password;          *)
(* myQQ_ChangePassward encrypts the new one with a factor of its own.      *)
KeepPassward(t) ==
  /\ blob # NoRow
  /\ Opens(t)
  /\ answer' = Answer(t, "SAME")
  /\ UNCHANGED <<blob, chosen>>

ChangePassward(t, ef) ==
  /\ blob # NoRow
  /\ ~ Opens(t)
  /\ blob' = Stored(t, ef)
  /\ answer' = Answer(t, "QQ_OK")
  /\ chosen' = t

(* myQQ_UnRegister.                                                        *)
UnRegister ==
  /\ blob # NoRow
  /\ blob' = NoRow /\ chosen' = None
  /\ answer' = Answer(None, "QQ_OK")

Next ==
  \/ \E t \in Texts, ef \in Factors : Register(t, ef) \/ ChangePassward(t, ef)
  \/ \E t \in Texts : LoginCheck(t) \/ KeepPassward(t)
  \/ UnRegister

Spec == Init /\ [][Next]_vars

-----------------------------------------------------------------------------
(* What is stored is a string of bytes, whatever text and factor: the      *)
(* shift never leaves an unsigned char.                                    *)
PasswardTypeOK ==
  /\ blob \in Seq(0..255)
  /\ answer \in Answers
  /\ chosen \in Texts \cup {None}

(* The account opens to the text that was chosen last and to no other      *)
(* text, whatever factors were drawn on the way.                           *)
S == INSTANCE Secret WITH text <- chosen
ImplementsSecret == S!Spec
=============================================================================
