--------------------------- MODULE PasswardProofs ---------------------------
(***************************************************************************)
(* Passward implements Secret, for all texts without 0xff, all factors and *)
(* all lengths.  The invariant says what the column holds: the chosen text *)
(* under some factor.                                                      *)
(***************************************************************************)
EXTENDS Passward, TLAPS

(* The shift of a byte but 0xff by any factor is a byte, and is undone by  *)
(* the same factor (qq_encrypt and qq_un_encrypt).                         *)
LEMMA ByteRoundTrip ==
  ASSUME NEW b \in 0..254, NEW ef \in 0..254
  PROVE  /\ Shift(b, ef) \in 0..255
         /\ Unshift(Shift(b, ef), ef) = b
BY SMT DEF Shift, Unshift

(* The elements of a sequence.                                             *)
LEMMA Elements ==
  ASSUME NEW D, NEW q \in Seq(D)
  PROVE  Len(q) \in Nat /\ \A i \in 1..Len(q) : q[i] \in D
OBVIOUS

(* The bytes of a text with its end.                                       *)
LEMMA CStringBytes ==
  ASSUME NEW t \in Texts
  PROVE  /\ t \in Seq(1..254) /\ Len(t) \in Nat
         /\ CString(t)[Len(t) + 1] = 0
         /\ \A i \in 1..Len(t) : t[i] \in 1..254 /\ CString(t)[i] = t[i]
         /\ \A i \in 1..(Len(t) + 1) : CString(t)[i] \in 0..254
<1>1. t \in Seq(1..254)
  BY TextAssumption
<1>2. Len(t) \in Nat /\ \A i \in 1..Len(t) : t[i] \in 1..254
  BY <1>1, Elements, Zenon
<1>3. CString(t)[Len(t) + 1] = 0
  BY <1>1 DEF CString
<1>4. \A i \in 1..Len(t) : CString(t)[i] = t[i]
  BY <1>1 DEF CString
<1>5. ASSUME NEW i \in 1..(Len(t) + 1) PROVE CString(t)[i] \in 0..254
  <2>1. CASE i = Len(t) + 1
    BY <2>1, <1>3
  <2>2. CASE i \in 1..Len(t)
    <3>1. CString(t)[i] = t[i]
      BY <2>2, <1>4
    <3>2. t[i] \in 1..254
      BY <2>2, <1>2
    <3> QED  BY <3>1, <3>2
  <2>3. Len(t) \in Nat
    BY <1>2
  <2>4. i = Len(t) + 1 \/ i \in 1..Len(t)
    BY <2>3
  <2> QED  BY <2>1, <2>2, <2>4
<1> QED  BY <1>1, <1>2, <1>3, <1>4, <1>5

(* What is stored for a text is bytes, and decodes to the text and its end *)
(* (qq_sql3_insert, qq_sql3_check_by_name).                                *)
LEMMA RoundTrip ==
  ASSUME NEW t \in Texts, NEW ef \in Factors
  PROVE  /\ Stored(t, ef) \in Seq(0..255)
         /\ Stored(t, ef) # NoRow
         /\ Len(qq_un_encrypt(Stored(t, ef))) = Len(t) + 1
         /\ \A i \in 1..(Len(t) + 1) :
              qq_un_encrypt(Stored(t, ef))[i] = CString(t)[i]
<1> DEFINE n == Len(t) + 1
           e == qq_encrypt(t, ef)
           b == Stored(t, ef)
<1>1. n \in Nat /\ n > 0 /\ ef \in 0..254
  BY CStringBytes, FactorAssumption
<1>2. \A i \in 1..n : CString(t)[i] \in 0..254
  BY CStringBytes
<1>3. \A i \in 1..n : /\ Shift(CString(t)[i], ef) \in 0..255
                      /\ Unshift(Shift(CString(t)[i], ef), ef) = CString(t)[i]
  BY <1>1, <1>2, ByteRoundTrip
<1>4. /\ e \in Seq(0..255) /\ Len(e) = n
      /\ \A i \in 1..n : e[i] = Shift(CString(t)[i], ef)
  <2>1. e = [i \in 1..n |-> Shift(CString(t)[i], ef)]
    BY DEF qq_encrypt
  <2> HIDE DEF e, n
  <2>2. e \in [1..n -> 0..255]
    BY <1>3, <2>1
  <2>3. e \in Seq(0..255)
    BY <1>1, <2>2
  <2>4. Len(e) = n
    BY <1>1, <2>1
  <2>5. \A i \in 1..n : e[i] = Shift(CString(t)[i], ef)
    BY <2>1
  <2> QED  BY <2>3, <2>4, <2>5
<1>5. b = Append(e, ef)
  BY DEF Stored
<1> HIDE DEF e, n, b
<1>6. b \in Seq(0..255)
  BY <1>1, <1>4, <1>5
<1>7. Len(b) = n + 1 /\ b[n + 1] = ef /\ \A i \in 1..n : b[i] = e[i]
  BY <1>1, <1>4, <1>5
<1>8. qq_un_encrypt(b) = [i \in 1..n |-> Unshift(b[i], ef)]
  <2>1. Len(b) - 1 = n
    BY <1>1, <1>7
  <2> QED  BY <2>1, <1>7 DEF qq_un_encrypt
<1>9. Len(qq_un_encrypt(b)) = n
  BY <1>1, <1>8
<1>10. \A i \in 1..n : qq_un_encrypt(b)[i] = CString(t)[i]
  BY <1>3, <1>4, <1>7, <1>8
<1>11. b # NoRow
  BY <1>1, <1>7 DEF NoRow
<1> QED  BY <1>6, <1>9, <1>10, <1>11 DEF b, n

(* A stored text compares equal to itself and to no other text (strcmp in  *)
(* myQQ_LoginCheck and myQQ_IsSamePassward).                               *)
LEMMA OnlyTheText ==
  ASSUME NEW t \in Texts, NEW ef \in Factors, NEW s \in Texts
  PROVE  SameText(s, qq_un_encrypt(Stored(t, ef))) <=> s = t
<1> DEFINE d == qq_un_encrypt(Stored(t, ef))
<1>1. Len(d) = Len(t) + 1 /\ \A i \in 1..(Len(t) + 1) : d[i] = CString(t)[i]
  BY RoundTrip
<1> HIDE DEF d
<1>2. /\ Len(t) \in Nat /\ Len(s) \in Nat
      /\ s \in Seq(1..254) /\ t \in Seq(1..254)
      /\ \A i \in 1..Len(t) : t[i] \in 1..254
      /\ \A i \in 1..Len(s) : s[i] \in 1..254
  BY CStringBytes
<1>3. d[Len(t) + 1] = 0 /\ \A i \in 1..Len(t) : d[i] = t[i]
  <2>1. Len(t) + 1 \in 1..(Len(t) + 1) /\ 1..Len(t) \subseteq 1..(Len(t) + 1)
    BY <1>2
  <2>2. d[Len(t) + 1] = CString(t)[Len(t) + 1]
    BY <1>1, <2>1
  <2>3. \A i \in 1..Len(t) : d[i] = CString(t)[i]
    BY <1>1, <2>1
  <2> QED  BY <2>2, <2>3, CStringBytes
<1>4. ASSUME s = t PROVE SameText(s, d)
  BY <1>1, <1>2, <1>3, <1>4 DEF SameText
<1>5. ASSUME SameText(s, d) PROVE s = t
  <2>1. Len(s) < Len(t) + 1 /\ d[Len(s) + 1] = 0
    BY <1>1, <1>5 DEF SameText
  <2>2. ASSUME Len(s) # Len(t) PROVE FALSE
    <3>1. Len(s) + 1 \in 1..Len(t)
      BY <1>2, <2>1, <2>2
    <3>2. d[Len(s) + 1] \in 1..254
      BY <1>2, <1>3, <3>1
    <3> QED  BY <2>1, <3>2
  <2>3. \A i \in 1..Len(s) : s[i] = t[i]
    BY <1>2, <1>3, <1>5, <2>2 DEF SameText
  <2> QED  BY <1>2, <2>2, <2>3
<1> QED  BY <1>4, <1>5 DEF d

-----------------------------------------------------------------------------
(* The column holds the chosen text.                                       *)
Holds ==
  /\ answer \in Answers
  /\ \/ blob = NoRow /\ chosen = None
     \/ \E t \in Texts, ef \in Factors : blob = Stored(t, ef) /\ chosen = t

LEMMA HoldsStep == Holds /\ [Next]_vars => Holds'
<1> SUFFICES ASSUME Holds, [Next]_vars PROVE Holds'
  OBVIOUS
<1>1. ASSUME NEW t \in Texts, NEW ef \in Factors,
             Register(t, ef) \/ ChangePassward(t, ef)
      PROVE  Holds'
  BY <1>1 DEF Register, ChangePassward, Holds, Answers, Answer
<1>2. ASSUME NEW t \in Texts, LoginCheck(t) \/ KeepPassward(t)
      PROVE  Holds'
  BY <1>2 DEF LoginCheck, KeepPassward, Holds, Answers, Answer
<1>3. CASE UnRegister
  BY <1>3 DEF UnRegister, Holds, Answers, Answer
<1>4. CASE UNCHANGED vars
  BY <1>4 DEF vars, Holds
<1> QED  BY <1>1, <1>2, <1>3, <1>4 DEF Next

LEMMA HoldsInvariant == Spec => []Holds
<1>1. Init => Holds
  BY DEF Init, Holds, Answers, Answer
<1> QED  BY <1>1, HoldsStep, PTL DEF Spec

(* The column is bytes at every step of every run.                         *)
THEOREM PasswardTypeCorrect == Spec => []PasswardTypeOK
<1>1. Holds => PasswardTypeOK
  <2>1. NoRow \in Seq(0..255)
    BY DEF NoRow
  <2> QED  BY <2>1, RoundTrip DEF Holds, PasswardTypeOK
<1> QED  BY <1>1, HoldsInvariant, PTL

(* Every step of the stored password is a step of the secret.              *)
LEMMA SecretStep == Holds /\ [Next]_vars => [S!Next]_<<chosen, answer>>
<1> SUFFICES ASSUME Holds, [Next]_vars PROVE [S!Next]_<<chosen, answer>>
  OBVIOUS
<1> USE DEF S!Next
<1>0. /\ blob = NoRow <=> chosen = None
      /\ chosen \in Texts \cup {None}
      /\ blob # NoRow =>
           \A s \in Texts : SameText(s, qq_un_encrypt(blob)) <=> s = chosen
  BY RoundTrip, OnlyTheText, ChosenAssumption DEF Holds
<1>1. ASSUME NEW t \in Texts, NEW ef \in Factors, Register(t, ef)
      PROVE  S!Choose(t)
  BY <1>0, <1>1 DEF Register, S!Choose, Answer, S!Answer
<1>2. ASSUME NEW t \in Texts, NEW ef \in Factors, ChangePassward(t, ef)
      PROVE  S!Change(t)
  BY <1>0, <1>2 DEF ChangePassward, Opens, S!Change, Answer, S!Answer
<1>3. ASSUME NEW t \in Texts, LoginCheck(t)
      PROVE  S!Check(t)
  BY <1>0, <1>3 DEF LoginCheck, Opens, S!Check, Answer, S!Answer
<1>4. ASSUME NEW t \in Texts, KeepPassward(t)
      PROVE  S!Keep(t)
  BY <1>0, <1>4 DEF KeepPassward, Opens, S!Keep, Answer, S!Answer
<1>5. ASSUME UnRegister PROVE S!Forget
  BY <1>0, <1>5 DEF UnRegister, S!Forget, Answer, S!Answer
<1>6. CASE UNCHANGED vars
  BY <1>6 DEF vars
<1> QED  BY <1>1, <1>2, <1>3, <1>4, <1>5, <1>6 DEF Next

(* The account opens to the chosen text only.                              *)
THEOREM PasswardImplementsSecret == Spec => ImplementsSecret
<1>1. Init => S!Init
  BY DEF Init, S!Init, Answer, S!Answer
<1> QED
  BY <1>1, SecretStep, HoldsInvariant, PTL DEF Spec, ImplementsSecret, S!Spec
=============================================================================
