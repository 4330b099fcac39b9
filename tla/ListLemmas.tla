----------------------------- MODULE ListLemmas -----------------------------
(***************************************************************************)
(* What the operators on sequences and sets that the lists of the servers  *)
(* are built from return, for any sequence: a list of users (userList.c),  *)
(* a list of clients (udp_server.c), a socket's messages under way.        *)
(***************************************************************************)
EXTENDS SequencesExt, SequenceTheorems, FiniteSetTheorems, TLAPS

(* A function on 1..n is a sequence.                                       *)
LEMMA FunctionIsSeq ==
  ASSUME NEW S, NEW n \in Nat, NEW f \in [1..n -> S]
  PROVE  f \in Seq(S) /\ Len(f) = n
OBVIOUS

(* A node that is unlinked leaves the others in their order.               *)
LEMMA RemoveLemma ==
  ASSUME NEW S, NEW list \in Seq(S), NEW k \in 1..Len(list)
  PROVE  /\ RemoveAt(list, k) \in Seq(S)
         /\ Len(RemoveAt(list, k)) = Len(list) - 1
         /\ DOMAIN RemoveAt(list, k) = 1..(Len(list) - 1)
         /\ \A i \in 1..(Len(list) - 1) :
              RemoveAt(list, k)[i] = IF i < k THEN list[i] ELSE list[i + 1]
<1> DEFINE front == SubSeq(list, 1, k - 1)
           back == SubSeq(list, k + 1, Len(list))
<1>0. Len(list) \in Nat /\ k \in 1..Len(list)
  BY LenProperties
<1>1. /\ front \in Seq(S) /\ Len(front) = k - 1
      /\ \A i \in 1..(k - 1) : front[i] = list[i]
  BY ElementOfSeq, SubSeqProperties
<1>2. /\ back \in Seq(S) /\ Len(back) = Len(list) - k
      /\ \A i \in 1..(Len(list) - k) : back[i] = list[k + i]
  BY ElementOfSeq, SubSeqProperties
<1>3. /\ front \o back \in Seq(S)
      /\ Len(front \o back) = Len(list) - 1
      /\ \A i \in 1..(Len(list) - 1) : (front \o back)[i] =
            IF i <= k - 1 THEN front[i] ELSE back[i - (k - 1)]
  <2> HIDE DEF front, back
  <2>1. /\ front \o back \in Seq(S)
        /\ Len(front \o back) = Len(front) + Len(back)
        /\ \A i \in 1..(Len(front) + Len(back)) : (front \o back)[i] =
              IF i <= Len(front) THEN front[i] ELSE back[i - Len(front)]
    BY <1>1, <1>2, ConcatProperties, Zenon
  <2>2. Len(front) + Len(back) = Len(list) - 1
    BY <1>0, <1>1, <1>2
  <2> QED BY <2>1, <2>2, <1>1
<1>4. RemoveAt(list, k) = front \o back
  BY DEF RemoveAt
<1>5. ASSUME NEW i \in 1..(Len(list) - 1)
      PROVE  (front \o back)[i] = IF i < k THEN list[i] ELSE list[i + 1]
  <2> HIDE DEF front, back
  <2>1. CASE i < k
    BY <1>0, <2>1, <1>1, <1>3
  <2>2. CASE ~ (i < k)
    <3>1. i - (k - 1) \in 1..(Len(list) - k) /\ ~ (i <= k - 1) /\ ~ (i < k)
      BY <1>0, <2>2
    <3>2. back[i - (k - 1)] = list[k + (i - (k - 1))]
      BY <3>1, <1>2
    <3>3. k + (i - (k - 1)) = i + 1
      BY <1>0
    <3> QED BY <1>0, <3>1, <3>2, <3>3, <1>3
  <2> QED BY <2>1, <2>2, Zenon
<1>6. /\ RemoveAt(list, k) \in Seq(S)
      /\ Len(RemoveAt(list, k)) = Len(list) - 1
      /\ DOMAIN RemoveAt(list, k) = 1..(Len(list) - 1)
  BY <1>3, <1>4, LenProperties
<1> HIDE DEF front, back
<1> QED BY <1>4, <1>5, <1>6


(* A node linked at the head moves every other node one place down.        *)
LEMMA ConsLemma ==
  ASSUME NEW S, NEW list \in Seq(S), NEW node \in S
  PROVE  /\ Cons(node, list) \in Seq(S)
         /\ Len(Cons(node, list)) = Len(list) + 1
         /\ DOMAIN Cons(node, list) = 1..(Len(list) + 1)
         /\ Cons(node, list)[1] = node
         /\ \A i \in 2..(Len(list) + 1) : Cons(node, list)[i] = list[i - 1]
BY DEF Cons

(* A set of numbers that is not empty has a least element, and one that is *)
(* bounded a greatest: what a search from the head, or to the end, finds.  *)
LEMMA MinLemma ==
  ASSUME NEW T \in SUBSET Nat, T # {}
  PROVE  Min(T) \in T /\ \A y \in T : Min(T) <= y
<1> DEFINE R == {ss \in Nat \X Nat : ss[1] < ss[2]}
<1>1. R = OpToRel(<, Nat)
  BY Zenon DEF OpToRel
<1>2. IsWellFoundedOn(R, Nat)
  BY <1>1, NatLessThanWellFounded
<1> HIDE DEF R
<1>3. PICK x \in T : \A y \in T : <<y, x>> \notin R
  BY <1>2, WFMin, Zenon
<1>4. ASSUME NEW y \in T
      PROVE  x <= y
  <2>1. x \in Nat /\ y \in Nat /\ <<y, x>> \in Nat \X Nat
    OBVIOUS
  <2>2. <<y, x>>[1] = y /\ <<y, x>>[2] = x
    OBVIOUS
  <2>3. ~ (y < x)
    BY <1>3, <2>1, <2>2, Zenon DEF R
  <2>4. QED
    BY <2>1, <2>3
<1>5. QED
  BY <1>4 DEF Min

LEMMA MaxLemma ==
  ASSUME NEW n \in Nat, NEW T \in SUBSET (0..n), T # {}
  PROVE  Max(T) \in T /\ \A y \in T : Max(T) >= y
<1> DEFINE U == {u \in 0..n : n - u \in T}
<1>1. U \in SUBSET Nat /\ U # {}
  <2>1. PICK t \in T : TRUE
    OBVIOUS
  <2>2. n - t \in 0..n /\ n - (n - t) = t
    BY <2>1
  <2>3. n - t \in U
    BY <2>1, <2>2
  <2>4. QED
    BY <2>3
<1>2. PICK u \in U : \A v \in U : u <= v
  BY <1>1, MinLemma
<1>3. u \in 0..n /\ n - u \in T
  BY <1>2
<1>4. ASSUME NEW y \in T
      PROVE  n - u >= y
  <2>1. y \in 0..n /\ n - y \in 0..n /\ n - (n - y) = y
    OBVIOUS
  <2>2. n - y \in U
    BY <2>1
  <2>3. u <= n - y
    BY <1>2, <2>2
  <2>4. QED
    BY <1>3, <2>1, <2>3
<1>5. QED
  BY <1>3, <1>4 DEF Max

-----------------------------------------------------------------------------
(* Something of X is in the sequence; nothing of Y comes after something   *)
(* of X in it.                                                             *)
Has(s, X) == \E i \in DOMAIN s : s[i] \in X
NeverAfter(s, X, Y) ==
  \A i, j \in DOMAIN s : i < j /\ s[i] \in X => s[j] \notin Y

(* The shortest sequences.                                                 *)
LEMMA ShortLemma ==
  ASSUME NEW X, NEW Y
  PROVE  /\ ~ Has(<<>>, X) /\ NeverAfter(<<>>, X, Y)
         /\ \A x : (Has(<<x>>, X) <=> x \in X) /\ NeverAfter(<<x>>, X, Y)
BY DEF Has, NeverAfter

(* Sequences one after the other.                                          *)
LEMMA ConcatLemma ==
  ASSUME NEW S, NEW s \in Seq(S), NEW t \in Seq(S), NEW X, NEW Y
  PROVE  /\ Has(s \o t, X) <=> Has(s, X) \/ Has(t, X)
         /\ NeverAfter(s \o t, X, Y) <=>
              /\ NeverAfter(s, X, Y) /\ NeverAfter(t, X, Y)
              /\ Has(s, X) => ~ Has(t, Y)
<1> DEFINE u == s \o t
           m == Len(s)
           n == Len(t)
<1>1. /\ m \in Nat /\ n \in Nat /\ DOMAIN s = 1..m /\ DOMAIN t = 1..n
      /\ DOMAIN u = 1..(m + n)
      /\ \A i \in 1..m : u[i] = s[i]
      /\ \A i \in 1..n : u[m + i] = t[i]
  OBVIOUS
<1> HIDE DEF u, m, n
<1>2. \A i \in DOMAIN u : i \in DOMAIN s
                             \/ (i \notin DOMAIN s /\ i - m \in DOMAIN t
                                   /\ u[i] = t[i - m])
  BY <1>1
<1>3. Has(u, X) <=> Has(s, X) \/ Has(t, X)
  <2>1. Has(u, X) => Has(s, X) \/ Has(t, X)
    BY <1>1, <1>2 DEF Has
  <2>2. Has(s, X) => Has(u, X)
    BY <1>1 DEF Has
  <2>3. ASSUME NEW i \in DOMAIN t, t[i] \in X
        PROVE  m + i \in DOMAIN u /\ u[m + i] \in X
    BY <1>1, <2>3
  <2> QED BY <2>1, <2>2, <2>3 DEF Has
<1>4. ASSUME NeverAfter(u, X, Y)
      PROVE  /\ NeverAfter(s, X, Y) /\ NeverAfter(t, X, Y)
             /\ Has(s, X) => ~ Has(t, Y)
  <2>1. NeverAfter(s, X, Y)
    BY <1>1, <1>4 DEF NeverAfter
  <2>2. NeverAfter(t, X, Y)
    <3> SUFFICES ASSUME NEW i \in DOMAIN t, NEW j \in DOMAIN t, i < j, t[i] \in X
                 PROVE  t[j] \notin Y
      BY DEF NeverAfter
    <3>1. /\ m + i \in DOMAIN u /\ m + j \in DOMAIN u /\ m + i < m + j
          /\ u[m + i] = t[i] /\ u[m + j] = t[j]
      BY <1>1
    <3> QED BY <1>4, <3>1 DEF NeverAfter
  <2>3. ASSUME NEW i \in DOMAIN s, NEW j \in DOMAIN t, s[i] \in X
        PROVE  t[j] \notin Y
    <3>1. /\ i \in DOMAIN u /\ m + j \in DOMAIN u /\ i < m + j
          /\ u[i] = s[i] /\ u[m + j] = t[j]
      BY <1>1
    <3> QED BY <1>4, <2>3, <3>1 DEF NeverAfter
  <2> QED BY <2>1, <2>2, <2>3 DEF Has
<1>5. ASSUME NeverAfter(s, X, Y), NeverAfter(t, X, Y),
             Has(s, X) => ~ Has(t, Y)
      PROVE  NeverAfter(u, X, Y)
  <2> SUFFICES ASSUME NEW i \in DOMAIN u, NEW j \in DOMAIN u, i < j, u[i] \in X
               PROVE  u[j] \notin Y
    BY DEF NeverAfter
  <2>1. CASE i \in DOMAIN s /\ j \in DOMAIN s
    BY <1>1, <1>5, <2>1 DEF NeverAfter
  <2>2. CASE i \in DOMAIN s /\ j \notin DOMAIN s
    BY <1>1, <1>2, <1>5, <2>2 DEF Has
  <2>3. CASE i \notin DOMAIN s
    <3>1. j \notin DOMAIN s
      BY <1>1, <2>3
    <3>2. /\ i - m \in DOMAIN t /\ j - m \in DOMAIN t /\ i - m < j - m
          /\ u[i] = t[i - m] /\ u[j] = t[j - m]
      BY <1>1, <1>2, <2>3, <3>1
    <3> QED BY <1>5, <3>2 DEF NeverAfter
  <2> QED BY <2>1, <2>2, <2>3
<1> QED BY <1>3, <1>4, <1>5 DEF u

(* A sequence is its head followed by its tail.                            *)
LEMMA HeadLemma ==
  ASSUME NEW S, NEW s \in Seq(S), s # <<>>, NEW X, NEW Y
  PROVE  /\ Head(s) \in S /\ Tail(s) \in Seq(S)
         /\ Has(s, X) <=> Head(s) \in X \/ Has(Tail(s), X)
         /\ NeverAfter(s, X, Y) <=>
              /\ NeverAfter(Tail(s), X, Y)
              /\ Head(s) \in X => ~ Has(Tail(s), Y)
<1> DEFINE h == <<Head(s)>>
           t == Tail(s)
<1>1. /\ Head(s) \in S /\ h \in Seq(S) /\ t \in Seq(S) /\ s = h \o t
  BY HeadTailProperties
<1>2. /\ Has(h, X) <=> Head(s) \in X
      /\ NeverAfter(h, X, Y)
  BY ShortLemma
<1> HIDE DEF h, t
<1>3. /\ Has(h \o t, X) <=> Has(h, X) \/ Has(t, X)
      /\ NeverAfter(h \o t, X, Y) <=>
              /\ NeverAfter(h, X, Y) /\ NeverAfter(t, X, Y)
              /\ Has(h, X) => ~ Has(t, Y)
  BY <1>1, ConcatLemma
<1>4. /\ Has(s, X) <=> Head(s) \in X \/ Has(t, X)
      /\ NeverAfter(s, X, Y) <=>
              /\ NeverAfter(t, X, Y)
              /\ Head(s) \in X => ~ Has(t, Y)
  BY <1>1, <1>2, <1>3, Zenon
<1> QED BY <1>1, <1>4 DEF t
=============================================================================
