---------------------------- MODULE ListasProofs ----------------------------
(***************************************************************************)
(* What the list operations of Listas do to a list: its type and length,   *)
(* the set of its elements, and that a list without repetitions stays one. *)
(***************************************************************************)
EXTENDS Listas, Integers, SequenceTheorems, FiniteSetTheorems, TLAPS

-----------------------------------------------------------------------------
(* Type and length *)

\* list_remove of an existing position leaves a list one shorter.
LEMMA RemoveAtTipo ==
    ASSUME NEW S, NEW s \in Seq(S), NEW i \in 1..Len(s)
    PROVE  RemoveAt(s, i) \in Seq(S) /\ Len(RemoveAt(s, i)) = Len(s) - 1
<1> DEFINE antes == SubSeq(s, 1, i - 1)
           despues == SubSeq(s, i + 1, Len(s))
<1>1. antes \in Seq(S) /\ Len(antes) = i - 1
  BY SubSeqProperties
<1>2. despues \in Seq(S) /\ Len(despues) = Len(s) - i
  BY SubSeqProperties
<1>3. RemoveAt(s, i) = antes \o despues
  BY DEF RemoveAt
<1> HIDE DEF antes, despues
<1>4. antes \o despues \in Seq(S) /\ Len(antes \o despues) = Len(antes) + Len(despues)
  BY <1>1, <1>2, ConcatProperties
<1>5. QED
  BY <1>1, <1>2, <1>3, <1>4

\* An insertion leaves a list one longer.
LEMMA InsertAtTipo ==
    ASSUME NEW S, NEW s \in Seq(S), NEW i \in 1..Len(s) + 1, NEW x \in S
    PROVE  InsertAt(s, i, x) \in Seq(S) /\ Len(InsertAt(s, i, x)) = Len(s) + 1
<1> DEFINE antes == SubSeq(s, 1, i - 1)
           despues == SubSeq(s, i, Len(s))
           uno == <<x>>
<1>1. antes \in Seq(S) /\ Len(antes) = i - 1
  BY SubSeqProperties
<1>2. despues \in Seq(S) /\ Len(despues) = Len(s) - i + 1
  BY SubSeqProperties
<1>3. uno \in Seq(S) /\ Len(uno) = 1
  OBVIOUS
<1>4. InsertAt(s, i, x) = antes \o uno \o despues
  BY DEF InsertAt
<1> HIDE DEF antes, despues, uno
<1>5. antes \o uno \in Seq(S) /\ Len(antes \o uno) = Len(antes) + Len(uno)
  BY <1>1, <1>3, ConcatProperties
<1>6. /\ antes \o uno \o despues \in Seq(S)
      /\ Len(antes \o uno \o despues) = Len(antes \o uno) + Len(despues)
  BY <1>2, <1>5, ConcatProperties
<1>7. QED
  BY <1>1, <1>2, <1>3, <1>4, <1>5, <1>6

\* list_add_in_index lengthens the list exactly when the position is not
\* beyond its end, and leaves it as it was otherwise.
LEMMA ListAddInIndexTipo ==
    ASSUME NEW S, NEW s \in Seq(S), NEW pos \in Nat, NEW x \in S
    PROVE  /\ ListAddInIndex(s, pos, x) \in Seq(S)
           /\ Len(ListAddInIndex(s, pos, x)) = IF pos <= Len(s) THEN Len(s) + 1 ELSE Len(s)
<1>1. CASE pos > Len(s)
  BY <1>1 DEF ListAddInIndex
<1>2. CASE pos <= Len(s)
  <2>1. pos + 1 \in 1..Len(s) + 1
    BY <1>2
  <2>2. ListAddInIndex(s, pos, x) = InsertAt(s, pos + 1, x)
    BY <1>2 DEF ListAddInIndex
  <2>3. QED
    BY <1>2, <2>1, <2>2, InsertAtTipo
<1>3. QED
  BY <1>1, <1>2

\* list_sort keeps the length of the list.
LEMMA ListSortTipo ==
    ASSUME NEW S, NEW s \in Seq(S), NEW clave, NEW t \in ListSort(s, clave)
    PROVE  t \in Seq(S) /\ Len(t) = Len(s)
<1>1. PICK f \in Bijection(DOMAIN s, DOMAIN s) : t = [i \in DOMAIN s |-> s[f[i]]]
  BY DEF ListSort
<1>2. f \in [DOMAIN s -> DOMAIN s]
  BY DEF Bijection, Injection
<1>3. DOMAIN s = 1..Len(s) /\ Len(s) \in Nat
  OBVIOUS
<1>4. t \in [1..Len(s) -> S]
  BY <1>1, <1>2, <1>3
<1>5. QED
  BY <1>3, <1>4

-----------------------------------------------------------------------------
(* Elements and repetitions *)

SinRepetir(s) == \A i, j \in DOMAIN s : s[i] = s[j] => i = j

\* A list without its first element keeps the others.
LEMMA TailElementos ==
    ASSUME NEW S, NEW s \in Seq(S), s # <<>>
    PROVE  /\ ToSet(s) = ToSet(Tail(s)) \cup {Head(s)}
           /\ SinRepetir(s) => SinRepetir(Tail(s)) /\ Head(s) \notin ToSet(Tail(s))
<1>1. /\ Len(s) \in Nat /\ Len(s) > 0 /\ DOMAIN s = 1..Len(s)
      /\ DOMAIN Tail(s) = 1..Len(s) - 1 /\ Head(s) = s[1]
      /\ \A i \in 1..Len(s) - 1 : Tail(s)[i] = s[i + 1]
  BY LenProperties, HeadTailProperties
<1>2. ToSet(s) \subseteq ToSet(Tail(s)) \cup {Head(s)}
  <2>1. SUFFICES ASSUME NEW i \in 1..Len(s) PROVE s[i] \in ToSet(Tail(s)) \cup {Head(s)}
    BY <1>1 DEF ToSet
  <2>2. CASE i = 1
    BY <1>1, <2>2
  <2>3. CASE i # 1
    <3>1. i - 1 \in 1..Len(s) - 1 /\ Tail(s)[i - 1] = s[i]
      BY <1>1, <2>3
    <3>2. QED
      BY <1>1, <3>1 DEF ToSet
  <2>4. QED
    BY <2>2, <2>3
<1>3. ToSet(Tail(s)) \cup {Head(s)} \subseteq ToSet(s)
  BY <1>1 DEF ToSet
<1>4. ASSUME SinRepetir(s) PROVE SinRepetir(Tail(s)) /\ Head(s) \notin ToSet(Tail(s))
  BY <1>1, <1>4 DEF SinRepetir, ToSet
<1>5. QED
  BY <1>2, <1>3, <1>4

\* An element added at the end joins the others.
LEMMA AppendElementos ==
    ASSUME NEW S, NEW s \in Seq(S), NEW x \in S
    PROVE  /\ ToSet(Append(s, x)) = ToSet(s) \cup {x}
           /\ SinRepetir(s) /\ x \notin ToSet(s) => SinRepetir(Append(s, x))
<1>1. /\ Len(s) \in Nat /\ DOMAIN s = 1..Len(s)
      /\ DOMAIN Append(s, x) = 1..Len(s) + 1 /\ Append(s, x)[Len(s) + 1] = x
      /\ \A i \in 1..Len(s) : Append(s, x)[i] = s[i]
  BY LenProperties, AppendProperties
<1>2. ToSet(Append(s, x)) = ToSet(s) \cup {x}
  BY <1>1 DEF ToSet
<1>3. ASSUME SinRepetir(s), x \notin ToSet(s) PROVE SinRepetir(Append(s, x))
  <2>1. \A i \in 1..Len(s) : s[i] # x
    BY <1>1, <1>3 DEF ToSet
  <2>2. QED
    BY <1>1, <1>3, <2>1 DEF SinRepetir
<1>4. QED
  BY <1>2, <1>3

\* An insertion puts one element before position i and moves the rest by one.
LEMMA InsertAtElementos ==
    ASSUME NEW S, NEW s \in Seq(S), NEW i \in 1..Len(s) + 1, NEW x \in S
    PROVE  /\ ToSet(InsertAt(s, i, x)) = ToSet(s) \cup {x}
           /\ SinRepetir(s) /\ x \notin ToSet(s) => SinRepetir(InsertAt(s, i, x))
<1> DEFINE t == InsertAt(s, i, x)
<1>1. /\ Len(s) \in Nat /\ DOMAIN s = 1..Len(s)
      /\ t \in Seq(S) /\ Len(t) = Len(s) + 1 /\ DOMAIN t = 1..Len(s) + 1
  BY LenProperties, InsertAtTipo
<1>2. /\ \A j \in 1..i - 1 : t[j] = s[j]
      /\ t[i] = x
      /\ \A j \in i + 1..Len(s) + 1 : t[j] = s[j - 1]
  <2> DEFINE antes == SubSeq(s, 1, i - 1)
             despues == SubSeq(s, i, Len(s))
             uno == <<x>>
  <2>1. /\ antes \in Seq(S) /\ Len(antes) = i - 1
        /\ \A j \in 1..i - 1 : antes[j] = s[j]
    BY SubSeqProperties
  <2>2. /\ despues \in Seq(S) /\ Len(despues) = Len(s) - i + 1
        /\ \A j \in 1..Len(s) - i + 1 : despues[j] = s[i + j - 1]
    BY SubSeqProperties
  <2>3. uno \in Seq(S) /\ Len(uno) = 1 /\ uno[1] = x
    OBVIOUS
  <2>4. t = antes \o uno \o despues
    BY DEF InsertAt
  <2> HIDE DEF antes, despues, uno
  <2>5. /\ antes \o uno \in Seq(S) /\ Len(antes \o uno) = i
        /\ \A j \in 1..i - 1 : (antes \o uno)[j] = antes[j]
        /\ (antes \o uno)[i] = x
    <3>1. /\ antes \o uno \in Seq(S)
          /\ Len(antes \o uno) = Len(antes) + Len(uno)
          /\ \A j \in 1..Len(antes) + Len(uno) :
                (antes \o uno)[j] = IF j <= Len(antes) THEN antes[j] ELSE uno[j - Len(antes)]
      BY <2>1, <2>3, ConcatProperties
    <3>2. i \in Nat /\ i - (i - 1) = 1 /\ i - 1 + 1 = i
      BY <1>1
    <3>3. QED
      BY <2>1, <2>3, <3>1, <3>2
  <2> DEFINE ini == antes \o uno
  <2> HIDE DEF ini
  <2>6. /\ ini \in Seq(S) /\ Len(ini) = i /\ t = ini \o despues
        /\ \A j \in 1..i - 1 : ini[j] = s[j]
        /\ ini[i] = x
    BY <2>1, <2>4, <2>5 DEF ini
  <2> HIDE DEF t
  <2>7. \A j \in 1..i : t[j] = ini[j]
    BY <2>2, <2>6, ConcatProperties
  <2>8. \A j \in i + 1..Len(s) + 1 : t[j] = despues[j - i]
    BY <1>1, <2>2, <2>6, ConcatProperties
  <2>9. \A j \in i + 1..Len(s) + 1 : j - i \in 1..Len(s) - i + 1 /\ i + (j - i) - 1 = j - 1
    BY <1>1
  <2>10. \A j \in i + 1..Len(s) + 1 : t[j] = s[j - 1]
    BY <2>2, <2>8, <2>9
  <2>11. QED
    BY <1>1, <2>6, <2>7, <2>10
<1> HIDE DEF t
<1>3. ToSet(t) \subseteq ToSet(s) \cup {x}
  <2>1. ASSUME NEW j \in 1..Len(s) + 1 PROVE t[j] \in ToSet(s) \cup {x}
    <3>1. CASE j < i
      BY <1>1, <1>2, <3>1 DEF ToSet
    <3>2. CASE j = i
      BY <1>2, <3>2
    <3>3. CASE j > i
      <4>1. j - 1 \in 1..Len(s) /\ t[j] = s[j - 1]
        BY <1>1, <1>2, <3>3
      <4>2. QED
        BY <1>1, <4>1 DEF ToSet
    <3>4. QED
      BY <1>1, <3>1, <3>2, <3>3
  <2>2. QED
    BY <1>1, <2>1 DEF ToSet
<1>4. ToSet(s) \cup {x} \subseteq ToSet(t)
  <2>1. ASSUME NEW j \in 1..Len(s) PROVE s[j] \in ToSet(t)
    <3>1. CASE j < i
      BY <1>1, <1>2, <3>1 DEF ToSet
    <3>2. CASE j >= i
      <4>1. j + 1 \in i + 1..Len(s) + 1 /\ t[j + 1] = s[j]
        BY <1>1, <1>2, <3>2
      <4>2. QED
        BY <1>1, <4>1 DEF ToSet
    <3>3. QED
      BY <1>1, <3>1, <3>2
  <2>2. x \in ToSet(t)
    BY <1>1, <1>2 DEF ToSet
  <2>3. QED
    BY <1>1, <2>1, <2>2 DEF ToSet
<1>5. ASSUME SinRepetir(s), x \notin ToSet(s) PROVE SinRepetir(t)
  <2>1. \A j \in 1..Len(s) : s[j] # x
    BY <1>1, <1>5 DEF ToSet
  <2>2. \A j, k \in 1..Len(s) : s[j] = s[k] => j = k
    BY <1>1, <1>5 DEF SinRepetir
  <2>3. SUFFICES ASSUME NEW j \in 1..Len(s) + 1, NEW k \in 1..Len(s) + 1, t[j] = t[k]
                 PROVE  j = k
    BY <1>1 DEF SinRepetir
  <2>4. CASE j < i
    BY <1>1, <1>2, <2>1, <2>2, <2>3, <2>4
  <2>5. CASE j = i
    BY <1>1, <1>2, <2>1, <2>2, <2>3, <2>5
  <2>6. CASE j > i
    <3>1. t[j] = s[j - 1] /\ j - 1 \in 1..Len(s) /\ j - 1 >= i
      BY <1>1, <1>2, <2>6
    <3>2. CASE k < i
      <4>1. k \in 1..Len(s)
        BY <2>3, <3>2
      <4>2. t[k] = s[k]
        BY <1>2, <2>3, <3>2
      <4>3. s[j - 1] = s[k]
        BY <2>3, <3>1, <4>2
      <4>4. j - 1 = k
        BY <2>2, <3>1, <4>1, <4>3
      <4>5. QED
        BY <2>3, <3>1, <3>2, <4>4
    <3>3. CASE k = i
      BY <1>2, <2>1, <2>3, <3>1, <3>3
    <3>4. CASE k > i
      <4>1. k - 1 \in 1..Len(s)
        BY <2>3, <3>4
      <4>2. t[k] = s[k - 1]
        BY <1>2, <2>3, <3>4
      <4>3. s[j - 1] = s[k - 1]
        BY <2>3, <3>1, <4>2
      <4>4. j - 1 = k - 1
        BY <2>2, <3>1, <4>1, <4>3
      <4>5. QED
        BY <2>3, <4>4
    <3>5. QED
      BY <1>1, <3>2, <3>3, <3>4
  <2>7. QED
    BY <1>1, <2>4, <2>5, <2>6
<1>6. QED
  BY <1>3, <1>4, <1>5 DEF t

\* An insertion of list_add_in_index adds the element if the position is not
\* beyond the end, and nothing otherwise.
LEMMA ListAddInIndexElementos ==
    ASSUME NEW S, NEW s \in Seq(S), NEW pos \in Nat, NEW x \in S
    PROVE  /\ ToSet(ListAddInIndex(s, pos, x)) = IF pos <= Len(s) THEN ToSet(s) \cup {x} ELSE ToSet(s)
           /\ SinRepetir(s) /\ x \notin ToSet(s) => SinRepetir(ListAddInIndex(s, pos, x))
<1>1. CASE pos > Len(s)
  BY <1>1 DEF ListAddInIndex
<1>2. CASE pos <= Len(s)
  <2>1. pos + 1 \in 1..Len(s) + 1
    BY <1>2
  <2>2. ListAddInIndex(s, pos, x) = InsertAt(s, pos + 1, x)
    BY <1>2 DEF ListAddInIndex
  <2>3. QED
    BY <1>2, <2>1, <2>2, InsertAtElementos
<1>3. QED
  BY <1>1, <1>2

\* What list_remove of position i leaves at each position.
LEMMA RemoveAtPosiciones ==
    ASSUME NEW S, NEW s \in Seq(S), NEW i \in 1..Len(s)
    PROVE  /\ RemoveAt(s, i) \in Seq(S) /\ Len(RemoveAt(s, i)) = Len(s) - 1
           /\ \A j \in 1..Len(s) - 1 : RemoveAt(s, i)[j] = IF j < i THEN s[j] ELSE s[j + 1]
<1> DEFINE t == RemoveAt(s, i)
<1>t. /\ Len(s) \in Nat /\ DOMAIN s = 1..Len(s)
      /\ t \in Seq(S) /\ Len(t) = Len(s) - 1 /\ DOMAIN t = 1..Len(s) - 1
  BY LenProperties, RemoveAtTipo
<1> DEFINE antes == SubSeq(s, 1, i - 1)
           despues == SubSeq(s, i + 1, Len(s))
<1>1. /\ antes \in Seq(S) /\ Len(antes) = i - 1
      /\ \A j \in 1..i - 1 : antes[j] = s[j]
  BY SubSeqProperties
<1>2. /\ despues \in Seq(S) /\ Len(despues) = Len(s) - i
      /\ \A j \in 1..Len(s) - i : despues[j] = s[i + j]
  <2>1. /\ despues \in Seq(S) /\ Len(despues) = Len(s) - i
        /\ \A j \in 1..Len(s) - i : despues[j] = s[(i + 1) + j - 1]
    BY SubSeqProperties
  <2>2. \A j \in 1..Len(s) - i : (i + 1) + j - 1 = i + j
    BY <1>t
  <2>3. QED
    BY <2>1, <2>2
<1>3. t = antes \o despues
  BY DEF RemoveAt
<1> HIDE DEF antes, despues, t
<1>4. \A j \in 1..Len(s) - 1 : t[j] = IF j <= i - 1 THEN antes[j] ELSE despues[j - (i - 1)]
  <2>1. \A j \in 1..Len(antes) + Len(despues) :
           (antes \o despues)[j] = IF j <= Len(antes) THEN antes[j] ELSE despues[j - Len(antes)]
    BY <1>1, <1>2, ConcatProperties
  <2>2. i \in Nat /\ (i - 1) + (Len(s) - i) = Len(s) - 1
    BY <1>t
  <2>3. QED
    BY <1>1, <1>2, <1>3, <2>1, <2>2
<1>5. SUFFICES ASSUME NEW j \in 1..Len(s) - 1 PROVE t[j] = IF j < i THEN s[j] ELSE s[j + 1]
  BY <1>t DEF t
<1>6. CASE j < i
  BY <1>t, <1>1, <1>4, <1>6
<1>7. CASE j >= i
  <2>1. j - (i - 1) \in 1..Len(s) - i /\ i + (j - (i - 1)) = j + 1
    BY <1>t, <1>7
  <2>2. t[j] = despues[j - (i - 1)]
    BY <1>t, <1>4, <1>7
  <2>3. despues[j - (i - 1)] = s[i + (j - (i - 1))]
    BY <1>2, <2>1
  <2>4. QED
    BY <1>t, <1>7, <2>1, <2>2, <2>3
<1>8. QED
  BY <1>t, <1>6, <1>7

\* list_remove of position i takes out that element and no other.
LEMMA RemoveAtElementos ==
    ASSUME NEW S, NEW s \in Seq(S), NEW i \in 1..Len(s)
    PROVE  /\ ToSet(s) = ToSet(RemoveAt(s, i)) \cup {s[i]}
           /\ SinRepetir(s) => SinRepetir(RemoveAt(s, i)) /\ s[i] \notin ToSet(RemoveAt(s, i))
<1> DEFINE t == RemoveAt(s, i)
<1>1. /\ Len(s) \in Nat /\ DOMAIN s = 1..Len(s)
      /\ t \in Seq(S) /\ Len(t) = Len(s) - 1 /\ DOMAIN t = 1..Len(s) - 1
  BY LenProperties, RemoveAtTipo
<1>2. \A j \in 1..Len(s) - 1 : t[j] = IF j < i THEN s[j] ELSE s[j + 1]
  BY RemoveAtPosiciones
<1> HIDE DEF t
<1>3. ToSet(t) \subseteq ToSet(s)
  <2>1. SUFFICES ASSUME NEW j \in 1..Len(s) - 1 PROVE t[j] \in ToSet(s)
    BY <1>1 DEF ToSet
  <2>2. j \in 1..Len(s) /\ j + 1 \in 1..Len(s)
    BY <1>1
  <2>3. QED
    BY <1>1, <1>2, <2>2 DEF ToSet
<1>4. ToSet(s) \subseteq ToSet(t) \cup {s[i]}
  <2>1. SUFFICES ASSUME NEW j \in 1..Len(s), j # i PROVE s[j] \in ToSet(t)
    BY <1>1 DEF ToSet
  <2>2. CASE j < i
    BY <1>1, <1>2, <2>2 DEF ToSet
  <2>3. CASE j > i
    <3>1. j - 1 \in 1..Len(s) - 1 /\ t[j - 1] = s[j]
      BY <1>1, <1>2, <2>3
    <3>2. QED
      BY <1>1, <3>1 DEF ToSet
  <2>4. QED
    BY <1>1, <2>1, <2>2, <2>3
<1>5. ASSUME SinRepetir(s) PROVE SinRepetir(t) /\ s[i] \notin ToSet(t)
  <2>1. \A j, k \in 1..Len(s) : s[j] = s[k] => j = k
    BY <1>1, <1>5 DEF SinRepetir
  <2>2. SinRepetir(t)
    <3>1. SUFFICES ASSUME NEW j \in 1..Len(s) - 1, NEW k \in 1..Len(s) - 1, t[j] = t[k]
                   PROVE  j = k
      BY <1>1 DEF SinRepetir
    <3>2. CASE j < i
      BY <1>1, <1>2, <2>1, <3>1, <3>2
    <3>3. CASE j >= i
      BY <1>1, <1>2, <2>1, <3>1, <3>3
    <3>4. QED
      BY <1>1, <3>2, <3>3
  <2>3. \A j \in 1..Len(s) - 1 : t[j] # s[i]
    BY <1>1, <1>2, <2>1
  <2>4. QED
    BY <1>1, <2>2, <2>3 DEF ToSet
<1>6. s[i] \in ToSet(s)
  BY <1>1 DEF ToSet
<1>7. QED
  BY <1>3, <1>4, <1>5, <1>6 DEF t

\* list_sort keeps the elements, and leaves them in ascending order.
LEMMA ListSortElementos ==
    ASSUME NEW S, NEW s \in Seq(S), NEW clave, NEW t \in ListSort(s, clave)
    PROVE  /\ ToSet(t) = ToSet(s)
           /\ SinRepetir(s) => SinRepetir(t)
           /\ \A i, j \in DOMAIN t : i < j => clave[t[i]] <= clave[t[j]]
<1>1. PICK f \in Bijection(DOMAIN s, DOMAIN s) : t = [i \in DOMAIN s |-> s[f[i]]]
  BY DEF ListSort
<1>2. /\ f \in [DOMAIN s -> DOMAIN s]
      /\ \A i, j \in DOMAIN s : f[i] = f[j] => i = j
      /\ \A k \in DOMAIN s : \E i \in DOMAIN s : f[i] = k
  BY DEF Bijection, Injection, Surjection, IsInjective
<1>3. DOMAIN t = DOMAIN s /\ \A i \in DOMAIN s : t[i] = s[f[i]]
  BY <1>1
<1>4. ToSet(t) = ToSet(s)
  BY <1>2, <1>3 DEF ToSet
<1>5. SinRepetir(s) => SinRepetir(t)
  BY <1>2, <1>3 DEF SinRepetir
<1>6. \A i, j \in DOMAIN t : i < j => clave[t[i]] <= clave[t[j]]
  BY <1>3 DEF ListSort
<1>7. QED
  BY <1>4, <1>5, <1>6

-----------------------------------------------------------------------------
(* How many times an element is in a list *)

Veces(s, x) == Cardinality({i \in DOMAIN s : s[i] = x})

\* The positions that are counted are finitely many.
LEMMA VecesTipo == ASSUME NEW S, NEW s \in Seq(S), NEW x
                   PROVE  IsFiniteSet({i \in DOMAIN s : s[i] = x}) /\ Veces(s, x) \in Nat
<1>1. DOMAIN s = 1..Len(s) /\ Len(s) \in Nat
  BY LenProperties
<1>2. IsFiniteSet(DOMAIN s)
  BY <1>1, FS_Interval
<1>3. {i \in DOMAIN s : s[i] = x} \subseteq DOMAIN s
  OBVIOUS
<1>4. IsFiniteSet({i \in DOMAIN s : s[i] = x})
  BY <1>2, <1>3, FS_Subset
<1>5. QED
  BY <1>4, FS_CardinalityType DEF Veces

\* A list that is another without its position i has that element once less.
LEMMA VecesSin ==
    ASSUME NEW S, NEW s \in Seq(S), NEW i \in 1..Len(s), NEW t \in Seq(S), Len(t) = Len(s) - 1,
           \A j \in 1..Len(s) - 1 : t[j] = IF j < i THEN s[j] ELSE s[j + 1],
           NEW x
    PROVE  Veces(s, x) = Veces(t, x) + (IF s[i] = x THEN 1 ELSE 0)
<1> DEFINE U == {j \in DOMAIN t : t[j] = x}
           V == {j \in DOMAIN s : s[j] = x}
           f == [j \in U |-> IF j < i THEN j ELSE j + 1]
<1>1. Len(s) \in Nat /\ i \in Nat /\ DOMAIN s = 1..Len(s) /\ DOMAIN t = 1..Len(s) - 1
  BY LenProperties
<1>2. f \in Bijection(U, V \ {i})
  <2>1. ASSUME NEW j \in U PROVE f[j] \in V \ {i}
    BY <1>1
  <2>2. ASSUME NEW j \in U, NEW k \in U, f[j] = f[k] PROVE j = k
    BY <1>1, <2>2
  <2>3. ASSUME NEW k \in V \ {i} PROVE \E j \in U : f[j] = k
    <3>1. CASE k < i
      <4>1. k \in U /\ f[k] = k
        BY <1>1, <2>3, <3>1
      <4>2. QED
        BY <4>1
    <3>2. CASE k > i
      <4>1. k - 1 \in U /\ f[k - 1] = k
        BY <1>1, <2>3, <3>2
      <4>2. QED
        BY <4>1
    <3>3. k \in 1..Len(s) /\ k # i
      BY <1>1
    <3>4. k < i \/ k > i
      BY <1>1, <3>3
    <3>5. QED
      BY <3>1, <3>2, <3>4
  <2>4. QED
    BY <2>1, <2>2, <2>3 DEF Bijection, Injection, Surjection, IsInjective
<1>3. IsFiniteSet(U) /\ IsFiniteSet(V) /\ Cardinality(U) \in Nat /\ Cardinality(V) \in Nat
  BY VecesTipo DEF Veces
<1>4. Cardinality(V \ {i}) = Cardinality(U)
  BY <1>2, <1>3, FS_Bijection DEF ExistsBijection
<1>5. Cardinality(V \ {i}) = IF i \in V THEN Cardinality(V) - 1 ELSE Cardinality(V)
  BY <1>3, FS_RemoveElement
<1>6. i \in V <=> s[i] = x
  BY <1>1
<1> HIDE DEF U, V
<1>7. Cardinality(V) = Cardinality(U) + (IF s[i] = x THEN 1 ELSE 0)
  BY <1>3, <1>4, <1>5, <1>6
<1>8. QED
  BY <1>7 DEF Veces, U, V

\* Appending an element changes the count of that element only.
LEMMA VecesAppend ==
    ASSUME NEW S, NEW s \in Seq(S), NEW y \in S, NEW x
    PROVE  Veces(Append(s, y), x) = Veces(s, x) + (IF y = x THEN 1 ELSE 0)
<1> DEFINE t == Append(s, y)
<1>1. /\ t \in Seq(S) /\ Len(t) = Len(s) + 1 /\ Len(s) \in Nat /\ t[Len(s) + 1] = y
      /\ \A j \in 1..Len(s) : t[j] = s[j]
  BY LenProperties, AppendProperties
<1> HIDE DEF t
<1>2. /\ Len(s) + 1 \in 1..Len(t) /\ Len(s) = Len(t) - 1
      /\ \A j \in 1..Len(t) - 1 : s[j] = IF j < Len(s) + 1 THEN t[j] ELSE t[j + 1]
  BY <1>1
<1>3. Veces(t, x) = Veces(s, x) + (IF t[Len(s) + 1] = x THEN 1 ELSE 0)
  BY <1>1, <1>2, VecesSin
<1>4. QED
  BY <1>1, <1>3 DEF t

\* So does taking the head of the list.
LEMMA VecesTail ==
    ASSUME NEW S, NEW s \in Seq(S), s # <<>>, NEW x
    PROVE  Veces(s, x) = Veces(Tail(s), x) + (IF Head(s) = x THEN 1 ELSE 0)
<1> DEFINE t == Tail(s)
<1>1. t \in Seq(S) /\ Len(t) = Len(s) - 1 /\ \A j \in 1..Len(s) - 1 : t[j] = s[j + 1]
  BY HeadTailProperties
<1>2. Len(s) \in Nat /\ Len(s) > 0 /\ Head(s) = s[1]
  BY LenProperties, HeadTailProperties
<1> HIDE DEF t
<1>3. 1 \in 1..Len(s) /\ \A j \in 1..Len(s) - 1 : t[j] = IF j < 1 THEN s[j] ELSE s[j + 1]
  BY <1>1, <1>2
<1>4. Veces(s, x) = Veces(t, x) + (IF s[1] = x THEN 1 ELSE 0)
  BY <1>1, <1>3, VecesSin
<1>5. QED
  BY <1>2, <1>4 DEF t

\* So does list_remove, with the element at that position.
LEMMA VecesRemoveAt ==
    ASSUME NEW S, NEW s \in Seq(S), NEW i \in 1..Len(s), NEW x
    PROVE  Veces(s, x) = Veces(RemoveAt(s, i), x) + (IF s[i] = x THEN 1 ELSE 0)
<1> DEFINE t == RemoveAt(s, i)
<1>1. /\ t \in Seq(S) /\ Len(t) = Len(s) - 1
      /\ \A j \in 1..Len(s) - 1 : t[j] = IF j < i THEN s[j] ELSE s[j + 1]
  BY RemoveAtPosiciones
<1> HIDE DEF t
<1>2. Veces(s, x) = Veces(t, x) + (IF s[i] = x THEN 1 ELSE 0)
  BY <1>1, VecesSin
<1>3. QED
  BY <1>2 DEF t

\* What is not in a list is there no times.
LEMMA VecesNinguna == ASSUME NEW s, NEW x, \A i \in DOMAIN s : s[i] # x PROVE Veces(s, x) = 0
<1>1. {i \in DOMAIN s : s[i] = x} = {}
  OBVIOUS
<1>2. QED
  BY <1>1, FS_EmptySet DEF Veces
=============================================================================
