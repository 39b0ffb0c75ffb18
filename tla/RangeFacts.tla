------------------------------ MODULE RangeFacts ------------------------------
(***************************************************************************)
(* What appending, concatenating, taking the head of a sequence, and       *)
(* taking out or replacing one element do to the set of what it shows, and *)
(* to the order of what each source has in it: used for the streams of     *)
(* both fan-outs and for the requests that a page has in flight.           *)
(***************************************************************************)
EXTENDS Naturals, Sequences, Functions, TLAPS

LEMMA RangeAppend ==
  ASSUME NEW S, NEW s \in Seq(S), NEW x \in S
  PROVE  Range(Append(s, x)) = Range(s) \cup {x}
<1>1. /\ DOMAIN Append(s, x) = 1 .. Len(s) + 1 /\ DOMAIN s = 1 .. Len(s)
      /\ \A i \in 1 .. Len(s) : Append(s, x)[i] = s[i]
      /\ Append(s, x)[Len(s) + 1] = x /\ Len(s) \in Nat
  OBVIOUS
<1>2. 1 .. Len(s) + 1 = (1 .. Len(s)) \cup {Len(s) + 1}
  BY <1>1
<1>. QED
  BY <1>1, <1>2 DEF Range

LEMMA RangeConcat ==
  ASSUME NEW S, NEW s \in Seq(S), NEW t \in Seq(S)
  PROVE  Range(s \o t) = Range(s) \cup Range(t)
<1>1. /\ Len(s) \in Nat /\ Len(t) \in Nat
      /\ DOMAIN (s \o t) = 1 .. Len(s) + Len(t)
      /\ DOMAIN s = 1 .. Len(s) /\ DOMAIN t = 1 .. Len(t)
      /\ \A i \in 1 .. Len(s) : (s \o t)[i] = s[i]
      /\ \A i \in 1 .. Len(t) : (s \o t)[Len(s) + i] = t[i]
  OBVIOUS
<1>2. ASSUME NEW i \in 1 .. Len(s) + Len(t)
      PROVE  i \in 1 .. Len(s) \/ \E j \in 1 .. Len(t) : i = Len(s) + j
  <2>1. i \notin 1 .. Len(s) => i - Len(s) \in 1 .. Len(t) /\ i = Len(s) + (i - Len(s))
    BY <1>1
  <2>. QED
    BY <2>1
<1>3. \A i \in 1 .. Len(s) : i \in 1 .. Len(s) + Len(t)
  BY <1>1
<1>4. \A i \in 1 .. Len(t) : Len(s) + i \in 1 .. Len(s) + Len(t)
  BY <1>1
<1>5. ASSUME NEW x \in Range(s \o t) PROVE x \in Range(s) \cup Range(t)
  <2>1. PICK i \in 1 .. Len(s) + Len(t) : x = (s \o t)[i]
    BY <1>1 DEF Range
  <2>2. CASE i \in 1 .. Len(s)
    BY <1>1, <2>1, <2>2 DEF Range
  <2>3. CASE \E j \in 1 .. Len(t) : i = Len(s) + j
    BY <1>1, <2>1, <2>3 DEF Range
  <2>. QED
    BY <1>2, <2>2, <2>3
<1>6. ASSUME NEW x \in Range(s) PROVE x \in Range(s \o t)
  BY <1>1, <1>3 DEF Range
<1>7. ASSUME NEW x \in Range(t) PROVE x \in Range(s \o t)
  <2>1. PICK j \in 1 .. Len(t) : x = t[j]
    BY <1>1 DEF Range
  <2>2. x = (s \o t)[Len(s) + j] /\ Len(s) + j \in DOMAIN (s \o t)
    BY <1>1, <1>4, <2>1
  <2>. QED
    BY <2>2 DEF Range
<1>. QED
  BY <1>5, <1>6, <1>7

LEMMA RangeHeadTail ==
  ASSUME NEW S, NEW s \in Seq(S), s # <<>>
  PROVE  /\ Head(s) \in S /\ Tail(s) \in Seq(S) /\ Len(Tail(s)) = Len(s) - 1
         /\ Range(s) = {Head(s)} \cup Range(Tail(s))
<1>1. /\ Head(s) \in S /\ Tail(s) \in Seq(S) /\ Len(s) \in Nat \ {0}
      /\ Len(Tail(s)) = Len(s) - 1 /\ Head(s) = s[1]
      /\ DOMAIN s = 1 .. Len(s) /\ DOMAIN Tail(s) = 1 .. Len(s) - 1
      /\ \A i \in 1 .. Len(s) - 1 : Tail(s)[i] = s[i + 1]
  OBVIOUS
<1>2. ASSUME NEW i \in 1 .. Len(s)
      PROVE  i = 1 \/ \E j \in 1 .. Len(s) - 1 : i = j + 1
  <2>1. i # 1 => i - 1 \in 1 .. Len(s) - 1 /\ i = (i - 1) + 1
    BY <1>1
  <2>. QED
    BY <2>1
<1>3. 1 \in 1 .. Len(s) /\ \A j \in 1 .. Len(s) - 1 : j + 1 \in 1 .. Len(s)
  BY <1>1
<1>4. ASSUME NEW x \in Range(s) PROVE x \in {Head(s)} \cup Range(Tail(s))
  <2>1. PICK i \in 1 .. Len(s) : x = s[i]
    BY <1>1 DEF Range
  <2>2. CASE \E j \in 1 .. Len(s) - 1 : i = j + 1
    BY <1>1, <2>1, <2>2 DEF Range
  <2>. QED
    BY <1>1, <1>2, <2>1, <2>2
<1>5. Head(s) \in Range(s)
  BY <1>1, <1>3 DEF Range
<1>6. ASSUME NEW x \in Range(Tail(s)) PROVE x \in Range(s)
  <2>1. PICK j \in 1 .. Len(s) - 1 : x = Tail(s)[j]
    BY <1>1 DEF Range
  <2>2. x = s[j + 1] /\ j + 1 \in DOMAIN s
    BY <1>1, <1>3, <2>1
  <2>. QED
    BY <2>2 DEF Range
<1>. QED
  BY <1>1, <1>4, <1>5, <1>6

LEMMA RangeIn == ASSUME NEW S, NEW s \in Seq(S) PROVE Range(s) \subseteq S
BY DEF Range

(* Taking out one element: this is RemoveAt of SequencesExt.               *)
LEMMA RangeWithout ==
  ASSUME NEW S, NEW s \in Seq(S), NEW k \in DOMAIN s
  PROVE  LET t == SubSeq(s, 1, k - 1) \o SubSeq(s, k + 1, Len(s)) IN
         /\ t \in Seq(S)
         /\ Range(t) = {s[j] : j \in DOMAIN s \ {k}}
<1>. DEFINE a == SubSeq(s, 1, k - 1)
            b == SubSeq(s, k + 1, Len(s))
<1>1. /\ Len(s) \in Nat /\ k \in 1 .. Len(s) /\ DOMAIN s = 1 .. Len(s)
      /\ a \in Seq(S) /\ b \in Seq(S)
      /\ DOMAIN a = 1 .. k - 1 /\ \A j \in 1 .. k - 1 : a[j] = s[j]
  OBVIOUS
<1>2. /\ DOMAIN b = 1 .. Len(s) - k
      /\ \A j \in 1 .. Len(s) - k : b[j] = s[k + j]
  BY <1>1
<1>. HIDE DEF a, b
<1>3. Range(a \o b) = Range(a) \cup Range(b)
  BY <1>1, RangeConcat
<1>4. ASSUME NEW x \in Range(a) PROVE x \in {s[j] : j \in DOMAIN s \ {k}}
  <2>1. PICK j \in 1 .. k - 1 : x = s[j]
    BY <1>1 DEF Range
  <2>2. j \in DOMAIN s \ {k}
    BY <1>1
  <2>. QED
    BY <2>1, <2>2
<1>5. ASSUME NEW x \in Range(b) PROVE x \in {s[j] : j \in DOMAIN s \ {k}}
  <2>1. PICK j \in 1 .. Len(s) - k : x = s[k + j]
    BY <1>2 DEF Range
  <2>2. k + j \in DOMAIN s \ {k}
    BY <1>1
  <2>. QED
    BY <2>1, <2>2
<1>6. ASSUME NEW j \in DOMAIN s \ {k} PROVE s[j] \in Range(a) \cup Range(b)
  <2>1. CASE j < k
    <3>1. j \in 1 .. k - 1
      BY <1>1, <2>1
    <3>. QED
      BY <1>1, <3>1 DEF Range
  <2>2. CASE ~ (j < k)
    <3>1. j - k \in 1 .. Len(s) - k /\ k + (j - k) = j
      BY <1>1, <2>2
    <3>. QED
      BY <1>2, <3>1 DEF Range
  <2>. QED
    BY <2>1, <2>2
<1>7. a \o b \in Seq(S)
  BY <1>1
<1>8. Range(a \o b) = {s[j] : j \in DOMAIN s \ {k}}
  BY <1>3, <1>4, <1>5, <1>6
<1>. QED
  BY <1>7, <1>8 DEF a, b

(* The same, place by place: what is behind the one taken out moves up.    *)
LEMMA PlacesWithout ==
  ASSUME NEW S, NEW s \in Seq(S), NEW k \in DOMAIN s
  PROVE  LET t == SubSeq(s, 1, k - 1) \o SubSeq(s, k + 1, Len(s)) IN
         /\ t \in Seq(S) /\ Len(t) = Len(s) - 1 /\ DOMAIN t = 1 .. Len(s) - 1
         /\ \A i \in DOMAIN t : i < k => i \in DOMAIN s /\ t[i] = s[i]
         /\ \A i \in DOMAIN t : i >= k => i + 1 \in DOMAIN s /\ t[i] = s[i + 1]
<1>. DEFINE a == SubSeq(s, 1, k - 1)
            b == SubSeq(s, k + 1, Len(s))
            t == a \o b
<1>1. /\ Len(s) \in Nat /\ k \in 1 .. Len(s) /\ DOMAIN s = 1 .. Len(s)
      /\ a \in Seq(S) /\ b \in Seq(S) /\ Len(a) = k - 1
      /\ DOMAIN a = 1 .. k - 1 /\ \A j \in 1 .. k - 1 : a[j] = s[j]
  OBVIOUS
<1>2. /\ DOMAIN b = 1 .. Len(s) - k /\ Len(b) = Len(s) - k
      /\ \A j \in 1 .. Len(s) - k : b[j] = s[k + j]
  BY <1>1
<1>. HIDE DEF a, b
<1>3. /\ DOMAIN t = 1 .. Len(a) + Len(b) /\ t \in Seq(S)
      /\ \A i \in 1 .. Len(a) : t[i] = a[i]
      /\ \A i \in 1 .. Len(b) : t[Len(a) + i] = b[i]
  <2>1. a \in Seq(S) /\ b \in Seq(S) BY <1>1
  <2>2. DOMAIN t = 1 .. Len(a) + Len(b) /\ t \in Seq(S) BY <2>1
  <2>3. \A i \in 1 .. Len(a) : t[i] = a[i] BY <2>1
  <2>4. \A i \in 1 .. Len(b) : t[Len(a) + i] = b[i] BY <2>1
  <2>. QED BY <2>2, <2>3, <2>4
<1>. HIDE DEF t
<1>4. Len(a) + Len(b) = Len(s) - 1 /\ Len(t) = Len(a) + Len(b) BY <1>1, <1>2, <1>3
<1>5. ASSUME NEW i \in DOMAIN t, i < k PROVE i \in DOMAIN s /\ t[i] = s[i]
  <2>1. i \in 1 .. k - 1 BY <1>1, <1>3, <1>4, <1>5
  <2>2. i \in 1 .. Len(a) /\ i \in DOMAIN s BY <1>1, <2>1
  <2>. QED BY <1>1, <1>3, <2>1, <2>2
<1>6. ASSUME NEW i \in DOMAIN t, i >= k PROVE i + 1 \in DOMAIN s /\ t[i] = s[i + 1]
  <2>. DEFINE j == i - (k - 1)
  <2>1. i \in 1 .. Len(s) - 1 BY <1>3, <1>4
  <2>2. j \in 1 .. Len(s) - k /\ i = (k - 1) + j /\ k + j = i + 1 /\ i + 1 \in DOMAIN s
    BY <1>1, <1>6, <2>1
  <2>. HIDE DEF j
  <2>3. j \in 1 .. Len(b) /\ i = Len(a) + j BY <1>1, <1>2, <2>2
  <2>4. t[i] = b[j] BY <1>3, <2>3
  <2>5. b[j] = s[i + 1] BY <1>2, <2>2
  <2>. QED BY <2>2, <2>4, <2>5
<1>7. Len(t) = Len(s) - 1 /\ DOMAIN t = 1 .. Len(s) - 1 BY <1>1, <1>3, <1>4
<1>. QED BY <1>3, <1>5, <1>6, <1>7 DEF t, a, b

(* The rest of a sequence, and one element of it.                          *)
LEMMA RangeSplit ==
  ASSUME NEW S, NEW s \in Seq(S), NEW k \in DOMAIN s
  PROVE  Range(s) = {s[j] : j \in DOMAIN s \ {k}} \cup {s[k]}
BY DEF Range

LEMMA RangeReplaced ==
  ASSUME NEW S, NEW s \in Seq(S), NEW k \in DOMAIN s, NEW x \in S
  PROVE  /\ [s EXCEPT ![k] = x] \in Seq(S)
         /\ Range([s EXCEPT ![k] = x]) = {s[j] : j \in DOMAIN s \ {k}} \cup {x}
<1>. DEFINE t == [s EXCEPT ![k] = x]
<1>1. /\ t \in Seq(S) /\ DOMAIN t = DOMAIN s /\ t[k] = x
      /\ \A j \in DOMAIN s \ {k} : t[j] = s[j]
  OBVIOUS
<1>. HIDE DEF t
<1>2. Range(t) = {s[j] : j \in DOMAIN s \ {k}} \cup {x}
  BY <1>1 DEF Range
<1>. QED
  BY <1>1, <1>2 DEF t

(* One element for another, place by place.                                *)
LEMMA SequenceOf ==
  ASSUME NEW S, NEW T, NEW s \in Seq(S), NEW t, t = [j \in DOMAIN s |-> t[j]],
         \A j \in DOMAIN s : t[j] \in T
  PROVE  t \in Seq(T) /\ Len(t) = Len(s) /\ Range(t) = {t[j] : j \in DOMAIN s}
<1>1. Len(s) \in Nat /\ DOMAIN s = 1 .. Len(s)
  OBVIOUS
<1>2. t \in [1 .. Len(s) -> T]
  BY <1>1
<1>3. t \in Seq(T) /\ Len(t) = Len(s)
  BY <1>1, <1>2
<1>4. DOMAIN t = DOMAIN s
  BY <1>1, <1>2
<1>. QED
  BY <1>3, <1>4 DEF Range

-----------------------------------------------------------------------------
(* Sequences put together in different ways.                               *)

LEMMA SameSequence ==
  ASSUME NEW S, NEW s \in Seq(S), NEW t \in Seq(S), Len(s) = Len(t),
         \A i \in 1 .. Len(s) : s[i] = t[i]
  PROVE  s = t
<1>1. /\ s \in [1 .. Len(s) -> S] /\ t \in [1 .. Len(s) -> S]
  OBVIOUS
<1>. QED
  BY <1>1

LEMMA ConcatAppend ==
  ASSUME NEW S, NEW s \in Seq(S), NEW t \in Seq(S), NEW x \in S
  PROVE  s \o Append(t, x) = Append(s \o t, x)
<1>. DEFINE a == s \o Append(t, x)
            b == Append(s \o t, x)
<1>1. /\ a \in Seq(S) /\ b \in Seq(S) /\ Len(s) \in Nat /\ Len(t) \in Nat
      /\ Len(a) = Len(s) + (Len(t) + 1) /\ Len(b) = (Len(s) + Len(t)) + 1
  OBVIOUS
<1>2. ASSUME NEW i \in 1 .. Len(a) PROVE a[i] = b[i]
  <2>1. CASE i <= Len(s)
    BY <1>1, <2>1
  <2>2. CASE ~ (i <= Len(s)) /\ i <= Len(s) + Len(t)
    BY <1>1, <2>2
  <2>3. CASE ~ (i <= Len(s) + Len(t))
    BY <1>1, <2>3
  <2>. QED
    BY <1>1, <2>1, <2>2, <2>3
<1>. HIDE DEF a, b
<1>3. a = b
  BY <1>1, <1>2, SameSequence
<1>. QED
  BY <1>3 DEF a, b

(* The head of one moved to the end of the other.                          *)
LEMMA ConcatShift ==
  ASSUME NEW S, NEW s \in Seq(S), NEW t \in Seq(S), t # <<>>
  PROVE  Append(s, Head(t)) \o Tail(t) = s \o t
<1>. DEFINE a == Append(s, Head(t)) \o Tail(t)
            b == s \o t
<1>1. /\ Head(t) \in S /\ Head(t) = t[1] /\ Tail(t) \in Seq(S)
      /\ Len(s) \in Nat /\ Len(t) \in Nat \ {0} /\ Len(Tail(t)) = Len(t) - 1
      /\ \A i \in 1 .. Len(t) - 1 : Tail(t)[i] = t[i + 1]
  OBVIOUS
<1>2. /\ Append(s, Head(t)) \in Seq(S) /\ Len(Append(s, Head(t))) = Len(s) + 1
      /\ \A i \in 1 .. Len(s) : Append(s, Head(t))[i] = s[i]
      /\ Append(s, Head(t))[Len(s) + 1] = t[1]
  BY <1>1
<1>3. /\ a \in Seq(S) /\ b \in Seq(S)
      /\ Len(a) = Len(s) + Len(t) /\ Len(b) = Len(s) + Len(t)
  BY <1>1, <1>2
<1>4. ASSUME NEW i \in 1 .. Len(a) PROVE a[i] = b[i]
  <2>1. CASE i <= Len(s)
    BY <1>1, <1>2, <1>3, <2>1
  <2>2. CASE i = Len(s) + 1
    BY <1>1, <1>2, <1>3, <2>2
  <2>3. CASE i > Len(s) + 1
    <3>1. a[i] = Tail(t)[i - (Len(s) + 1)] /\ i - (Len(s) + 1) \in 1 .. Len(t) - 1
      BY <1>1, <1>2, <1>3, <2>3
    <3>2. b[i] = t[i - Len(s)]
      BY <1>1, <1>3, <2>3
    <3>3. (i - (Len(s) + 1)) + 1 = i - Len(s)
      BY <1>1, <1>3
    <3>. QED
      BY <1>1, <3>1, <3>2, <3>3
  <2>. QED
    BY <1>1, <1>3, <2>1, <2>2, <2>3
<1>. HIDE DEF a, b
<1>5. a = b
  BY <1>3, <1>4, SameSequence
<1>. QED
  BY <1>5 DEF a, b

-----------------------------------------------------------------------------
(* The events of each source come in the order of their numbers.           *)

InOrder(s) ==
  \A i, j \in DOMAIN s : (i < j /\ s[i].from = s[j].from) => s[i].no < s[j].no

LEMMA InOrderAppend ==
  ASSUME NEW S, NEW s \in Seq(S), NEW x \in S, InOrder(s),
         \A e \in Range(s) : e.from = x.from => e.no < x.no
  PROVE  InOrder(Append(s, x))
<1>1. /\ DOMAIN Append(s, x) = 1 .. Len(s) + 1 /\ DOMAIN s = 1 .. Len(s)
      /\ \A i \in 1 .. Len(s) : Append(s, x)[i] = s[i]
      /\ Append(s, x)[Len(s) + 1] = x /\ Len(s) \in Nat
  OBVIOUS
<1>2. SUFFICES ASSUME NEW i \in 1 .. Len(s) + 1, NEW j \in 1 .. Len(s) + 1, i < j,
                      Append(s, x)[i].from = Append(s, x)[j].from
               PROVE  Append(s, x)[i].no < Append(s, x)[j].no
  BY <1>1 DEF InOrder
<1>3. i \in 1 .. Len(s) /\ Append(s, x)[i] = s[i] /\ s[i] \in Range(s)
  BY <1>1, <1>2 DEF Range
<1>4. CASE j \in 1 .. Len(s)
  BY <1>1, <1>2, <1>3, <1>4 DEF InOrder
<1>5. CASE j = Len(s) + 1
  BY <1>1, <1>2, <1>3, <1>5
<1>. QED
  BY <1>1, <1>4, <1>5

LEMMA InOrderPrefix ==
  ASSUME NEW S, NEW s \in Seq(S), NEW n \in 0 .. Len(s), InOrder(s)
  PROVE  InOrder(SubSeq(s, 1, n)) /\ Range(SubSeq(s, 1, n)) \subseteq Range(s)
<1>1. /\ DOMAIN SubSeq(s, 1, n) = 1 .. n /\ DOMAIN s = 1 .. Len(s)
      /\ \A i \in 1 .. n : SubSeq(s, 1, n)[i] = s[i] /\ i \in 1 .. Len(s)
  OBVIOUS
<1>. QED
  BY <1>1 DEF InOrder, Range
===============================================================================
