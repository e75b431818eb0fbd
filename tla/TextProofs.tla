----------------------------- MODULE TextProofs -----------------------------
(***************************************************************************)
(* What the operators of Text return, for every text: a search finds the   *)
(* first place, a part of a part is a part, and what is found in a part of *)
(* a text is found in the text.                                            *)
(***************************************************************************)
EXTENDS Text, WellFoundedInduction, SequenceTheorems, TLAPS

(* A nonempty set of natural numbers has a least element: the first place  *)
(* where something goes wrong, which is how the proofs about recursive     *)
(* functions argue.                                                        *)
LEMMA LeastPlace ==
    ASSUME NEW T, T \subseteq Nat, T # {}
    PROVE  \E x \in T : \A y \in T : x <= y
<1>1. PICK x \in T : \A y \in T : ~(<<y, x>> \in OpToRel(<, Nat))
  BY WFMin, NatLessThanWellFounded
<1>2. ASSUME NEW y \in T PROVE x <= y
  <2>1. <<y, x>> \in Nat \X Nat /\ <<y, x>>[1] = y /\ <<y, x>>[2] = x
    OBVIOUS
  <2>2. ~(<<y, x>>[1] < <<y, x>>[2])
    BY <1>1, <2>1, Zenon DEF OpToRel
  <2> QED
    BY <2>1, <2>2
<1> QED
  BY <1>2

(* Min is that element.                                                    *)
LEMMA MinOf ==
    ASSUME NEW S, S \subseteq Nat, S # {}
    PROVE  Min(S) \in S /\ \A y \in S : Min(S) <= y
<1>1. \E x \in S : \A y \in S : x <= y
  BY LeastPlace
<1> QED
  BY <1>1 DEF Min

LEMMA FromType ==
    ASSUME NEW text \in Seq(STRING), NEW n \in Nat
    PROVE  From(text, n) \in Seq(STRING)
<1>1. Len(text) \in Nat /\ \A i \in (n + 1)..Len(text) : text[i] \in STRING
  OBVIOUS
<1> QED
  BY <1>1, SubSeqProperties DEF From

(* A search ends with -1 or with a place in the text.                      *)
LEMMA BeforeType ==
    ASSUME NEW text \in Seq(STRING), NEW S, NEW sep \in Seq(S)
    PROVE  Before(text, sep) = -1 \/ Before(text, sep) \in 0..(Len(text) - Len(sep))
<1> DEFINE at == {i \in 0..(Len(text) - Len(sep)) : SubSeq(text, i + 1, i + Len(sep)) = sep}
<1>1. at \subseteq Nat /\ at \subseteq 0..(Len(text) - Len(sep))
  OBVIOUS
<1>2. Before(text, sep) = IF at = {} THEN -1 ELSE Min(at)
  BY DEF Before
<1> HIDE DEF at
<1> QED
  BY <1>1, <1>2, MinOf

(* Before finds the first of the places where sep is.                      *)
LEMMA BeforeIs ==
    ASSUME NEW text \in Seq(STRING), NEW S, NEW sep \in Seq(S)
    PROVE  \/ /\ Before(text, sep) = -1
              /\ \A i \in 0..(Len(text) - Len(sep)) : SubSeq(text, i + 1, i + Len(sep)) # sep
           \/ /\ Before(text, sep) \in 0..(Len(text) - Len(sep))
              /\ SubSeq(text, Before(text, sep) + 1, Before(text, sep) + Len(sep)) = sep
              /\ \A i \in 0..(Before(text, sep) - 1) : SubSeq(text, i + 1, i + Len(sep)) # sep
<1> DEFINE at == {i \in 0..(Len(text) - Len(sep)) : SubSeq(text, i + 1, i + Len(sep)) = sep}
<1>1. at \subseteq Nat
  OBVIOUS
<1>2. Before(text, sep) = IF at = {} THEN -1 ELSE Min(at)
  BY DEF Before
<1>3. CASE at = {}
  BY <1>2, <1>3
<1>4. CASE at # {}
  <2>1. Min(at) \in at /\ \A y \in at : Min(at) <= y
    <3> HIDE DEF at
    <3> QED
      BY <1>1, <1>4, MinOf
  <2>2. Before(text, sep) = Min(at)
    BY <1>2, <1>4
  <2>3. \A i \in 0..(Min(at) - 1) : i \in 0..(Len(text) - Len(sep)) /\ i \notin at
    <3> DEFINE last == Len(text) - Len(sep)
    <3>1. at \subseteq 0..last /\ last \in Int
      <4>1. Len(text) \in Nat /\ Len(sep) \in Nat
        BY LenProperties
      <4> QED
        BY <4>1
    <3> DEFINE m == Min(at)
    <3>2. m \in at /\ \A y \in at : m <= y
      BY <2>1
    <3> HIDE DEF at, last, m
    <3>3. \A i \in 0..(m - 1) : i \in 0..last /\ i \notin at
      BY <3>1, <3>2
    <3> QED
      BY <3>3 DEF last, m
  <2> QED
    BY <2>1, <2>2, <2>3
<1> QED
  BY <1>3, <1>4

(* The two separators of HTTP.                                             *)
LEMMA CRLFType ==
    \E S : /\ CRLF \in Seq(S) /\ Len(CRLF) = 2
           /\ CRLF \o CRLF \in Seq(S) /\ Len(CRLF \o CRLF) = 4
<1> DEFINE S == {"CR", "LF"}
<1>1. CRLF \in Seq(S) /\ Len(CRLF) = 2
  <2>1. ASSUME NEW a \in S, NEW b \in S
        PROVE  <<a, b>> \in Seq(S) /\ Len(<<a, b>>) = 2
    <3> HIDE DEF S
    <3> QED
      OBVIOUS
  <2> QED
    BY <2>1 DEF CRLF
<1> HIDE DEF S
<1>2. CRLF \o CRLF \in Seq(S) /\ Len(CRLF \o CRLF) = 4
  <2>1. CRLF \o CRLF \in Seq(S) /\ Len(CRLF \o CRLF) = Len(CRLF) + Len(CRLF)
    BY <1>1, ConcatProperties, Zenon
  <2> QED
    BY <1>1, <2>1
<1> QED
  BY <1>1, <1>2

LEMMA EndsType ==
    ASSUME NEW buf \in Seq(STRING)
    PROVE  /\ LineEnd(buf) = -1 \/ LineEnd(buf) \in 0..(Len(buf) - 2)
           /\ HeadersEnd(buf) = -1 \/ HeadersEnd(buf) \in 0..(Len(buf) - 4)
<1>1. PICK S : /\ CRLF \in Seq(S) /\ Len(CRLF) = 2
               /\ CRLF \o CRLF \in Seq(S) /\ Len(CRLF \o CRLF) = 4
  BY CRLFType
<1> QED
  BY <1>1, BeforeType DEF LineEnd, HeadersEnd

-----------------------------------------------------------------------------
(* Pieces of a text.                                                       *)

LEMMA PartIs ==
    ASSUME NEW t \in Seq(STRING), NEW g \in 0..Len(t), NEW f \in 0..g
    PROVE  /\ SubSeq(t, f + 1, g) \in Seq(STRING)
           /\ Len(SubSeq(t, f + 1, g)) = g - f
           /\ \A i \in 1..(g - f) : SubSeq(t, f + 1, g)[i] = t[f + i]
<1>1. \A i \in (f + 1)..g : t[i] \in STRING
  OBVIOUS
<1>2. f + 1 \in Int /\ g \in Int
  OBVIOUS
<1>3. /\ SubSeq(t, f + 1, g) \in Seq(STRING)
      /\ Len(SubSeq(t, f + 1, g)) = IF f + 1 <= g THEN g - (f + 1) + 1 ELSE 0
      /\ \A i \in 1..(g - (f + 1) + 1) : SubSeq(t, f + 1, g)[i] = t[f + 1 + i - 1]
  BY <1>1, <1>2, SubSeqProperties
<1> QED
  BY <1>3

(* A part of a part.                                                       *)
LEMMA PartOfPart ==
    ASSUME NEW t \in Seq(STRING), NEW g \in 0..Len(t), NEW f \in 0..g,
           NEW b \in 0..(g - f), NEW a \in 0..b
    PROVE  SubSeq(SubSeq(t, f + 1, g), a + 1, b) = SubSeq(t, f + a + 1, f + b)
<1> DEFINE u == SubSeq(t, f + 1, g)
           v == SubSeq(u, a + 1, b)
           w == SubSeq(t, f + a + 1, f + b)
<1>1. u \in Seq(STRING) /\ Len(u) = g - f /\ \A i \in 1..(g - f) : u[i] = t[f + i]
  BY PartIs
<1>2. v \in Seq(STRING) /\ Len(v) = b - a /\ \A i \in 1..(b - a) : v[i] = u[a + i]
  <2> HIDE DEF u
  <2>1. b \in 0..Len(u)
    BY <1>1
  <2> QED
    BY <1>1, <2>1, PartIs
<1>3. w \in Seq(STRING) /\ Len(w) = b - a /\ \A i \in 1..(b - a) : w[i] = t[f + a + i]
  <2>1. f + b \in 0..Len(t) /\ f + a \in 0..(f + b)
    OBVIOUS
  <2>2. /\ SubSeq(t, (f + a) + 1, f + b) \in Seq(STRING)
        /\ Len(SubSeq(t, (f + a) + 1, f + b)) = (f + b) - (f + a)
        /\ \A i \in 1..((f + b) - (f + a)) : SubSeq(t, (f + a) + 1, f + b)[i] = t[(f + a) + i]
    BY <2>1, PartIs
  <2> QED
    BY <2>2
<1> HIDE DEF u, v, w
<1>4. \A i \in 1..(b - a) : v[i] = w[i]
  <2> TAKE i \in 1..(b - a)
  <2>1. a + i \in 1..(g - f)
    OBVIOUS
  <2>2. v[i] = u[a + i] /\ w[i] = t[f + a + i] /\ u[a + i] = t[f + (a + i)]
    BY <1>1, <1>2, <1>3, <2>1
  <2> QED
    BY <2>2
<1>5. v = w
  BY <1>2, <1>3, <1>4, SeqEqual
<1> QED
  BY <1>5 DEF u, v, w

LEMMA PartFrom ==
    ASSUME NEW t \in Seq(STRING), NEW g \in 0..Len(t), NEW f \in 0..g, NEW n \in 0..(g - f)
    PROVE  From(SubSeq(t, f + 1, g), n) = SubSeq(t, f + n + 1, g)
<1>1. Len(SubSeq(t, f + 1, g)) = g - f
  BY PartIs
<1>2. g - f \in 0..(g - f) /\ n \in 0..(g - f) /\ f + (g - f) = g
  OBVIOUS
<1>3. SubSeq(SubSeq(t, f + 1, g), n + 1, g - f) = SubSeq(t, f + n + 1, f + (g - f))
  BY <1>2, PartOfPart
<1> QED
  BY <1>1, <1>2, <1>3 DEF From

LEMMA PartUpto ==
    ASSUME NEW t \in Seq(STRING), NEW g \in 0..Len(t), NEW f \in 0..g, NEW n \in 0..(g - f)
    PROVE  SubSeq(SubSeq(t, f + 1, g), 1, n) = SubSeq(t, f + 1, f + n)
<1>1. SubSeq(SubSeq(t, f + 1, g), 0 + 1, n) = SubSeq(t, f + 0 + 1, f + n)
  BY PartOfPart
<1> QED
  BY <1>1

(* What follows the first f tokens is a part as well.                      *)
LEMMA FromIsPart ==
    ASSUME NEW t \in Seq(STRING), NEW f \in 0..Len(t)
    PROVE  /\ From(t, f) = SubSeq(t, f + 1, Len(t))
           /\ Len(t) \in 0..Len(t)
           /\ From(t, f) \in Seq(STRING) /\ Len(From(t, f)) = Len(t) - f
<1>1. Len(t) \in 0..Len(t)
  OBVIOUS
<1> QED
  BY <1>1, PartIs DEF From

(* What is found in a part of a text is found in the text.                 *)
LEMMA BeforeInPart ==
    ASSUME NEW t \in Seq(STRING), NEW g \in 0..Len(t), NEW f \in 0..g,
           NEW S, NEW sep \in Seq(S),
           Before(SubSeq(t, f + 1, g), sep) # -1
    PROVE  /\ Before(From(t, f), sep) = Before(SubSeq(t, f + 1, g), sep)
           /\ Before(From(t, f), sep) \in 0..(g - f - Len(sep))
<1> DEFINE u == SubSeq(t, f + 1, g)
           v == From(t, f)
           b == Before(u, sep)
           c == Before(v, sep)
           n == Len(sep)
<1>0. f \in 0..Len(t) /\ n \in Nat /\ Len(t) \in Nat /\ f \in Nat /\ g \in f..Len(t) /\ b # -1
  OBVIOUS
<1>1. u \in Seq(STRING) /\ Len(u) = g - f
  BY PartIs
<1>2. v \in Seq(STRING) /\ Len(v) = Len(t) - f
  BY <1>0, FromIsPart
<1>3. \A i \in 0..(g - f - n) : SubSeq(u, i + 1, i + n) = SubSeq(v, i + 1, i + n)
  <2> TAKE i \in 0..(g - f - n)
  <2>1. i + n \in 0..(g - f) /\ i \in 0..(i + n) /\ i + n \in 0..(Len(t) - f)
    BY <1>0
  <2>2. SubSeq(u, i + 1, i + n) = SubSeq(t, f + i + 1, f + (i + n))
    BY <2>1, PartOfPart
  <2>3. SubSeq(SubSeq(t, f + 1, Len(t)), i + 1, i + n) = SubSeq(t, f + i + 1, f + (i + n))
    BY <1>0, <2>1, FromIsPart, PartOfPart
  <2> QED
    BY <1>0, <2>2, <2>3, FromIsPart
<1>4. /\ b \in 0..(g - f - n)
      /\ SubSeq(u, b + 1, b + n) = sep
      /\ \A i \in 0..(b - 1) : SubSeq(u, i + 1, i + n) # sep
  <2> HIDE DEF u
  <2>1. \/ b = -1
        \/ /\ b \in 0..(Len(u) - n)
           /\ SubSeq(u, b + 1, b + n) = sep
           /\ \A i \in 0..(b - 1) : SubSeq(u, i + 1, i + n) # sep
    BY <1>1, BeforeIs
  <2> HIDE DEF b, n
  <2> QED
    BY <1>0, <1>1, <2>1
<1>5. \/ /\ c = -1
         /\ \A i \in 0..(Len(t) - f - n) : SubSeq(v, i + 1, i + n) # sep
      \/ /\ c \in 0..(Len(t) - f - n)
         /\ SubSeq(v, c + 1, c + n) = sep
         /\ \A i \in 0..(c - 1) : SubSeq(v, i + 1, i + n) # sep
  <2> HIDE DEF v
  <2>1. \/ /\ c = -1
           /\ \A i \in 0..(Len(v) - n) : SubSeq(v, i + 1, i + n) # sep
        \/ /\ c \in 0..(Len(v) - n)
           /\ SubSeq(v, c + 1, c + n) = sep
           /\ \A i \in 0..(c - 1) : SubSeq(v, i + 1, i + n) # sep
    BY <1>2, BeforeIs
  <2> HIDE DEF c, n
  <2> QED
    BY <1>2, <2>1
<1> DEFINE InU(i) == SubSeq(u, i + 1, i + n) = sep
           InV(i) == SubSeq(v, i + 1, i + n) = sep
<1>6. /\ \A i \in 0..(g - f - n) : InU(i) <=> InV(i)
      /\ b \in 0..(g - f - n) /\ InU(b) /\ \A i \in 0..(b - 1) : ~InU(i)
      /\ \/ c = -1 /\ \A i \in 0..(Len(t) - f - n) : ~InV(i)
         \/ c \in 0..(Len(t) - f - n) /\ InV(c) /\ \A i \in 0..(c - 1) : ~InV(i)
  <2> HIDE DEF u, v, b, c, n
  <2> QED
    BY <1>3, <1>4, <1>5
<1> HIDE DEF u, v, b, c, n, InU, InV
<1>7. b \in 0..(Len(t) - f - n) /\ InV(b)
  BY <1>0, <1>6
<1>8. c \in 0..(Len(t) - f - n) /\ c <= b
  BY <1>0, <1>6, <1>7
<1>9. ~(c < b)
  BY <1>0, <1>6, <1>8
<1> QED
  BY <1>6, <1>8, <1>9 DEF u, v, b, c, n

LEMMA EndsInPart ==
    ASSUME NEW t \in Seq(STRING), NEW g \in 0..Len(t), NEW f \in 0..g
    PROVE  LET u == SubSeq(t, f + 1, g) IN
           /\ \/ LineEnd(u) = -1
              \/ LineEnd(u) = LineEnd(From(t, f)) /\ LineEnd(u) \in 0..(g - f - 2)
           /\ \/ HeadersEnd(u) = -1
              \/ HeadersEnd(u) = HeadersEnd(From(t, f)) /\ HeadersEnd(u) \in 0..(g - f - 4)
<1>1. PICK S : /\ CRLF \in Seq(S) /\ Len(CRLF) = 2
               /\ CRLF \o CRLF \in Seq(S) /\ Len(CRLF \o CRLF) = 4
  BY CRLFType
<1>2. \/ Before(SubSeq(t, f + 1, g), CRLF) = -1
      \/ /\ Before(SubSeq(t, f + 1, g), CRLF) = Before(From(t, f), CRLF)
         /\ Before(SubSeq(t, f + 1, g), CRLF) \in 0..(g - f - 2)
  BY <1>1, BeforeInPart
<1>3. \/ Before(SubSeq(t, f + 1, g), CRLF \o CRLF) = -1
      \/ /\ Before(SubSeq(t, f + 1, g), CRLF \o CRLF) = Before(From(t, f), CRLF \o CRLF)
         /\ Before(SubSeq(t, f + 1, g), CRLF \o CRLF) \in 0..(g - f - 4)
  <2> DEFINE sep == CRLF \o CRLF
  <2>1. sep \in Seq(S) /\ Len(sep) = 4
    BY <1>1
  <2> HIDE DEF sep
  <2>2. \/ Before(SubSeq(t, f + 1, g), sep) = -1
        \/ /\ Before(SubSeq(t, f + 1, g), sep) = Before(From(t, f), sep)
           /\ Before(SubSeq(t, f + 1, g), sep) \in 0..(g - f - Len(sep))
    BY <2>1, BeforeInPart
  <2> QED
    BY <2>1, <2>2 DEF sep
<1> QED
  BY <1>2, <1>3 DEF LineEnd, HeadersEnd

LEMMA LineEndIs ==
    ASSUME NEW u \in Seq(STRING), LineEnd(u) # -1
    PROVE  SubSeq(u, LineEnd(u) + 1, LineEnd(u) + 2) = CRLF
<1>1. PICK S : CRLF \in Seq(S) /\ Len(CRLF) = 2
  BY CRLFType
<1>2. \/ Before(u, CRLF) = -1
      \/ SubSeq(u, Before(u, CRLF) + 1, Before(u, CRLF) + Len(CRLF)) = CRLF
  BY <1>1, BeforeIs
<1> QED
  BY <1>1, <1>2 DEF LineEnd

LEMMA PartIsPrefix ==
    ASSUME NEW t \in Seq(STRING), NEW g \in 0..Len(t), NEW f \in 0..g
    PROVE  /\ IsPrefix(SubSeq(t, f + 1, g), From(t, f))
           /\ g = Len(t) => SubSeq(t, f + 1, g) = From(t, f)
<1> DEFINE u == SubSeq(t, f + 1, g)
           v == From(t, f)
<1>1. f \in 0..Len(t) /\ g - f \in 0..(Len(t) - f)
  OBVIOUS
<1>2. u \in Seq(STRING) /\ Len(u) = g - f
  BY PartIs
<1>3. v = SubSeq(t, f + 1, Len(t)) /\ Len(v) = Len(t) - f /\ Len(t) \in 0..Len(t)
  BY <1>1, FromIsPart
<1>4. SubSeq(v, 1, g - f) = SubSeq(t, f + 1, f + (g - f))
  BY <1>1, <1>3, PartUpto
<1>5. SubSeq(u, 1, Len(u)) = u
  <2> HIDE DEF u
  <2> QED
    BY <1>2, SubSeqFull
<1>6. f + (g - f) = g
  OBVIOUS
<1>7. SubSeq(u, 1, Len(u)) = SubSeq(v, 1, Len(u)) /\ Len(u) <= Len(v)
  <2>1. SubSeq(v, 1, Len(u)) = SubSeq(t, f + 1, g)
    <3> HIDE DEF u, v
    <3> QED
      BY <1>2, <1>4, <1>6
  <2>2. Len(u) <= Len(v)
    BY <1>1, <1>2, <1>3
  <2> QED
    BY <1>5, <2>1, <2>2
<1> QED
  BY <1>3, <1>7 DEF IsPrefix

(* Whether CRLF comes next in a part is whether it does in the text.       *)
LEMMA CRLFInPart ==
    ASSUME NEW t \in Seq(STRING), NEW g \in 0..Len(t), NEW f \in 0..g
    PROVE  IsPrefix(CRLF, SubSeq(t, f + 1, g)) <=> f + 2 <= g /\ SubSeq(t, f + 1, f + 2) = CRLF
<1> DEFINE u == SubSeq(t, f + 1, g)
<1>1. PICK S : CRLF \in Seq(S) /\ Len(CRLF) = 2
  BY CRLFType
<1>2. SubSeq(CRLF, 1, 2) = CRLF
  BY <1>1, SubSeqFull
<1>3. Len(u) = g - f
  BY PartIs
<1>4. f + 2 <= g => SubSeq(u, 1, 2) = SubSeq(t, f + 1, f + 2)
  BY PartUpto
<1>5. IsPrefix(CRLF, u) <=> 2 <= Len(u) /\ CRLF = SubSeq(u, 1, 2)
  BY <1>1, <1>2 DEF IsPrefix
<1> HIDE DEF u
<1>6. 2 <= Len(u) <=> f + 2 <= g
  BY <1>3
<1>7. IsPrefix(CRLF, u) <=> f + 2 <= g /\ SubSeq(t, f + 1, f + 2) = CRLF
  BY <1>4, <1>5, <1>6
<1> QED
  BY <1>7 DEF u

LEMMA Regrouped ==
    ASSUME NEW a \in Seq(STRING), NEW b \in Seq(STRING), NEW c \in Seq(STRING)
    PROVE  a \o (b \o c) = (a \o b) \o c
BY ConcatAssociative
=============================================================================
