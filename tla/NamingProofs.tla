---------------------------- MODULE NamingProofs ----------------------------
(***************************************************************************)
(* No separator in an odd place confuses the names of objects and          *)
(* subjects: for texts of any length over any letters, a subject is        *)
(* rendered as it was written, and the keys of the forward index keep      *)
(* objects and relations apart.                                            *)
(***************************************************************************)
EXTENDS Texts, SequenceTheorems, WellFoundedInduction, TLAPS

(* The separators are letters too, of any alphabet of letters.             *)
Letters == STRING \cup {":", "#"}

----------------------------------------------------------------------------
(* Sequences.                                                              *)

LEMMA LeastNumber ==
    ASSUME NEW T, T \subseteq Nat, T # {}
    PROVE  Min(T) \in T /\ \A m \in T : Min(T) <= m
<1> DEFINE R == OpToRel(<, Nat)
<1>1. IsWellFoundedOn(R, Nat)
  BY NatLessThanWellFounded
<1>2. \A x, y \in Nat : x < y => <<x, y>> \in R
  BY DEF OpToRel
<1> HIDE DEF R
<1>3. PICK n \in T : \A m \in T : ~ (<<m, n>> \in R)
  BY <1>1, WFMin
<1>4. \A m \in T : m \in Nat /\ n \in Nat /\ ~ (m < n)
  BY <1>2, <1>3
<1>5. \A m \in T : n <= m
  BY <1>4
<1> QED
  BY <1>5 DEF Min

LEMMA Induct ==
    ASSUME NEW S, 0 \in S, \A n \in Nat : n \in S => n + 1 \in S
    PROVE  Nat \subseteq S
<1> DEFINE T == Nat \ S
<1> SUFFICES ASSUME T # {} PROVE FALSE
  OBVIOUS
<1>1. T \subseteq Nat
  OBVIOUS
<1> HIDE DEF T
<1>2. Min(T) \in T /\ \A m \in T : Min(T) <= m
  BY <1>1, LeastNumber
<1> DEFINE n == Min(T)
<1>3. n \in Nat /\ n \notin S
  BY <1>2 DEF T
<1> HIDE DEF n
<1>4. n # 0 /\ n - 1 \in Nat /\ ~ (n <= n - 1) /\ (n - 1) + 1 = n
  BY <1>3
<1>5. n - 1 \notin T
  BY <1>2, <1>4 DEF n
<1> QED
  BY <1>3, <1>4, <1>5 DEF T

(* A sequence, cut at one of its places.                                   *)
LEMMA CutAt ==
    ASSUME NEW S, NEW s \in Seq(S), NEW i \in DOMAIN s
    PROVE  /\ i \in 1..Len(s) /\ Len(s) \in Nat
           /\ Before(s, i) \in Seq(S) /\ After(s, i) \in Seq(S)
           /\ Len(Before(s, i)) = i - 1 /\ Len(After(s, i)) = Len(s) - i
           /\ \A j \in 1..(i - 1) : Before(s, i)[j] = s[j]
           /\ \A j \in 1..(Len(s) - i) : After(s, i)[j] = s[i + j]
<1>1. i \in 1..Len(s) /\ Len(s) \in Nat /\ DOMAIN s = 1..Len(s)
  BY LenProperties
<1>2. /\ Before(s, i) \in Seq(S)
      /\ Len(Before(s, i)) = IF 1 <= i - 1 THEN (i - 1) - 1 + 1 ELSE 0
      /\ \A j \in 1..((i - 1) - 1 + 1) : Before(s, i)[j] = s[1 + j - 1]
  <2>1. 1 \in 1..Len(s) + 1 /\ i - 1 \in 0..Len(s)
    BY <1>1
  <2> QED
    BY <1>1, <2>1, SubSeqProperties DEF Before
<1>3. /\ After(s, i) \in Seq(S)
      /\ Len(After(s, i)) = IF i + 1 <= Len(s) THEN Len(s) - (i + 1) + 1 ELSE 0
      /\ \A j \in 1..(Len(s) - (i + 1) + 1) : After(s, i)[j] = s[(i + 1) + j - 1]
  <2>1. i + 1 \in 1..Len(s) + 1 /\ Len(s) \in i..Len(s)
    BY <1>1
  <2> QED
    BY <1>1, <2>1, SubSeqProperties DEF After
<1> HIDE DEF Before, After
<1>4. Len(Before(s, i)) = i - 1 /\ \A j \in 1..(i - 1) : Before(s, i)[j] = s[j]
  BY <1>1, <1>2
<1>5. Len(After(s, i)) = Len(s) - i
  BY <1>1, <1>3
<1>6. ASSUME NEW j \in 1..(Len(s) - i)
      PROVE  After(s, i)[j] = s[i + j]
  <2>1. j \in 1..(Len(s) - (i + 1) + 1) /\ (i + 1) + j - 1 = i + j
    BY <1>1
  <2> QED
    BY <1>3, <2>1
<1> QED
  BY <1>1, <1>2, <1>3, <1>4, <1>5, <1>6

(* A sequence is put together of three parts, the second a single letter.  *)
IsPut(s, a, letter, b) ==
    /\ Len(a) + 1 \in DOMAIN s /\ s[Len(a) + 1] = letter
    /\ Len(s) = Len(a) + 1 + Len(b)
    /\ \A j \in 1..Len(a) : s[j] = a[j]
    /\ \A j \in 1..Len(b) : s[Len(a) + 1 + j] = b[j]

LEMMA PutTogether ==
    ASSUME NEW S, NEW a \in Seq(S), NEW letter \in S, NEW b \in Seq(S)
    PROVE  /\ (a \o <<letter>>) \o b \in Seq(S)
           /\ IsPut((a \o <<letter>>) \o b, a, letter, b)
<1> DEFINE front == a \o <<letter>>
           i == Len(a) + 1
<1>1. /\ front \in Seq(S) /\ Len(front) = i /\ front[i] = letter
      /\ Len(a) \in Nat /\ Len(b) \in Nat
      /\ \A j \in 1..Len(a) : front[j] = a[j]
  OBVIOUS
<1> HIDE DEF front
<1>2. /\ front \o b \in Seq(S) /\ Len(front \o b) = i + Len(b)
      /\ \A j \in 1..i : (front \o b)[j] = front[j]
      /\ \A j \in 1..Len(b) : (front \o b)[i + j] = b[j]
  BY <1>1
<1>3. DOMAIN (front \o b) = 1..(i + Len(b))
  BY <1>2
<1>4. IsPut(front \o b, a, letter, b)
  BY <1>1, <1>2, <1>3 DEF IsPut
<1> QED
  BY <1>2, <1>4 DEF front

LEMMA WholeAgain ==
    ASSUME NEW S, NEW s \in Seq(S), NEW i \in DOMAIN s
    PROVE  (Before(s, i) \o <<s[i]>>) \o After(s, i) = s
<1> DEFINE a == Before(s, i)
           b == After(s, i)
           whole == (a \o <<s[i]>>) \o b
<1>1. /\ i \in 1..Len(s) /\ Len(s) \in Nat
      /\ a \in Seq(S) /\ b \in Seq(S)
      /\ Len(a) = i - 1 /\ Len(b) = Len(s) - i
      /\ \A j \in 1..(i - 1) : a[j] = s[j]
      /\ \A j \in 1..(Len(s) - i) : b[j] = s[i + j]
  BY CutAt
<1>2. s[i] \in S
  OBVIOUS
<1> HIDE DEF a, b
<1>put. whole \in Seq(S) /\ IsPut(whole, a, s[i], b)
  BY <1>1, <1>2, PutTogether
<1> HIDE DEF whole
<1>3. /\ whole \in Seq(S) /\ Len(whole) = Len(a) + 1 + Len(b)
      /\ whole[Len(a) + 1] = s[i]
      /\ \A j \in 1..Len(a) : whole[j] = a[j]
      /\ \A j \in 1..Len(b) : whole[Len(a) + 1 + j] = b[j]
  BY <1>put DEF IsPut
<1>4. Len(whole) = Len(s) /\ Len(a) + 1 = i
  BY <1>1, <1>3
<1>5. ASSUME NEW j \in 1..Len(s)
      PROVE  whole[j] = s[j]
  <2>1. CASE j < i
    <3>1. j \in 1..(i - 1) /\ j \in 1..Len(a)
      BY <1>1, <2>1
    <3> QED
      BY <1>1, <1>3, <3>1
  <2>2. CASE j = i
    BY <1>3, <1>4, <2>2
  <2>3. CASE j > i
    <3>1. j - i \in 1..(Len(s) - i) /\ i + (j - i) = j
      BY <1>1, <2>3
    <3>2. j - i \in 1..Len(b) /\ Len(a) + 1 + (j - i) = j
      BY <1>1, <1>4, <3>1
    <3>3. whole[Len(a) + 1 + (j - i)] = b[j - i] /\ b[j - i] = s[i + (j - i)]
      BY <1>1, <1>3, <3>1, <3>2
    <3> QED
      BY <3>1, <3>2, <3>3
  <2> QED
    BY <1>1, <2>1, <2>2, <2>3
<1>6. whole = s
  BY <1>3, <1>4, <1>5, SeqEqual
<1> QED
  BY <1>6 DEF whole, a, b

----------------------------------------------------------------------------
(* Separators.                                                             *)

(* strings.Index finds the first place of a letter.                        *)
LEMMA IndexIs ==
    ASSUME NEW S, NEW s \in Seq(S), NEW letter
    PROVE  LET i == Index(s, letter)
           IN \/ i = 0 /\ letter \notin ToSet(s)
              \/ /\ i \in DOMAIN s /\ i # 0 /\ s[i] = letter
                 /\ letter \notin ToSet(Before(s, i))
<1> DEFINE places == {j \in DOMAIN s : s[j] = letter}
           i == Index(s, letter)
<1>1. CASE letter \notin ToSet(s)
  BY <1>1 DEF Index
<1>2. CASE letter \in ToSet(s)
  <2>1. places \subseteq Nat /\ places # {} /\ DOMAIN s = 1..Len(s) /\ Len(s) \in Nat
    BY <1>2, LenProperties DEF ToSet
  <2>2. i = Min(places)
    BY <1>2 DEF Index
  <2> HIDE DEF places, i
  <2>3. i \in places /\ \A m \in places : i <= m
    BY <2>1, <2>2, LeastNumber
  <2>4. i \in DOMAIN s /\ i # 0 /\ s[i] = letter
    BY <2>1, <2>3 DEF places
  <2>5. ASSUME letter \in ToSet(Before(s, i))
        PROVE  FALSE
    <3>1. /\ Before(s, i) \in Seq(S) /\ Len(Before(s, i)) = i - 1
          /\ \A j \in 1..(i - 1) : Before(s, i)[j] = s[j]
      BY <2>4, CutAt
    <3>2. PICK j \in 1..(i - 1) : Before(s, i)[j] = letter
      BY <2>5, <3>1 DEF ToSet
    <3>3. j \in DOMAIN s /\ ~ (i <= j)
      BY <2>1, <2>4, <3>2
    <3> QED
      BY <2>3, <3>1, <3>2, <3>3 DEF places
  <2> QED
    BY <2>4, <2>5 DEF i
<1> QED
  BY <1>1, <1>2

LEMMA PartsHold ==
    ASSUME NEW S, NEW s \in Seq(S), NEW i \in DOMAIN s
    PROVE  ToSet(Before(s, i)) \subseteq ToSet(s) /\ ToSet(After(s, i)) \subseteq ToSet(s)
<1>1. /\ i \in 1..Len(s) /\ Len(s) \in Nat
      /\ Before(s, i) \in Seq(S) /\ After(s, i) \in Seq(S)
      /\ Len(Before(s, i)) = i - 1 /\ Len(After(s, i)) = Len(s) - i
      /\ \A j \in 1..(i - 1) : Before(s, i)[j] = s[j]
      /\ \A j \in 1..(Len(s) - i) : After(s, i)[j] = s[i + j]
  BY CutAt
<1>2. /\ DOMAIN s = 1..Len(s) /\ DOMAIN Before(s, i) = 1..(i - 1)
      /\ DOMAIN After(s, i) = 1..(Len(s) - i)
  BY <1>1
<1>3. \A j \in 1..(i - 1) : j \in 1..Len(s)
  BY <1>1
<1>4. \A j \in 1..(Len(s) - i) : i + j \in 1..Len(s)
  BY <1>1
<1>5. ToSet(Before(s, i)) \subseteq ToSet(s)
  BY <1>1, <1>2, <1>3 DEF ToSet
<1>6. ToSet(After(s, i)) \subseteq ToSet(s)
  BY <1>1, <1>2, <1>4 DEF ToSet
<1> QED
  BY <1>5, <1>6

(* An object is rendered as it was written.                                *)
LEMMA ObjectRoundTrip ==
    ASSUME NEW s \in Seq(Letters), IsObjectName(s)
    PROVE  /\ ObjectString(ParseObject(s)) = s
           /\ ParseObject(s).type \in Seq(Letters) /\ ParseObject(s).id \in Seq(Letters)
           /\ ToSet(ParseObject(s).type) \cup ToSet(ParseObject(s).id) \subseteq ToSet(s)
<1> DEFINE i == Index(s, ":")
           object == ParseObject(s)
<1>1. object.type = Before(s, i) /\ object.id = After(s, i)
  BY DEF ParseObject, Object
<1>2. i \in DOMAIN s /\ s[i] = ":"
  <2>1. i # 0
    <3>1. Len(s) \in Nat
      BY LenProperties
    <3> QED
      BY <3>1 DEF IsObjectName
  <2> QED
    BY <2>1, IndexIs
<1> HIDE DEF i, object
<1>3. (Before(s, i) \o <<s[i]>>) \o After(s, i) = s
  BY <1>2, WholeAgain
<1>4. Before(s, i) \in Seq(Letters) /\ After(s, i) \in Seq(Letters)
  BY <1>2, CutAt
<1>5. ObjectString(object) = s
  BY <1>1, <1>2, <1>3 DEF ObjectString
<1>6. ToSet(Before(s, i)) \subseteq ToSet(s) /\ ToSet(After(s, i)) \subseteq ToSet(s)
  BY <1>2, PartsHold
<1> QED
  BY <1>1, <1>4, <1>5, <1>6 DEF object

(* A subject is rendered as it was written.                                *)
LEMMA SubjectRoundTrip ==
    ASSUME NEW s \in Seq(Letters), ParseSubject(s) # Malformed
    PROVE  /\ SubjectString(ParseSubject(s)) = s
           /\ "#" \notin ToSet(ParseSubject(s).object.type)
                           \cup ToSet(ParseSubject(s).object.id)
<1> DEFINE i == Index(s, "#")
           ref == IF i = 0 THEN s ELSE Before(s, i)
           relation == IF i = 0 THEN NoName ELSE After(s, i)
           subject == ParseSubject(s)
<1>1. /\ IsObjectName(ref) /\ i # Len(s)
      /\ subject.object = ParseObject(ref) /\ subject.relation = relation
  BY DEF ParseSubject, Userset
<1>2. \/ i = 0 /\ "#" \notin ToSet(s)
      \/ i \in DOMAIN s /\ i # 0 /\ s[i] = "#" /\ "#" \notin ToSet(Before(s, i))
  BY IndexIs
<1> HIDE DEF i, subject
<1>3. ref \in Seq(Letters) /\ "#" \notin ToSet(ref)
  BY <1>2, CutAt
<1> HIDE DEF ref
<1>4. /\ ObjectString(subject.object) = ref
      /\ ToSet(subject.object.type) \cup ToSet(subject.object.id) \subseteq ToSet(ref)
  BY <1>1, <1>3, ObjectRoundTrip
<1>5. SubjectString(subject) = s
  <2>1. CASE i = 0
    <3>1. SubjectString(subject) = ObjectString(subject.object)
      BY <1>1, <2>1 DEF SubjectString
    <3> QED
      BY <1>4, <2>1, <3>1 DEF ref
  <2>2. CASE i # 0
    <3>1. i \in DOMAIN s /\ s[i] = "#"
      BY <1>2, <2>2
    <3>2. After(s, i) \in Seq(Letters) /\ Len(After(s, i)) = Len(s) - i
          /\ i \in 1..Len(s) /\ Len(s) \in Nat
      BY <3>1, CutAt
    <3>3. After(s, i) # NoName
      <4>1. Len(After(s, i)) # 0
        BY <1>1, <3>2
      <4>2. Len(NoName) = 0
        BY DEF NoName
      <4> QED
        BY <4>1, <4>2
    <3>4. SubjectString(subject) = Joined(subject.object, relation)
      BY <1>1, <2>2, <3>3 DEF SubjectString
    <3>5. Joined(subject.object, relation) = (Before(s, i) \o <<s[i]>>) \o After(s, i)
      BY <1>4, <2>2, <3>1 DEF Joined, ref
    <3>6. (Before(s, i) \o <<s[i]>>) \o After(s, i) = s
      BY <3>1, WholeAgain
    <3> QED
      BY <3>4, <3>5, <3>6
  <2> QED
    BY <2>1, <2>2
<1> QED
  BY <1>3, <1>4, <1>5 DEF subject

(* The place where an owner of a key is cut off holds a "#".               *)
LEMMA CutAtSeparator ==
    ASSUME NEW s \in Seq(Letters), NEW i \in DOMAIN s,
           ParseObject(Before(s, i)) # Malformed.object,
           Joined(ParseObject(Before(s, i)), After(s, i)) = s
    PROVE  IsObjectName(Before(s, i)) /\ s[i] = "#"
<1> DEFINE a == Before(s, i)
           b == After(s, i)
<1>1. a \in Seq(Letters) /\ b \in Seq(Letters) /\ Len(a) + 1 = i
  BY CutAt
<1>2. IsObjectName(a)
  BY DEF ParseObject
<1> HIDE DEF a, b
<1>3. (a \o <<"#">>) \o b = s
  BY <1>1, <1>2, ObjectRoundTrip DEF Joined, a, b
<1>4. "#" \in Letters
  BY DEF Letters
<1>5. IsPut((a \o <<"#">>) \o b, a, "#", b)
  BY <1>1, <1>4, PutTogether
<1>6. s[i] = "#"
  BY <1>1, <1>3, <1>5 DEF IsPut
<1> QED
  BY <1>2, <1>6 DEF a

(* The first place of a letter stays where it is when a text goes on.      *)
LEMMA IndexOfPrefix ==
    ASSUME NEW S, NEW a \in Seq(S), NEW b \in Seq(S), NEW letter,
           Len(a) <= Len(b), \A k \in 1..Len(a) : a[k] = b[k], Index(a, letter) # 0
    PROVE  Index(b, letter) = Index(a, letter) /\ Index(a, letter) \in 1..Len(a)
<1> DEFINE m == Index(a, letter)
           n == Index(b, letter)
<1>1. /\ m \in DOMAIN a /\ a[m] = letter /\ letter \notin ToSet(Before(a, m))
  BY IndexIs
<1>2. \/ n = 0 /\ letter \notin ToSet(b)
      \/ n \in DOMAIN b /\ b[n] = letter /\ letter \notin ToSet(Before(b, n))
  BY IndexIs
<1> HIDE DEF m, n
<1>3. /\ DOMAIN a = 1..Len(a) /\ Len(a) \in Nat /\ DOMAIN b = 1..Len(b) /\ Len(b) \in Nat
      /\ m \in 1..Len(a) /\ m \in DOMAIN b /\ b[m] = letter
  BY <1>1
<1>4. n \in DOMAIN b /\ b[n] = letter /\ letter \notin ToSet(Before(b, n))
  BY <1>2, <1>3 DEF ToSet
<1>5. n \in 1..Len(b)
  BY <1>3, <1>4
<1>6. ASSUME m < n
      PROVE  FALSE
  <2>1. /\ Before(b, n) \in Seq(S) /\ Len(Before(b, n)) = n - 1
        /\ \A k \in 1..(n - 1) : Before(b, n)[k] = b[k]
    BY <1>4, CutAt
  <2>2. m \in 1..(n - 1) /\ DOMAIN Before(b, n) = 1..(n - 1)
    BY <1>3, <1>5, <1>6, <2>1
  <2>3. Before(b, n)[m] = letter
    BY <1>3, <2>1, <2>2
  <2> QED
    BY <1>4, <2>2, <2>3 DEF ToSet
<1>7. ASSUME n < m
      PROVE  FALSE
  <2>1. /\ Before(a, m) \in Seq(S) /\ Len(Before(a, m)) = m - 1
        /\ \A k \in 1..(m - 1) : Before(a, m)[k] = a[k]
    BY <1>1, CutAt
  <2>2. n \in 1..(m - 1) /\ n \in 1..Len(a) /\ DOMAIN Before(a, m) = 1..(m - 1)
    BY <1>3, <1>5, <1>7, <2>1
  <2>3. Before(a, m)[n] = letter
    BY <1>4, <2>1, <2>2
  <2> QED
    BY <1>1, <2>2, <2>3 DEF ToSet
<1>8. m = n
  BY <1>3, <1>5, <1>6, <1>7
<1> QED
  BY <1>3, <1>8 DEF m, n

(* Of two places to cut a text at, the later one leaves the separator of   *)
(* the earlier one in the identifier, and the earlier one leaves that of   *)
(* the later one in the relation.  The type ends before both.              *)
LEMMA TwoCuts ==
    ASSUME NEW s \in Seq(Letters), NEW i \in DOMAIN s, NEW j \in DOMAIN s, i < j,
           s[i] = "#", s[j] = "#",
           IsObjectName(Before(s, i)), IsObjectName(Before(s, j))
    PROVE  /\ "#" \in ToSet(After(s, i))
           /\ "#" \in ToSet(ParseObject(Before(s, j)).id)
           /\ ParseObject(Before(s, i)).type = ParseObject(Before(s, j)).type
<1> DEFINE a == Before(s, i)
           b == Before(s, j)
           m == Index(a, ":")
           after == After(s, i)
<1>1. /\ i \in 1..Len(s) /\ Len(s) \in Nat
      /\ a \in Seq(Letters) /\ Len(a) = i - 1 /\ \A k \in 1..(i - 1) : a[k] = s[k]
      /\ after \in Seq(Letters) /\ Len(after) = Len(s) - i
      /\ \A k \in 1..(Len(s) - i) : after[k] = s[i + k]
  BY CutAt
<1>2. /\ j \in 1..Len(s)
      /\ b \in Seq(Letters) /\ Len(b) = j - 1 /\ \A k \in 1..(j - 1) : b[k] = s[k]
  BY CutAt
<1>3. IsObjectName(a) /\ IsObjectName(b)
  OBVIOUS
<1> HIDE DEF a, b, after
<1>4. "#" \in ToSet(after)
  <2>1. j - i \in 1..(Len(s) - i) /\ i + (j - i) = j /\ DOMAIN after = 1..(Len(s) - i)
    BY <1>1, <1>2
  <2>2. after[j - i] = "#"
    BY <1>1, <2>1
  <2> QED
    BY <2>1, <2>2 DEF ToSet
<1>5. Index(a, ":") # 0
  <2>1. Len(a) \in Nat
    BY <1>1
  <2> QED
    BY <1>3, <2>1 DEF IsObjectName
<1>order. i \in Nat /\ j \in Nat /\ i <= j - 1 /\ i >= 1
  BY <1>1, <1>2
<1>6. Len(a) <= Len(b) /\ \A k \in 1..Len(a) : a[k] = b[k]
  <2>1. Len(a) <= Len(b)
    BY <1>1, <1>2, <1>order
  <2>2. \A k \in 1..(i - 1) : k \in 1..(j - 1)
    BY <1>order
  <2> QED
    BY <1>1, <1>2, <2>1, <2>2
<1>7. Index(b, ":") = m /\ m \in 1..Len(a)
  BY <1>1, <1>2, <1>5, <1>6, IndexOfPrefix
<1>8. /\ ParseObject(a).type = Before(a, m) /\ ParseObject(b).type = Before(b, m)
      /\ ParseObject(b).id = After(b, m)
  BY <1>3, <1>7 DEF ParseObject, Object
<1> HIDE DEF m
<1>9. m \in DOMAIN a /\ m \in DOMAIN b /\ m \in Nat
  BY <1>1, <1>2, <1>6, <1>7
<1>10. /\ Before(a, m) \in Seq(Letters) /\ Len(Before(a, m)) = m - 1
       /\ \A k \in 1..(m - 1) : Before(a, m)[k] = a[k]
  BY <1>1, <1>9, CutAt
<1>11. /\ Before(b, m) \in Seq(Letters) /\ Len(Before(b, m)) = m - 1
       /\ \A k \in 1..(m - 1) : Before(b, m)[k] = b[k]
  BY <1>2, <1>9, CutAt
<1>12. /\ After(b, m) \in Seq(Letters) /\ Len(After(b, m)) = Len(b) - m
       /\ \A k \in 1..(Len(b) - m) : After(b, m)[k] = b[m + k]
  BY <1>2, <1>9, CutAt
<1>13. Before(a, m) = Before(b, m)
  <2>1. \A k \in 1..(m - 1) : a[k] = b[k]
    BY <1>6, <1>7, <1>9
  <2>2. \A k \in 1..Len(Before(a, m)) : Before(a, m)[k] = Before(b, m)[k]
    BY <1>10, <1>11, <2>1
  <2> QED
    BY <1>10, <1>11, <2>2, SeqEqual
<1>14. "#" \in ToSet(After(b, m))
  <2>1. /\ i - m \in 1..(Len(b) - m) /\ m + (i - m) = i /\ i \in 1..(j - 1)
    BY <1>1, <1>2, <1>order, <1>7, <1>9
  <2>2. After(b, m)[i - m] = b[i] /\ b[i] = "#"
    BY <1>2, <1>12, <2>1
  <2>3. i - m \in DOMAIN After(b, m)
    BY <1>12, <2>1
  <2> QED
    BY <2>2, <2>3 DEF ToSet
<1> QED
  BY <1>4, <1>8, <1>13, <1>14 DEF a, b, after

----------------------------------------------------------------------------
(* Texts.                                                                  *)

(* The first m parts of a sequence of sequences, one after the other.      *)
IsFlattening(f, seqs, m) ==
    f = [i \in 1..m |-> IF i = 1 THEN seqs[i] ELSE f[i - 1] \o seqs[i]]

LEMMA FlatteningExists ==
    ASSUME NEW seqs, NEW n \in Nat
    PROVE  \E f : IsFlattening(f, seqs, n)
<1> DEFINE good == {m \in Nat : \E f : IsFlattening(f, seqs, m)}
<1>1. 0 \in good
  <2> DEFINE f == [i \in 1..0 |-> seqs[i]]
  <2>1. IsFlattening(f, seqs, 0)
    BY DEF IsFlattening
  <2> QED
    BY <2>1
<1>2. ASSUME NEW m \in Nat, m \in good
      PROVE  m + 1 \in good
  <2>1. PICK f : IsFlattening(f, seqs, m)
    BY <1>2
  <2> DEFINE last == IF m = 0 THEN seqs[1] ELSE f[m] \o seqs[m + 1]
             g == [i \in 1..(m + 1) |-> IF i = m + 1 THEN last ELSE f[i]]
  <2>2. \A i \in 1..m : g[i] = f[i]
    OBVIOUS
  <2>3. g[m + 1] = last
    OBVIOUS
  <2>4. ASSUME NEW i \in 1..(m + 1)
        PROVE  g[i] = IF i = 1 THEN seqs[i] ELSE g[i - 1] \o seqs[i]
    <3> HIDE DEF g
    <3>1. CASE i = m + 1
      <4>1. CASE m = 0
        BY <2>3, <3>1, <4>1
      <4>2. CASE m # 0
        <5>1. m \in 1..m /\ i # 1 /\ i - 1 = m
          BY <3>1, <4>2
        <5>2. g[m] = f[m] /\ g[i] = f[m] \o seqs[m + 1]
          BY <2>2, <2>3, <3>1, <4>2, <5>1
        <5> QED
          BY <3>1, <5>1, <5>2
      <4> QED
        BY <4>1, <4>2
    <3>2. CASE i # m + 1
      <4>1. i \in 1..m
        BY <3>2
      <4>2. f[i] = IF i = 1 THEN seqs[i] ELSE f[i - 1] \o seqs[i]
        BY <2>1, <4>1 DEF IsFlattening
      <4>3. i # 1 => i - 1 \in 1..m
        BY <4>1
      <4> QED
        BY <2>2, <4>1, <4>2, <4>3
    <3> QED
      BY <3>1, <3>2
  <2>5. g = [i \in 1..(m + 1) |-> g[i]]
    OBVIOUS
  <2> HIDE DEF g
  <2>6. IsFlattening(g, seqs, m + 1)
    BY <2>4, <2>5 DEF IsFlattening
  <2> QED
    BY <2>6
<1> HIDE DEF good
<1>3. Nat \subseteq good
  BY <1>1, <1>2, Induct
<1> QED
  BY <1>3 DEF good

LEMMA FlattenIs ==
    ASSUME NEW S, NEW seqs \in Seq(Seq(S))
    PROVE  FlattenSeq(seqs) \in Seq(S)
<1> DEFINE n == Len(seqs)
           flat == CHOOSE f : IsFlattening(f, seqs, n)
           good == {m \in Nat : m \in 1..n => flat[m] \in Seq(S)}
<1>1. n \in Nat /\ DOMAIN seqs = 1..n /\ \A i \in 1..n : seqs[i] \in Seq(S)
  OBVIOUS
<1>2. CASE n = 0
  <2>1. FlattenSeq(seqs) = seqs
    BY <1>2 DEF FlattenSeq
  <2>2. seqs = << >>
    BY <1>2
  <2> QED
    BY <2>1, <2>2
<1>3. CASE n # 0
  <2>1. FlattenSeq(seqs) = flat[n]
    BY <1>3 DEF FlattenSeq, IsFlattening
  <2>2. IsFlattening(flat, seqs, n)
    <3> HIDE DEF n
    <3> QED
      BY <1>1, FlatteningExists
  <2> HIDE DEF flat, n
  <2>3. \A m \in 1..n : flat[m] = IF m = 1 THEN seqs[m] ELSE flat[m - 1] \o seqs[m]
    BY <2>2 DEF IsFlattening
  <2>4. 0 \in good
    OBVIOUS
  <2>5. ASSUME NEW m \in Nat, m \in good
        PROVE  m + 1 \in good
    <3>1. CASE m = 0
      BY <1>1, <2>3, <3>1
    <3>2. CASE m # 0 /\ m + 1 \in 1..n
      <4>1. m \in 1..n /\ m + 1 # 1 /\ (m + 1) - 1 = m
        BY <1>1, <3>2
      <4>2. flat[m] \in Seq(S) /\ seqs[m + 1] \in Seq(S)
        BY <1>1, <2>5, <3>2, <4>1
      <4>3. flat[m + 1] = flat[m] \o seqs[m + 1]
        BY <2>3, <3>2, <4>1
      <4>4. flat[m + 1] \in Seq(S)
        BY <4>2, <4>3
      <4> QED
        BY <4>4
    <3> QED
      BY <3>1, <3>2
  <2> HIDE DEF good
  <2>6. Nat \subseteq good
    BY <2>4, <2>5, Induct
  <2>7. n \in 1..n
    BY <1>1, <1>3
  <2> QED
    BY <1>1, <2>1, <2>6, <2>7 DEF good
<1> QED
  BY <1>2, <1>3

LEMMA WiderSequence ==
    ASSUME NEW S, NEW T, S \subseteq T, NEW s \in Seq(S)
    PROVE  s \in Seq(T)
<1>1. s = [i \in 1..Len(s) |-> s[i]] /\ Len(s) \in Nat /\ \A i \in 1..Len(s) : s[i] \in T
  OBVIOUS
<1> QED
  BY <1>1

(* A text is made of letters.                                              *)
TextInv == form \in Forms /\ body \in Seq(Seq(Letters))

LEMMA TextInvariance == Spec => []TextInv
<1>1. Init => TextInv
  BY DEF Init, TextInv
<1>2. TextInv /\ [Next]_vars => TextInv'
  <2> SUFFICES ASSUME TextInv, [Next]_vars PROVE TextInv'
    OBVIOUS
  <2>1. CASE Next
    <3>1. PICK fragment \in form.fragments : body' = Append(body, fragment)
      BY <2>1 DEF Next
    <3>2. fragment \in Seq(STRING)
      BY <3>1, FormsAssumption DEF TextInv
    <3>3. fragment \in Seq(Letters)
      <4>1. STRING \subseteq Letters
        BY DEF Letters
      <4> QED
        BY <3>2, <4>1, WiderSequence
    <3>4. body' \in Seq(Seq(Letters))
      BY <3>1, <3>3 DEF TextInv
    <3>5. form' = form
      BY <2>1 DEF Next
    <3> QED
      BY <3>4, <3>5 DEF TextInv
  <2>2. CASE UNCHANGED vars
    BY <2>2 DEF vars, TextInv
  <2> QED
    BY <2>1, <2>2
<1> QED
  BY <1>1, <1>2, PTL DEF Spec

LEMMA TextIs == TextInv => Text \in Seq(Letters)
BY FlattenIs DEF TextInv, Text

(* ParseSubject and Subject.String are inverse on every text that is       *)
(* accepted, of whatever letters, and no part of the object of a subject   *)
(* holds the separator of usersets.                                        *)
THEOREM SubjectsSurvive == Spec => []SubjectsRoundTrip
<1>1. TextInv => SubjectsRoundTrip
  BY TextIs, SubjectRoundTrip DEF SubjectsRoundTrip
<1> QED
  BY <1>1, TextInvariance, PTL

(* Two keys of the forward index, key() of storage.go, are the same only   *)
(* if the "#" that ends the name of one object is inside the relation of   *)
(* the other, and the other way round.  Identifiers may hold separators;   *)
(* if relations hold none, the key determines the object and the relation. *)
THEOREM KeysApart == Spec => []KeysDistinct
<1> DEFINE Owns(i, owner) ==
             /\ owner.object = ParseObject(Before(Text, i)) /\ owner.relation = After(Text, i)
             /\ IsObjectName(Before(Text, i)) /\ Text[i] = "#"
<1>1. ASSUME TextInv, NEW owner \in Owners
      PROVE  \E i \in DOMAIN Text : /\ Owns(i, owner)
                                    /\ owner = RelationKey(ParseObject(Before(Text, i)),
                                                           After(Text, i))
  <2>1. Text \in Seq(Letters)
    BY <1>1, TextIs
  <2>2. PICK i \in DOMAIN Text :
          owner = RelationKey(ParseObject(Before(Text, i)), After(Text, i))
    BY <1>1 DEF Owners
  <2>3. owner.object = ParseObject(Before(Text, i)) /\ owner.relation = After(Text, i)
    BY <2>2 DEF RelationKey
  <2>4. owner.object # Malformed.object /\ Joined(owner.object, owner.relation) = Text
    BY <1>1 DEF Owners
  <2>5. IsObjectName(Before(Text, i)) /\ Text[i] = "#"
    BY <2>1, <2>3, <2>4, CutAtSeparator
  <2> QED
    BY <2>2, <2>3, <2>5
<1>2. ASSUME TextInv, NEW i \in DOMAIN Text, NEW j \in DOMAIN Text, i < j,
             NEW one, NEW other, Owns(i, one), Owns(j, other)
      PROVE  /\ one.object.type = other.object.type
             /\ "#" \in ToSet(one.relation) \cap ToSet(other.object.id)
  <2>1. Text \in Seq(Letters)
    BY <1>2, TextIs
  <2> QED
    BY <1>2, <2>1, TwoCuts
<1>3. ASSUME TextInv, NEW one \in Owners, NEW other \in Owners, one # other
      PROVE  /\ one.object.type = other.object.type
             /\ \/ "#" \in ToSet(one.relation) \cap ToSet(other.object.id)
                \/ "#" \in ToSet(other.relation) \cap ToSet(one.object.id)
  <2>1. PICK i \in DOMAIN Text :
          Owns(i, one) /\ one = RelationKey(ParseObject(Before(Text, i)), After(Text, i))
    BY <1>1, <1>3
  <2>2. PICK j \in DOMAIN Text :
          Owns(j, other) /\ other = RelationKey(ParseObject(Before(Text, j)), After(Text, j))
    BY <1>1, <1>3
  <2>3. i # j
    BY <1>3, <2>1, <2>2
  <2>4. i \in Nat /\ j \in Nat
    <3>1. Text \in Seq(Letters)
      BY <1>3, TextIs
    <3> QED
      BY <3>1
  <2>5. CASE i < j
    BY <1>2, <1>3, <2>1, <2>2, <2>5
  <2>6. CASE j < i
    BY <1>2, <1>3, <2>1, <2>2, <2>6
  <2> QED
    BY <2>3, <2>4, <2>5, <2>6
<1>4. TextInv => KeysDistinct
  BY <1>3 DEF KeysDistinct
<1> QED
  BY <1>4, TextInvariance, PTL
=============================================================================
