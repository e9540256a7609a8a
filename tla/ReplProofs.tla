----------------------------- MODULE ReplProofs ------------------------------
(***************************************************************************)
(* EditorInBounds and HistoryOnFile hold in every behaviour of the line    *)
(* editor, for all keys, names, stored texts and rules of lines.  That     *)
(* a String is cut between two characters only is an argument about UTF-8: *)
(* whether bytes are well-formed is decided within three bytes, so         *)
(* well-formed pieces may be joined, and a well-formed line may be cut     *)
(* wherever the next byte does not continue a character.                   *)
(***************************************************************************)
EXTENDS Repl, TLAPS, WellFoundedInduction, FiniteSetTheorems, SequenceTheorems

-----------------------------------------------------------------------------
(* Sets of numbers.                                                         *)

LEMMA MinFacts ==
    ASSUME NEW T \in SUBSET Nat, T # {}
    PROVE  Min(T) \in T /\ \A y \in T : Min(T) <= y
<1>1. IsWellFoundedOn(OpToRel(<, Nat), Nat)
  BY NatLessThanWellFounded
<1>2. PICK x \in T : \A y \in T : ~(<<y, x>> \in OpToRel(<, Nat))
  BY <1>1, WFMin
<1>3. \A y \in T : ~(y < x)
  BY <1>2 DEF OpToRel
<1>4. \A y \in T : x <= y
  BY <1>3
<1>5. QED
  BY <1>4 DEF Min

LEMMA MaxFacts ==
    ASSUME NEW T \in SUBSET Nat, T # {}, NEW b \in Nat, \A x \in T : x <= b
    PROVE  Max(T) \in T /\ \A y \in T : y <= Max(T)
<1> DEFINE gap == {k \in Nat : \E x \in T : k = b - x}
<1>1. gap # {}
  <2>1. PICK x : x \in T
    OBVIOUS
  <2>2. b - x \in gap
    BY <2>1
  <2>3. QED
    BY <2>2
<1>2. /\ Min(gap) \in gap
      /\ \A k \in gap : Min(gap) <= k
  BY <1>1, MinFacts
<1>3. PICK x \in T : Min(gap) = b - x
  BY <1>2
<1>4. ASSUME NEW y \in T PROVE x >= y
  <2>1. b - y \in gap
    OBVIOUS
  <2>2. b - x <= b - y
    BY <1>2, <1>3, <2>1
  <2>3. QED
    BY <2>2
<1>5. QED
  BY <1>3, <1>4 DEF Max

\* The last place where a byte is one of those looked for, or the start.
LEMMA LastPlace ==
    ASSUME NEW n \in Nat, NEW P \in SUBSET (1..n)
    PROVE  /\ Max({0} \cup P) \in 0..n
           /\ Max({0} \cup P) # 0 => Max({0} \cup P) \in P
           /\ \A k \in P : k <= Max({0} \cup P)
<1> DEFINE T == {0} \cup P
<1>1. T \in SUBSET Nat /\ T # {} /\ \A x \in T : x <= n
  OBVIOUS
<1>2. Max(T) \in T /\ \A y \in T : y <= Max(T)
  BY <1>1, MaxFacts
<1>3. PICK m : m = Max(T)
  OBVIOUS
<1>4. m \in T /\ \A y \in T : y <= m
  BY <1>2, <1>3
<1>5. m \in 0..n /\ (m # 0 => m \in P) /\ \A k \in P : k <= m
  BY <1>4
<1>6. QED
  BY <1>3, <1>5

-----------------------------------------------------------------------------
(* Pieces of sequences.                                                     *)

LEMMA UptoFacts ==
    ASSUME NEW S, NEW s \in Seq(S), NEW n \in 0..Len(s)
    PROVE  /\ Upto(s, n) \in Seq(S)
           /\ Len(Upto(s, n)) = n
           /\ \A i \in 1..n : Upto(s, n)[i] = s[i]
BY SubSeqProperties DEF Upto

LEMMA FromFacts ==
    ASSUME NEW S, NEW s \in Seq(S), NEW n \in 0..Len(s)
    PROVE  /\ From(s, n + 1) \in Seq(S)
           /\ Len(From(s, n + 1)) = Len(s) - n
           /\ \A i \in 1..(Len(s) - n) : From(s, n + 1)[i] = s[n + i]
BY SubSeqProperties DEF From

LEMMA ConcatFacts ==
    ASSUME NEW S, NEW s \in Seq(S), NEW t \in Seq(S)
    PROVE  /\ s \o t \in Seq(S)
           /\ Len(s \o t) = Len(s) + Len(t)
           /\ \A i \in 1..Len(s) : (s \o t)[i] = s[i]
           /\ \A i \in 1..Len(t) : (s \o t)[Len(s) + i] = t[i]
OBVIOUS

-----------------------------------------------------------------------------
(* Strings.                                                                 *)

LEMMA ExtraRange == ASSUME NEW b PROVE extra(b) \in 0..2
BY DEF extra

\* A byte of a well-formed string that follows another one of its character.
Follows(s, k) ==
    \E j \in 1..2 : /\ k > j /\ extra(s[k - j]) >= j
                    /\ \A i \in 1..j : s[k - j + i] \in Cont

LEMMA WellFormedIs ==
    ASSUME NEW s \in Seq(Bytes)
    PROVE  WellFormed(s) <=>
              \A k \in 1..Len(s) :
                  /\ \A j \in 1..extra(s[k]) : k + j <= Len(s) /\ s[k + j] \in Cont
                  /\ s[k] \in Cont => Follows(s, k)
<1>1. DOMAIN s = 1..Len(s)
  OBVIOUS
<1>2. QED
  BY <1>1, Zenon DEF WellFormed, Follows

LEMMA StringBytes == ASSUME NEW s \in String PROVE s \in Seq(Bytes) /\ Len(s) \in Nat
BY DEF String

LEMMA EmptyString == <<>> \in String
BY DEF String, WellFormed

\* A character of one byte.
LEMMA OneByte ==
    ASSUME NEW b \in Bytes, b \notin Cont, extra(b) = 0
    PROVE  <<b>> \in String
<1> DEFINE s == <<b>>
<1>1. s \in Seq(Bytes)
  <2>1. ASSUME NEW S, NEW x \in S PROVE <<x>> \in Seq(S)
    OBVIOUS
  <2>2. QED
    BY <2>1
<1>2. Len(s) = 1 /\ s[1] = b
  OBVIOUS
<1> HIDE DEF s
<1>3. ASSUME NEW k \in 1..Len(s) PROVE s[k] \notin Cont /\ extra(s[k]) = 0
  <2>1. k = 1
    BY <1>2
  <2>2. QED
    BY <2>1, <1>2
<1>4. WellFormed(s)
  BY <1>1, <1>3, WellFormedIs
<1>5. QED
  BY <1>1, <1>4 DEF String, s

LEMMA JoinStrings ==
    ASSUME NEW s \in String, NEW t \in String
    PROVE  /\ s \o t \in String
           /\ is_char_boundary(s \o t, Len(s))
<1>1. s \in Seq(Bytes) /\ t \in Seq(Bytes) /\ Len(s) \in Nat /\ Len(t) \in Nat
  BY DEF String
<1> DEFINE w == s \o t
<1>2. /\ w \in Seq(Bytes)
      /\ Len(w) = Len(s) + Len(t)
      /\ \A i \in 1..Len(s) : w[i] = s[i]
      /\ \A i \in 1..Len(t) : w[Len(s) + i] = t[i]
  BY <1>1, ConcatFacts
<1>3. \A k \in 1..Len(s) :
          /\ \A j \in 1..extra(s[k]) : k + j <= Len(s) /\ s[k + j] \in Cont
          /\ s[k] \in Cont => Follows(s, k)
  BY <1>1, WellFormedIs DEF String
<1>4. \A k \in 1..Len(t) :
          /\ \A j \in 1..extra(t[k]) : k + j <= Len(t) /\ t[k + j] \in Cont
          /\ t[k] \in Cont => Follows(t, k)
  BY <1>1, WellFormedIs DEF String
<1> HIDE DEF w
<1>5. ASSUME NEW k \in 1..Len(s)
      PROVE  /\ \A j \in 1..extra(w[k]) : k + j <= Len(w) /\ w[k + j] \in Cont
             /\ w[k] \in Cont => Follows(w, k)
  <2>1. w[k] = s[k]
    BY <1>2
  <2>2. ASSUME NEW j \in 1..extra(w[k]) PROVE k + j <= Len(w) /\ w[k + j] \in Cont
    <3>1. extra(s[k]) \in 0..2
      BY ExtraRange
    <3>2. k + j <= Len(s) /\ s[k + j] \in Cont
      BY <1>3, <2>1, <3>1
    <3>3. k + j \in 1..Len(s)
      BY <3>1, <3>2, <2>1, <1>1
    <3>4. QED
      BY <3>2, <3>3, <1>2, <1>1
  <2>3. ASSUME w[k] \in Cont PROVE Follows(w, k)
    <3>1. Follows(s, k)
      BY <1>3, <2>1, <2>3
    <3>2. PICK j \in 1..2 : /\ k > j /\ extra(s[k - j]) >= j
                            /\ \A i \in 1..j : s[k - j + i] \in Cont
      BY <3>1 DEF Follows
    <3>3. w[k - j] = s[k - j]
      BY <3>2, <1>1, <1>2
    <3>4. \A i \in 1..j : w[k - j + i] = s[k - j + i]
      BY <3>2, <1>1, <1>2
    <3>5. QED
      BY <3>2, <3>3, <3>4 DEF Follows
  <2>4. QED
    BY <2>2, <2>3
<1>6. ASSUME NEW m \in 1..Len(t)
      PROVE  /\ \A j \in 1..extra(w[Len(s) + m]) :
                    Len(s) + m + j <= Len(w) /\ w[Len(s) + m + j] \in Cont
             /\ w[Len(s) + m] \in Cont => Follows(w, Len(s) + m)
  <2>1. w[Len(s) + m] = t[m]
    BY <1>2
  <2>2. ASSUME NEW j \in 1..extra(w[Len(s) + m])
        PROVE  Len(s) + m + j <= Len(w) /\ w[Len(s) + m + j] \in Cont
    <3>1. extra(t[m]) \in 0..2
      BY ExtraRange
    <3>2. m + j <= Len(t) /\ t[m + j] \in Cont
      BY <1>4, <2>1, <3>1
    <3>3. m + j \in 1..Len(t)
      BY <3>1, <3>2, <2>1, <1>1
    <3>4. w[Len(s) + (m + j)] = t[m + j]
      BY <3>3, <1>2
    <3>5. QED
      BY <3>2, <3>3, <3>4, <1>2, <1>1
  <2>3. ASSUME w[Len(s) + m] \in Cont PROVE Follows(w, Len(s) + m)
    <3>1. Follows(t, m)
      BY <1>4, <2>1, <2>3
    <3>2. PICK j \in 1..2 : /\ m > j /\ extra(t[m - j]) >= j
                            /\ \A i \in 1..j : t[m - j + i] \in Cont
      BY <3>1 DEF Follows
    <3>3. w[Len(s) + (m - j)] = t[m - j]
      <4>1. m - j \in 1..Len(t)
        BY <3>2
      <4>2. QED
        BY <4>1, <1>2
    <3>4. ASSUME NEW i \in 1..j PROVE w[Len(s) + m - j + i] \in Cont
      <4>1. m - j + i \in 1..Len(t)
        BY <3>2
      <4>2. w[Len(s) + (m - j + i)] = t[m - j + i]
        BY <4>1, <1>2
      <4>3. Len(s) + (m - j + i) = Len(s) + m - j + i
        BY <1>1
      <4>4. QED
        BY <4>2, <4>3, <3>2
    <3>5. Len(s) + (m - j) = Len(s) + m - j
      BY <1>1
    <3>6. Len(s) + m > j
      BY <3>2, <1>1
    <3>7. extra(w[Len(s) + m - j]) >= j
      BY <3>2, <3>3, <3>5
    <3>8. PICK k : k = Len(s) + m
      OBVIOUS
    <3>9. Follows(w, k)
      <4>1. k > j /\ extra(w[k - j]) >= j /\ \A i \in 1..j : w[k - j + i] \in Cont
        BY <3>4, <3>6, <3>7, <3>8
      <4>2. QED
        BY <4>1 DEF Follows
    <3>10. QED
      BY <3>8, <3>9
  <2>4. QED
    BY <2>2, <2>3
<1>7. \A k \in 1..Len(w) : k \in 1..Len(s) \/ \E m \in 1..Len(t) : k = Len(s) + m
  <2>1. SUFFICES ASSUME NEW k \in 1..Len(w), k \notin 1..Len(s)
                 PROVE  \E m \in 1..Len(t) : k = Len(s) + m
    OBVIOUS
  <2>2. k - Len(s) \in 1..Len(t) /\ k = Len(s) + (k - Len(s))
    BY <2>1, <1>1, <1>2
  <2>3. QED
    BY <2>2
<1>8. WellFormed(w)
  <2>1. ASSUME NEW k \in 1..Len(w)
        PROVE  /\ \A j \in 1..extra(w[k]) : k + j <= Len(w) /\ w[k + j] \in Cont
               /\ w[k] \in Cont => Follows(w, k)
    <3>1. CASE k \in 1..Len(s)
      BY <3>1, <1>5
    <3>2. CASE \E m \in 1..Len(t) : k = Len(s) + m
      BY <3>2, <1>6
    <3>3. QED
      BY <3>1, <3>2, <1>7
  <2>2. QED
    BY <2>1, <1>2, WellFormedIs
<1>9. is_char_boundary(w, Len(s))
  <2>1. CASE Len(t) = 0
    BY <2>1, <1>1, <1>2 DEF is_char_boundary
  <2>2. CASE Len(t) # 0
    <3>1. 1 \in 1..Len(t)
      BY <2>2, <1>1
    <3>2. ~Follows(t, 1)
      BY DEF Follows
    <3>3. t[1] \notin Cont
      BY <3>1, <3>2, <1>4
    <3>4. w[Len(s) + 1] \notin Cont
      BY <3>1, <3>3, <1>2
    <3>5. QED
      BY <3>4, <1>1, <1>2 DEF is_char_boundary
  <2>3. QED
    BY <2>1, <2>2
<1>10. QED
  BY <1>2, <1>8, <1>9 DEF String, w

\* A string may be cut where the next byte does not continue a character.
LEMMA CutString ==
    ASSUME NEW s \in String, NEW n, is_char_boundary(s, n)
    PROVE  Upto(s, n) \in String /\ From(s, n + 1) \in String
<1>1. s \in Seq(Bytes) /\ Len(s) \in Nat
  BY DEF String
<1>2. n \in 0..Len(s) /\ (n # 0 /\ n # Len(s) => s[n + 1] \notin Cont)
  BY DEF is_char_boundary
<1>3. \A k \in 1..Len(s) :
          /\ \A j \in 1..extra(s[k]) : k + j <= Len(s) /\ s[k + j] \in Cont
          /\ s[k] \in Cont => Follows(s, k)
  BY <1>1, WellFormedIs DEF String
<1>4. Upto(s, n) \in String
  <2> DEFINE u == Upto(s, n)
  <2>1. u \in Seq(Bytes) /\ Len(u) = n /\ \A i \in 1..n : u[i] = s[i]
    BY <1>1, <1>2, UptoFacts
  <2> HIDE DEF u
  <2>2. ASSUME NEW k \in 1..Len(u)
        PROVE  /\ \A j \in 1..extra(u[k]) : k + j <= Len(u) /\ u[k + j] \in Cont
               /\ u[k] \in Cont => Follows(u, k)
    <3>1. k \in 1..Len(s) /\ k <= n /\ u[k] = s[k]
      BY <2>1, <1>1, <1>2
    <3>2. ASSUME NEW j \in 1..extra(u[k]) PROVE k + j <= Len(u) /\ u[k + j] \in Cont
      <4>1. extra(s[k]) \in 0..2 /\ j \in 1..extra(s[k])
        BY <3>1, ExtraRange
      <4>2. k + j <= Len(s) /\ s[k + j] \in Cont
        BY <4>1, <3>1, <1>3
      <4>3. k + j <= n
        <5>1. SUFFICES ASSUME n < k + j PROVE FALSE
          BY <1>2, <4>1, <3>1
        <5>2. n # 0 /\ n # Len(s)
          BY <5>1, <4>2, <4>1, <3>1, <1>2
        <5>3. n + 1 - k \in 1..extra(s[k]) /\ k + (n + 1 - k) = n + 1
          BY <5>1, <4>1, <3>1, <1>2
        <5>4. s[n + 1] \in Cont
          BY <5>3, <3>1, <1>3
        <5>5. QED
          BY <5>2, <5>4, <1>2
      <4>4. u[k + j] = s[k + j]
        BY <4>3, <4>1, <3>1, <2>1
      <4>5. QED
        BY <4>2, <4>3, <4>4, <2>1
    <3>3. ASSUME u[k] \in Cont PROVE Follows(u, k)
      <4>1. PICK j \in 1..2 : /\ k > j /\ extra(s[k - j]) >= j
                              /\ \A i \in 1..j : s[k - j + i] \in Cont
        BY <3>1, <3>3, <1>3 DEF Follows
      <4>2. u[k - j] = s[k - j]
        BY <4>1, <3>1, <2>1
      <4>3. \A i \in 1..j : u[k - j + i] = s[k - j + i]
        BY <4>1, <3>1, <2>1
      <4>4. QED
        BY <4>1, <4>2, <4>3 DEF Follows
    <3>4. QED
      BY <3>2, <3>3
  <2>3. WellFormed(u)
    BY <2>1, <2>2, WellFormedIs
  <2>4. QED
    BY <2>1, <2>3 DEF String, u
<1>5. From(s, n + 1) \in String
  <2> DEFINE u == From(s, n + 1)
  <2>1. /\ u \in Seq(Bytes) /\ Len(u) = Len(s) - n
        /\ \A i \in 1..(Len(s) - n) : u[i] = s[n + i]
    BY <1>1, <1>2, FromFacts
  <2> HIDE DEF u
  <2>2. ASSUME NEW k \in 1..Len(u)
        PROVE  /\ \A j \in 1..extra(u[k]) : k + j <= Len(u) /\ u[k + j] \in Cont
               /\ u[k] \in Cont => Follows(u, k)
    <3>1. n + k \in 1..Len(s) /\ u[k] = s[n + k]
      BY <2>1, <1>1, <1>2
    <3>2. ASSUME NEW j \in 1..extra(u[k]) PROVE k + j <= Len(u) /\ u[k + j] \in Cont
      <4>1. extra(s[n + k]) \in 0..2 /\ j \in 1..extra(s[n + k])
        BY <3>1, ExtraRange
      <4>2. n + k + j <= Len(s) /\ s[n + k + j] \in Cont
        BY <4>1, <3>1, <1>3
      <4>3. k + j \in 1..(Len(s) - n) /\ n + (k + j) = n + k + j
        BY <4>1, <4>2, <1>1, <1>2
      <4>4. u[k + j] = s[n + (k + j)]
        BY <4>3, <2>1
      <4>5. QED
        BY <4>2, <4>3, <4>4, <2>1
    <3>3. ASSUME u[k] \in Cont PROVE Follows(u, k)
      <4> DEFINE p == n + k
      <4>1. p \in 1..Len(s) /\ s[p] \in Cont
        BY <3>1, <3>3
      <4> HIDE DEF p
      <4>2. PICK j \in 1..2 : /\ p > j /\ extra(s[p - j]) >= j
                              /\ \A i \in 1..j : s[p - j + i] \in Cont
        BY <4>1, <1>3 DEF Follows
      <4>3. k > j
        <5>1. SUFFICES ASSUME k <= j PROVE FALSE
          OBVIOUS
        <5>2. n # 0 /\ n # Len(s)
          BY <5>1, <4>1, <4>2, <1>2 DEF p
        <5>3. 1 + j - k \in 1..j /\ p - j + (1 + j - k) = n + 1
          BY <5>1, <1>2 DEF p
        <5>4. s[n + 1] \in Cont
          BY <5>3, <4>2
        <5>5. QED
          BY <5>2, <5>4, <1>2
      <4>4. u[k - j] = s[p - j]
        <5>1. k - j \in 1..(Len(s) - n) /\ n + (k - j) = p - j
          BY <4>3, <4>1, <1>1, <1>2 DEF p
        <5>2. QED
          BY <5>1, <2>1
      <4>5. ASSUME NEW i \in 1..j PROVE u[k - j + i] = s[p - j + i]
        <5>1. k - j + i \in 1..(Len(s) - n) /\ n + (k - j + i) = p - j + i
          BY <4>3, <4>1, <1>1, <1>2 DEF p
        <5>2. QED
          BY <5>1, <2>1
      <4>6. QED
        BY <4>2, <4>3, <4>4, <4>5 DEF Follows
    <3>4. QED
      BY <3>2, <3>3
  <2>3. WellFormed(u)
    BY <2>1, <2>2, WellFormedIs
  <2>4. QED
    BY <2>1, <2>3 DEF String, u
<1>6. QED
  BY <1>4, <1>5

\* Before and after a character of one byte, and at both ends, a string may be cut.
LEMMA AfterOneByte ==
    ASSUME NEW s \in String, NEW k \in 1..Len(s), s[k] \notin Cont, extra(s[k]) = 0
    PROVE  is_char_boundary(s, k)
<1>1. s \in Seq(Bytes) /\ Len(s) \in Nat
  BY DEF String
<1>2. SUFFICES ASSUME k # Len(s), s[k + 1] \in Cont PROVE FALSE
  BY <1>1 DEF is_char_boundary
<1>3. k + 1 \in 1..Len(s)
  BY <1>1, <1>2
<1>4. Follows(s, k + 1)
  BY <1>1, <1>2, <1>3, WellFormedIs DEF String
<1>5. PICK j \in 1..2 : /\ k + 1 > j /\ extra(s[k + 1 - j]) >= j
                        /\ \A i \in 1..j : s[k + 1 - j + i] \in Cont
  BY <1>4 DEF Follows
<1>6. CASE j = 1
  <2>1. k + 1 - j = k
    BY <1>6
  <2>2. QED
    BY <2>1, <1>5, <1>6
<1>7. CASE j = 2
  <2>1. k + 1 - j + 1 = k /\ 1 \in 1..j
    BY <1>7
  <2>2. s[k] \in Cont
    BY <2>1, <1>5
  <2>3. QED
    BY <2>2
<1>8. QED
  BY <1>6, <1>7

LEMMA Ends ==
    ASSUME NEW s \in String
    PROVE  is_char_boundary(s, 0) /\ is_char_boundary(s, Len(s))
BY DEF is_char_boundary, String

LEMMA BeforeOther ==
    ASSUME NEW s \in String, NEW n \in 0..Len(s), n < Len(s) => s[n + 1] \notin Cont
    PROVE  is_char_boundary(s, n)
BY DEF is_char_boundary, String

-----------------------------------------------------------------------------
(* String::from_utf8_lossy.                                                 *)

LEMMA TailFacts ==
    ASSUME NEW s \in Seq(Bytes), s # <<>>
    PROVE  /\ tail(s) \in 0..extra(s[1]) /\ tail(s) < Len(s)
           /\ \A j \in 1..tail(s) : s[j + 1] \in Cont
<1> DEFINE T == {k \in 0..extra(s[1]) : k < Len(s) /\ \A j \in 1..k : s[j + 1] \in Cont}
<1>1. extra(s[1]) \in 0..2
  BY ExtraRange
<1>2. 0 \in T
  BY <1>1
<1>3. T \in SUBSET Nat /\ \A x \in T : x <= 2
  BY <1>1
<1>4. Max(T) \in T
  BY <1>2, <1>3, MaxFacts
<1>5. QED
  BY <1>4 DEF tail

LEMMA ReplacementString == REPLACEMENT \in String
<1>1. REPLACEMENT \in Seq(Bytes) /\ Len(REPLACEMENT) = 3
  <2>1. ASSUME NEW S, NEW x \in S, NEW y \in S
        PROVE  <<x, y, y>> \in Seq(S) /\ Len(<<x, y, y>>) = 3
    OBVIOUS
  <2>2. Lead3 \in Bytes /\ "10xxxxx1" \in Bytes
    BY ReplAssumption DEF Cont
  <2>3. QED
    BY <2>1, <2>2 DEF REPLACEMENT
<1>2. /\ REPLACEMENT[1] = Lead3 /\ REPLACEMENT[2] = "10xxxxx1" /\ REPLACEMENT[3] = "10xxxxx1"
  BY DEF REPLACEMENT
<1>3. extra(Lead3) = 2 /\ Lead3 \notin Cont /\ extra("10xxxxx1") = 0 /\ "10xxxxx1" \in Cont
  BY DEF extra, Lead3, Lead2, Cont
<1> DEFINE s == REPLACEMENT
<1> HIDE DEF s
<1>4. Follows(s, 2)
  <2>1. 1 \in 1..2 /\ 2 > 1 /\ extra(s[2 - 1]) >= 1 /\ \A i \in 1..1 : s[2 - 1 + i] \in Cont
    BY <1>2, <1>3 DEF s
  <2>2. QED
    BY <2>1 DEF Follows
<1>5. Follows(s, 3)
  <2>1. 2 \in 1..2 /\ 3 > 2 /\ extra(s[3 - 2]) >= 2 /\ \A i \in 1..2 : s[3 - 2 + i] \in Cont
    BY <1>2, <1>3 DEF s
  <2>2. QED
    BY <2>1 DEF Follows
<1>6. ASSUME NEW k \in 1..Len(s)
      PROVE  /\ \A j \in 1..extra(s[k]) : k + j <= Len(s) /\ s[k + j] \in Cont
             /\ s[k] \in Cont => Follows(s, k)
  <2>1. CASE k = 1
    BY <2>1, <1>1, <1>2, <1>3 DEF s
  <2>2. CASE k = 2
    BY <2>2, <1>4, <1>1, <1>2, <1>3 DEF s
  <2>3. CASE k = 3
    BY <2>3, <1>5, <1>1, <1>2, <1>3 DEF s
  <2>4. QED
    BY <2>1, <2>2, <2>3, <1>1 DEF s
<1>7. WellFormed(s)
  BY <1>1, <1>6, WellFormedIs DEF s
<1>8. QED
  BY <1>1, <1>7 DEF String, s

LEMMA DecodeString ==
    ASSUME NEW s \in Seq(Bytes)
    PROVE  decode(s) \in String /\ undecoded(s) \in Seq(Bytes)
<1>1. CASE s = <<>>
  BY <1>1, EmptyString DEF decode, undecoded
<1>2. CASE s # <<>>
  <2>1. /\ tail(s) \in 0..extra(s[1]) /\ tail(s) < Len(s) /\ Len(s) \in Nat
        /\ \A j \in 1..tail(s) : s[j + 1] \in Cont
    BY <1>2, TailFacts
  <2>2. extra(s[1]) \in 0..2
    BY ExtraRange
  <2>3. undecoded(s) \in Seq(Bytes)
    <3>1. tail(s) + 1 \in 0..Len(s) /\ tail(s) + 1 + 1 = tail(s) + 2
      BY <2>1, <2>2
    <3>2. From(s, tail(s) + 1 + 1) \in Seq(Bytes)
      BY <3>1, FromFacts
    <3>3. QED
      BY <3>1, <3>2, <1>2 DEF undecoded
  <2>4. CASE tail(s) = extra(s[1]) /\ s[1] \notin Cont
    <3> DEFINE u == Upto(s, tail(s) + 1)
    <3>1. /\ u \in Seq(Bytes) /\ Len(u) = extra(s[1]) + 1
          /\ \A i \in 1..(extra(s[1]) + 1) : u[i] = s[i]
      BY <2>1, <2>2, <2>4, UptoFacts
    <3>2. u[1] = s[1]
      BY <3>1, <2>2
    <3>3. \A i \in 1..extra(s[1]) : u[1 + i] \in Cont
      BY <3>1, <2>1, <2>2, <2>4
    <3> HIDE DEF u
    <3>4. ASSUME NEW b \in Cont PROVE extra(b) = 0
      BY DEF Cont, extra, Lead2, Lead3
    <3>5. ASSUME NEW k \in 1..Len(u)
          PROVE  /\ \A j \in 1..extra(u[k]) : k + j <= Len(u) /\ u[k + j] \in Cont
                 /\ u[k] \in Cont => Follows(u, k)
      <4>1. CASE k = 1
        BY <4>1, <3>1, <3>2, <3>3, <2>2, <2>4
      <4>2. CASE k # 1
        <5>1. k - 1 \in 1..extra(s[1]) /\ 1 + (k - 1) = k
          BY <4>2, <3>1, <2>2
        <5>2. u[k] \in Cont /\ extra(u[k]) = 0
          BY <5>1, <3>3, <3>4
        <5>3. Follows(u, k)
          <6>1. k - 1 \in 1..2 /\ k > k - 1 /\ k - (k - 1) = 1
            BY <5>1, <2>2
          <6>2. extra(u[k - (k - 1)]) >= k - 1
            BY <6>1, <5>1, <3>2, <2>2
          <6>3. \A i \in 1..(k - 1) : u[k - (k - 1) + i] \in Cont
            BY <6>1, <5>1, <3>3, <2>2
          <6>4. QED
            BY <6>1, <6>2, <6>3 DEF Follows
        <5>4. QED
          BY <5>2, <5>3
      <4>3. QED
        BY <4>1, <4>2
    <3>6. u \in String
      BY <3>1, <3>5, WellFormedIs DEF String
    <3>7. QED
      BY <3>6, <2>3, <2>4, <1>2 DEF decode, u
  <2>5. CASE ~(tail(s) = extra(s[1]) /\ s[1] \notin Cont)
    BY <2>3, <2>5, <1>2, ReplacementString DEF decode
  <2>6. QED
    BY <2>4, <2>5
<1>3. QED
  BY <1>1, <1>2

\* Whatever bytes a key sends, what is inserted is a string.
LEMMA LossyString == ASSUME NEW s \in Seq(Bytes) PROVE lossy(s) \in String
<1>1. decode(s) \in String /\ undecoded(s) \in Seq(Bytes)
  BY DecodeString
<1>2. decode(undecoded(s)) \in String /\ undecoded(undecoded(s)) \in Seq(Bytes)
  BY <1>1, DecodeString
<1>3. decode(undecoded(undecoded(s))) \in String
  BY <1>2, DecodeString
<1>4. decode(s) \o decode(undecoded(s)) \in String
  BY <1>1, <1>2, JoinStrings
<1>5. QED
  BY <1>3, <1>4, JoinStrings DEF lossy

-----------------------------------------------------------------------------
(* Where the editor cuts.                                                   *)

\* A string and an offset between two of its characters.
Between(s, k) == s \in String /\ is_char_boundary(s, k)

LEMMA OffsetRange ==
    ASSUME NEW s, NEW k, Between(s, k)
    PROVE  s \in Seq(Bytes) /\ Len(s) \in Nat /\ k \in 0..Len(s)
BY DEF Between, String, is_char_boundary

\* What is cut out between two offsets leaves a string and the first offset.
LEMMA CutOut ==
    ASSUME NEW s, NEW a, NEW b, Between(s, a), Between(s, b)
    PROVE  Between(Without(s, a, b), a)
<1>1. Upto(s, a) \in String /\ From(s, b + 1) \in String
  BY CutString DEF Between
<1>2. Len(Upto(s, a)) = a
  BY OffsetRange, UptoFacts
<1>3. QED
  BY <1>1, <1>2, JoinStrings DEF Without, Between

LEMMA PrevBoundary ==
    ASSUME NEW s, NEW k, Between(s, k), k # 0
    PROVE  Between(s, prev_boundary(s, k))
<1> DEFINE T == {j \in Boundaries(s) : j < k}
<1>1. s \in Seq(Bytes) /\ Len(s) \in Nat /\ k \in 0..Len(s)
  BY OffsetRange
<1>2. 0 \in T
  BY <1>1, Ends DEF Boundaries, Between
<1>3. T \in SUBSET Nat /\ \A x \in T : x <= Len(s)
  BY <1>1 DEF Boundaries
<1>4. Max(T) \in T
  BY <1>1, <1>2, <1>3, MaxFacts
<1>5. QED
  BY <1>4 DEF prev_boundary, Boundaries, Between

LEMMA NextBoundary ==
    ASSUME NEW s, NEW k, Between(s, k), k # Len(s)
    PROVE  Between(s, next_boundary(s, k))
<1> DEFINE T == {j \in Boundaries(s) : j > k}
<1>1. s \in Seq(Bytes) /\ Len(s) \in Nat /\ k \in 0..Len(s)
  BY OffsetRange
<1>2. Len(s) \in T
  BY <1>1, Ends DEF Boundaries, Between
<1>3. T \in SUBSET Nat
  BY <1>1 DEF Boundaries
<1>4. Min(T) \in T
  BY <1>2, <1>3, MinFacts
<1>5. QED
  BY <1>4 DEF next_boundary, Boundaries, Between

\* The bytes the editor and completion look for are characters of one byte.
OneByteNames == {" ", "\\", "/"} \cup Separators \cup Quotes

LEMMA NamesAreOneByte ==
    ASSUME NEW b \in OneByteNames PROVE b \notin Cont /\ extra(b) = 0
BY DEF OneByteNames, Separators, Quotes, Cont, extra, Lead2, Lead3

\* After the last place of such a byte, if there is one, a string may be cut.
LEMMA AfterName ==
    ASSUME NEW s \in String, NEW n \in 0..Len(s), n # 0 => s[n] \in OneByteNames
    PROVE  Between(s, n)
<1>1. CASE n = 0
  BY <1>1, Ends DEF Between
<1>2. CASE n # 0
  BY <1>2, AfterOneByte, NamesAreOneByte DEF Between, String
<1>3. QED
  BY <1>1, <1>2

LEMMA WordBefore ==
    ASSUME NEW s, NEW k, Between(s, k)
    PROVE  Between(s, word_before(s, k))
<1>1. s \in String /\ Len(s) \in Nat /\ k \in 0..Len(s)
  BY OffsetRange DEF Between
<1> DEFINE Q == {j \in 1..k : s[j] # " "}
           end == Max({0} \cup Q)
           P == {j \in 1..end : s[j] = " "}
<1>2. end \in 0..k
  <2>1. Q \in SUBSET (1..k)
    OBVIOUS
  <2>2. k \in Nat
    BY <1>1
  <2>3. QED
    BY <2>1, <2>2, LastPlace
<1> HIDE DEF end
<1>3. P \in SUBSET (1..end) /\ end \in Nat
  <2>1. P \in SUBSET (1..end)
    OBVIOUS
  <2>2. end \in Nat
    BY <1>1, <1>2
  <2>3. QED
    BY <2>1, <2>2
<1>4. Max({0} \cup P) \in 0..end /\ (Max({0} \cup P) # 0 => Max({0} \cup P) \in P)
  BY <1>3, LastPlace
<1>5. word_before(s, k) = Max({0} \cup P)
  BY DEF word_before, end
<1>6. word_before(s, k) \in 0..Len(s)
  <2>1. PICK m : m = word_before(s, k)
    OBVIOUS
  <2>2. m \in 0..end
    BY <2>1, <1>4, <1>5
  <2>3. QED
    BY <2>1, <2>2, <1>1, <1>2
<1>7. word_before(s, k) # 0 => s[word_before(s, k)] \in OneByteNames
  BY <1>4, <1>5 DEF OneByteNames
<1>8. QED
  BY <1>1, <1>6, <1>7, AfterName

\* The line that is continued, without the backslashes at its end.
LEMMA WithoutBackslashes ==
    ASSUME NEW s \in String
    PROVE  Upto(s, Max({0} \cup {k \in DOMAIN s : s[k] # "\\"})) \in String
<1> DEFINE P == {k \in DOMAIN s : s[k] # "\\"}
           n == Max({0} \cup P)
<1>1. s \in Seq(Bytes) /\ Len(s) \in Nat /\ DOMAIN s = 1..Len(s)
  BY DEF String
<1>2. n \in 0..Len(s) /\ \A k \in P : k <= n
  BY <1>1, LastPlace
<1> HIDE DEF n
<1>3. n < Len(s) => s[n + 1] = "\\"
  BY <1>1, <1>2
<1>4. n < Len(s) => s[n + 1] \notin Cont
  BY <1>3 DEF Cont
<1>5. is_char_boundary(s, n)
  BY <1>2, <1>4, BeforeOther
<1>6. QED
  BY <1>5, CutString DEF n

\* A text without the blanks at its end.
LEMMA TrimmedString == ASSUME NEW s \in String PROVE Trimmed(s) \in String
<1> DEFINE P == {k \in DOMAIN s : s[k] \notin {" ", "\t"}}
           n == Max({0} \cup P)
<1>1. s \in Seq(Bytes) /\ Len(s) \in Nat /\ DOMAIN s = 1..Len(s)
  BY DEF String
<1>2. n \in 0..Len(s) /\ \A k \in P : k <= n
  BY <1>1, LastPlace
<1> HIDE DEF n
<1>3. n < Len(s) => s[n + 1] \in {" ", "\t"}
  <2>1. SUFFICES ASSUME n < Len(s) PROVE s[n + 1] \in {" ", "\t"}
    OBVIOUS
  <2>0. n \in Nat /\ Len(s) \in Nat
    <3>1. n \in 0..Len(s)
      BY <1>2
    <3>2. Len(s) \in Nat
      BY <1>1
    <3>3. QED
      BY <3>1, <3>2
  <2>2. n + 1 \in DOMAIN s /\ ~(n + 1 <= n)
    <3>1. n + 1 \in 1..Len(s) /\ ~(n + 1 <= n)
      BY <2>0, <2>1
    <3>2. QED
      BY <3>1, <1>1
  <2>3. n + 1 \notin P
    BY <2>2, <1>2
  <2>4. QED
    BY <2>2, <2>3
<1>4. n < Len(s) => s[n + 1] \notin Cont
  BY <1>3 DEF Cont
<1>5. is_char_boundary(s, n)
  BY <1>2, <1>4, BeforeOther
<1>6. QED
  BY <1>5, CutString DEF n, Trimmed

LEMMA MaxOfTwo ==
    ASSUME NEW a \in Int, NEW b \in Int
    PROVE  Max({a, b}) = IF a >= b THEN a ELSE b
<1>1. \E x \in {a, b} : \A y \in {a, b} : x >= y
  OBVIOUS
<1>2. Max({a, b}) \in {a, b} /\ \A y \in {a, b} : Max({a, b}) >= y
  BY <1>1 DEF Max
<1>3. QED
  BY <1>2

LEMMA LastNFacts ==
    ASSUME NEW S, NEW s \in Seq(S), NEW n \in Nat
    PROVE  \E k \in 0..Len(s) : /\ k = IF Len(s) <= n THEN 0 ELSE Len(s) - n
                                /\ LastN(s, n) = From(s, k + 1)
<1>1. Max({1, Len(s) - n + 1}) = IF 1 >= Len(s) - n + 1 THEN 1 ELSE Len(s) - n + 1
  BY MaxOfTwo
<1> DEFINE k == IF Len(s) <= n THEN 0 ELSE Len(s) - n
<1>2. k \in 0..Len(s) /\ Max({1, Len(s) - n + 1}) = k + 1
  BY <1>1
<1>3. LastN(s, n) = From(s, k + 1)
  BY <1>2 DEF LastN
<1>4. QED
  BY <1>2, <1>3

-----------------------------------------------------------------------------
(* The lines of a text.                                                     *)

\* The members of T below c; how many they are is the place of c in T.
Below(T, c) == {d \in T : d < c}

LEMMA BelowFinite ==
    ASSUME NEW T, IsFiniteSet(T), NEW c
    PROVE  IsFiniteSet(Below(T, c)) /\ Cardinality(Below(T, c)) \in Nat
BY FS_Subset, FS_CardinalityType DEF Below

LEMMA BelowNext ==
    ASSUME NEW T \in SUBSET Nat, IsFiniteSet(T), NEW c \in T, NEW e \in T, c < e,
           \A d \in T : d > c => d >= e
    PROVE  Cardinality(Below(T, e)) = Cardinality(Below(T, c)) + 1
<1>1. ASSUME NEW d \in T PROVE d < e <=> d < c \/ d = c
  OBVIOUS
<1>2. Below(T, e) = Below(T, c) \cup {c} /\ c \notin Below(T, c)
  <2>1. c \in Nat /\ ~(c < c)
    OBVIOUS
  <2>2. \A d \in T : d \in Below(T, e) <=> d \in Below(T, c) \/ d = c
    BY <1>1 DEF Below
  <2>3. Below(T, e) \subseteq T /\ Below(T, c) \subseteq T
    BY DEF Below
  <2>4. Below(T, e) = Below(T, c) \cup {c}
    BY <2>2, <2>3
  <2>5. QED
    BY <2>1, <2>4 DEF Below
<1>3. QED
  BY <1>2, BelowFinite, FS_AddElement

LEMMA BelowGrows ==
    ASSUME NEW T \in SUBSET Nat, IsFiniteSet(T), NEW c \in T, NEW e \in T, c < e
    PROVE  Cardinality(Below(T, c)) < Cardinality(Below(T, e))
<1>0. \A d \in T : d < c => d < e
  OBVIOUS
<1>1. Below(T, c) \cup {c} \subseteq Below(T, e) /\ c \notin Below(T, c)
  <2>1. c \in Nat /\ ~(c < c)
    OBVIOUS
  <2>2. c \notin Below(T, c)
    BY <2>1 DEF Below
  <2>3. c \in Below(T, e)
    BY DEF Below
  <2>4. Below(T, c) \subseteq Below(T, e)
    BY <1>0 DEF Below
  <2>5. QED
    BY <2>2, <2>3, <2>4
<1>2. /\ IsFiniteSet(Below(T, c)) /\ Cardinality(Below(T, c)) \in Nat
      /\ IsFiniteSet(Below(T, e)) /\ Cardinality(Below(T, e)) \in Nat
  BY BelowFinite
<1>3. Cardinality(Below(T, c) \cup {c}) = Cardinality(Below(T, c)) + 1
  BY <1>1, <1>2, FS_AddElement
<1>4. Cardinality(Below(T, c) \cup {c}) <= Cardinality(Below(T, e))
  BY <1>1, <1>2, FS_Subset
<1>5. QED
  BY <1>2, <1>3, <1>4

\* Every place below the number of members is taken.
LEMMA PlaceTaken ==
    ASSUME NEW T \in SUBSET Nat, IsFiniteSet(T), NEW j \in Nat, j < Cardinality(T)
    PROVE  \E c \in T : Cardinality(Below(T, c)) = j
<1>1. Cardinality(T) \in Nat
  BY FS_CardinalityType
<1> DEFINE free == {k \in Nat : k < Cardinality(T) /\ \A c \in T : Cardinality(Below(T, c)) # k}
<1>2. SUFFICES ASSUME free # {} PROVE FALSE
  OBVIOUS
<1>3. Min(free) \in free /\ \A k \in free : Min(free) <= k
  BY <1>2, MinFacts
<1>4. PICK m \in free : \A k \in free : m <= k
  BY <1>3
<1>5. T # {}
  BY <1>4, <1>1, FS_EmptySet
<1>6. CASE m = 0
  <2>1. Min(T) \in T /\ \A y \in T : Min(T) <= y
    BY <1>5, MinFacts
  <2>2. PICK c \in T : \A y \in T : c <= y
    BY <2>1
  <2>3. Below(T, c) = {}
    <3>1. \A d \in T : ~(d < c)
      BY <2>2
    <3>2. QED
      BY <3>1 DEF Below
  <2>4. Cardinality(Below(T, c)) = 0
    BY <2>3, FS_EmptySet
  <2>5. QED
    BY <2>4, <1>4, <1>6
<1>7. CASE m # 0
  <2>1. m - 1 \in Nat /\ m - 1 \notin free /\ m - 1 < Cardinality(T)
    BY <1>1, <1>4, <1>7
  <2>2. PICK c \in T : Cardinality(Below(T, c)) = m - 1
    BY <2>1
  <2> DEFINE R == {d \in T : d > c}
  <2>3. R # {}
    <3>1. SUFFICES ASSUME R = {} PROVE FALSE
      OBVIOUS
    <3>2. T = Below(T, c) \cup {c} /\ c \notin Below(T, c)
      <4>1. \A d \in T : d < c \/ d = c
        BY <3>1
      <4>2. ~(c < c)
        OBVIOUS
      <4>3. QED
        BY <4>1, <4>2 DEF Below
    <3>3. Cardinality(Below(T, c) \cup {c}) = m
      BY <3>2, <2>2, <1>4, BelowFinite, FS_AddElement
    <3>4. QED
      BY <3>2, <3>3, <1>4
  <2>4. Min(R) \in R /\ \A y \in R : Min(R) <= y
    BY <2>3, MinFacts
  <2>5. PICK e \in R : \A y \in R : e <= y
    BY <2>4
  <2>6. e \in T /\ c < e /\ \A d \in T : d > c => d >= e
    BY <2>5
  <2>7. Cardinality(Below(T, e)) = m
    <3>1. e \in T
      BY <2>6
    <3>2. Cardinality(Below(T, e)) = Cardinality(Below(T, c)) + 1
      BY <3>1, <2>6, BelowNext
    <3>3. QED
      BY <3>2, <2>2, <1>4
  <2>8. QED
    BY <2>6, <2>7, <1>4
<1>8. QED
  BY <1>6, <1>7

\* The end of a text is that of its last line.
Ended(text) == text # <<>> => text[Len(text)] = NL
\* at[j] is where the j-th of n lines ends, with its newline.
LineEnds(text, n, at) ==
    /\ n \in Nat /\ at \in [0..n -> 0..Len(text)]
    /\ at[0] = 0 /\ at[n] = Len(text)
    /\ \A j \in 1..n : at[j - 1] < at[j] /\ text[at[j]] = NL

LEMMA LinesFacts ==
    ASSUME NEW text \in Seq(Bytes), Ended(text)
    PROVE  \E n, at : /\ LineEnds(text, n, at)
                      /\ lines(text) = [j \in 1..n |-> SubSeq(text, at[j - 1] + 1, at[j] - 1)]
<1> DEFINE T == {0} \cup {k \in DOMAIN text : text[k] = NL}
           nth(j) == CHOOSE c \in T : Cardinality(Below(T, c)) = j
           n == Cardinality(T) - 1
           at == [j \in 0..n |-> nth(j)]
<1>1. Len(text) \in Nat /\ DOMAIN text = 1..Len(text)
  OBVIOUS
<1>2. T \in SUBSET Nat /\ \A k \in T : k <= Len(text)
  BY <1>1
<1>3. IsFiniteSet(T)
  BY <1>1, <1>2, FS_BoundedSetOfNaturals
<1>4. 0 \in T /\ Len(text) \in T
  BY <1>1 DEF Ended
<1>5. \A k \in T : k # 0 => k \in 1..Len(text) /\ text[k] = NL
  BY <1>1
<1>6. lines(text) = [j \in 1..n |-> SubSeq(text, nth(j - 1) + 1, nth(j) - 1)]
  BY DEF lines, Below
<1> HIDE DEF T
<1>7. Cardinality(T) \in Nat /\ Cardinality(T) # 0
  BY <1>3, <1>4, FS_CardinalityType, FS_EmptySet
<1>8. n \in Nat /\ n = Cardinality(T) - 1
  BY <1>7
<1>9. ASSUME NEW j \in 0..n PROVE nth(j) \in T /\ Cardinality(Below(T, nth(j))) = j
  <2>1. j \in Nat /\ j < Cardinality(T)
    BY <1>7
  <2>2. \E c \in T : Cardinality(Below(T, c)) = j
    BY <2>1, <1>2, <1>3, PlaceTaken
  <2>3. QED
    BY <2>2
<1> HIDE DEF nth, n
<1>10. at \in [0..n -> 0..Len(text)] /\ \A j \in 0..n : at[j] = nth(j)
  <2>1. \A k \in T : k \in 0..Len(text)
    BY <1>1, <1>2
  <2>2. QED
    BY <2>1, <1>9
<1> HIDE DEF at
<1>11. \A c, e \in T : c < e => Cardinality(Below(T, c)) < Cardinality(Below(T, e))
  BY <1>2, <1>3, BelowGrows
<1>12. ASSUME NEW c \in T, NEW j \in 0..n, Cardinality(Below(T, c)) = j PROVE at[j] = c
  <2>1. at[j] \in T /\ Cardinality(Below(T, at[j])) = j
    BY <1>9, <1>10
  <2>2. ~(c < at[j]) /\ ~(at[j] < c)
    BY <2>1, <1>11, <1>12
  <2>3. at[j] \in Nat /\ c \in Nat
    BY <2>1, <1>2
  <2>4. QED
    BY <2>2, <2>3
<1>13. at[0] = 0
  <2>1. \A d \in T : ~(d < 0)
    BY <1>2
  <2>2. Below(T, 0) = {}
    BY <2>1 DEF Below
  <2>3. Cardinality(Below(T, 0)) = 0 /\ 0 \in 0..n
    BY <2>2, <1>8, FS_EmptySet
  <2>4. QED
    BY <2>3, <1>4, <1>12
<1>14. at[n] = Len(text)
  <2>0. ASSUME NEW d \in T PROVE d < Len(text) <=> d # Len(text)
    <3>1. d \in Nat /\ d <= Len(text) /\ Len(text) \in Nat
      BY <1>1, <1>2
    <3>2. QED
      BY <3>1
  <2>1. Below(T, Len(text)) = T \ {Len(text)}
    BY <2>0 DEF Below
  <2>2. Cardinality(Below(T, Len(text))) = n
    BY <2>1, <1>3, <1>4, <1>8, FS_RemoveElement
  <2>3. QED
    BY <2>2, <1>4, <1>8, <1>12
<1>15. ASSUME NEW j \in 1..n PROVE at[j - 1] < at[j] /\ text[at[j]] = NL
  <2>1. j - 1 \in 0..n /\ j \in 0..n
    BY <1>8
  <2>2. /\ at[j - 1] \in T /\ Cardinality(Below(T, at[j - 1])) = j - 1
        /\ at[j] \in T /\ Cardinality(Below(T, at[j])) = j
    BY <2>1, <1>9, <1>10
  <2>3. ~(at[j] < at[j - 1]) /\ at[j] # at[j - 1]
    BY <2>1, <2>2, <1>11
  <2>4. at[j - 1] < at[j] /\ at[j] # 0
    <3>1. at[j - 1] \in Nat /\ at[j] \in Nat
      BY <2>2, <1>2
    <3>2. QED
      BY <3>1, <2>3
  <2>6. QED
    BY <2>2, <2>4, <1>5
<1>16. lines(text) = [j \in 1..n |-> SubSeq(text, at[j - 1] + 1, at[j] - 1)]
  <2>1. \A j \in 1..n : at[j - 1] = nth(j - 1) /\ at[j] = nth(j)
    BY <1>8, <1>10
  <2>2. QED
    BY <2>1, <1>6 DEF n
<1>17. LineEnds(text, n, at)
  BY <1>8, <1>10, <1>13, <1>14, <1>15 DEF LineEnds
<1>18. QED
  BY <1>16, <1>17

\* A line of a string is a string.
LEMMA LinesStrings ==
    ASSUME NEW text \in String, Ended(text)
    PROVE  lines(text) \in Seq(String)
<1>1. text \in Seq(Bytes) /\ Len(text) \in Nat
  BY DEF String
<1>2. PICK n, at : /\ LineEnds(text, n, at)
                   /\ lines(text) = [j \in 1..n |-> SubSeq(text, at[j - 1] + 1, at[j] - 1)]
  BY <1>1, LinesFacts
<1>3. ASSUME NEW j \in 1..n PROVE SubSeq(text, at[j - 1] + 1, at[j] - 1) \in String
  <2> DEFINE a == at[j - 1]
             b == at[j]
             u == Upto(text, b - 1)
  <2>1. /\ a \in 0..Len(text) /\ b \in 0..Len(text) /\ a < b /\ text[b] = NL
        /\ a # 0 => text[a] = NL
    BY <1>2 DEF LineEnds
  <2> HIDE DEF a, b
  <2>2. b - 1 \in 0..Len(text) /\ text[(b - 1) + 1] \notin Cont
    BY <2>1, <1>1 DEF NL, Cont
  <2>3. u \in String
    BY <2>2, BeforeOther, CutString
  <2>4. u \in Seq(Bytes) /\ Len(u) = b - 1 /\ \A i \in 1..(b - 1) : u[i] = text[i]
    BY <2>2, <1>1, UptoFacts
  <2>5. is_char_boundary(u, a)
    <3>1. CASE a = 0
      BY <3>1, <2>3, Ends
    <3>2. CASE a # 0
      <4>1. a \in 1..Len(u) /\ u[a] = NL
        BY <3>2, <2>1, <2>4
      <4>2. u[a] \notin Cont /\ extra(u[a]) = 0
        BY <4>1 DEF NL, Cont, extra, Lead2, Lead3
      <4>3. QED
        BY <4>1, <4>2, <2>3, AfterOneByte
    <3>3. QED
      BY <3>1, <3>2
  <2>6. From(u, a + 1) \in String
    BY <2>3, <2>5, CutString
  <2> DEFINE v == SubSeq(text, a + 1, b - 1)
             w == From(u, a + 1)
  <2>7. /\ w \in Seq(Bytes) /\ Len(w) = b - 1 - a
        /\ \A i \in 1..(b - 1 - a) : w[i] = text[a + i]
    <3>1. a \in 0..Len(u)
      BY <2>1, <2>4
    <3>2. w \in Seq(Bytes) /\ Len(w) = Len(u) - a /\ \A i \in 1..(Len(u) - a) : w[i] = u[a + i]
      BY <3>1, <2>4, FromFacts
    <3>3. Len(u) - a = b - 1 - a
      BY <2>4
    <3>4. \A i \in 1..(b - 1 - a) : u[a + i] = text[a + i]
      <4>1. \A i \in 1..(b - 1 - a) : a + i \in 1..(b - 1)
        BY <2>1
      <4>2. QED
        BY <4>1, <2>4
    <3> HIDE DEF u, w
    <3>5. QED
      BY <3>2, <3>3, <3>4
  <2>8. /\ v \in Seq(Bytes) /\ Len(v) = b - 1 - a
        /\ \A i \in 1..(b - 1 - a) : v[i] = text[a + i]
    BY <2>1, <1>1, SubSeqProperties
  <2> HIDE DEF v, w
  <2>9. v = w
    BY <2>7, <2>8, SeqEqual
  <2>10. QED
    BY <2>6, <2>9 DEF v, w, a, b
<1>4. QED
  BY <1>2, <1>3 DEF LineEnds

-----------------------------------------------------------------------------
(* Completion.                                                              *)

LEMMA CommandMatches ==
    ASSUME NEW p
    PROVE  complete_command(p) \subseteq String /\ IsFiniteSet(complete_command(p))
<1>1. complete_command(p) \in SUBSET Commands
  BY DEF complete_command
<1>2. QED
  BY <1>1, FS_Subset, ReplAssumption

LEMMA FileMatches ==
    ASSUME NEW p \in String
    PROVE  complete_file(p) \subseteq String /\ IsFiniteSet(complete_file(p))
<1> DEFINE P == {k \in DOMAIN p : p[k] = "/"}
           cut == Max({0} \cup P)
           dir == Upto(p, cut)
           found == {e \in Entries[dir] : IsPrefix(From(p, cut + 1), e)}
           full == {dir \o m : m \in found}
<1>1. p \in Seq(Bytes) /\ Len(p) \in Nat /\ DOMAIN p = 1..Len(p)
  BY DEF String
<1>2. cut \in 0..Len(p) /\ (cut # 0 => cut \in P)
  BY <1>1, LastPlace
<1> HIDE DEF cut
<1>3. Between(p, cut)
  BY <1>2, AfterName DEF OneByteNames
<1>4. dir \in String
  BY <1>3, CutString DEF Between
<1> HIDE DEF dir
<1>5. complete_file(p) = IF dir \notin DOMAIN Entries THEN {} ELSE full
  BY DEF complete_file, cut, dir
<1>6. CASE dir \notin DOMAIN Entries
  BY <1>5, <1>6, FS_EmptySet
<1>7. CASE dir \in DOMAIN Entries
  <2>1. found \in SUBSET Entries[dir]
    OBVIOUS
  <2>2. found \subseteq String /\ IsFiniteSet(found)
    BY <1>7, <2>1, FS_Subset, ReplAssumption
  <2> HIDE DEF found
  <2>3. full \subseteq String
    BY <1>4, <2>2, JoinStrings
  <2>4. IsFiniteSet(full)
    <3> DEFINE f == [m \in found |-> dir \o m]
    <3>1. f \in Surjection(found, full)
      BY DEF Surjection
    <3>2. QED
      BY <3>1, <2>2, FS_Surjection
  <2>5. QED
    BY <1>5, <1>7, <2>3, <2>4
<1>8. QED
  BY <1>6, <1>7

\* The common prefix is cut out of a match, and of an only match it is the whole.
LEMMA CommonPrefix ==
    ASSUME NEW ms, ms \subseteq Seq(Bytes), ms # {}
    PROVE  \E m \in ms : \E n \in 0..Len(m) :
              /\ common_prefix(ms) = Upto(m, n)
              /\ (\E x : ms = {x}) => n = Len(m)
<1> DEFINE m == CHOOSE x \in ms : TRUE
           T == {n \in 0..Len(m) : \A x \in ms : IsPrefix(Upto(m, n), x)}
<1>1. m \in ms /\ m \in Seq(Bytes) /\ Len(m) \in Nat
  OBVIOUS
<1>2. common_prefix(ms) = Upto(m, Max(T))
  BY DEF common_prefix
<1> HIDE DEF m
<1>3. 0 \in T
  <2>1. Upto(m, 0) = <<>>
    BY SubSeqEmpty DEF Upto
  <2>2. ASSUME NEW x \in ms PROVE IsPrefix(<<>>, x)
    <3>1. Len(<<>>) = 0 /\ 0 <= Len(x)
      BY <2>2, LenProperties
    <3>2. SubSeq(<<>>, 1, 0) = <<>> /\ SubSeq(x, 1, 0) = <<>>
      BY SubSeqEmpty
    <3>3. QED
      BY <3>1, <3>2 DEF IsPrefix
  <2>3. QED
    BY <2>1, <2>2, <1>1
<1>4. T \in SUBSET Nat /\ \A k \in T : k <= Len(m)
  BY <1>1
<1>5. Max(T) \in T /\ \A k \in T : k <= Max(T)
  BY <1>1, <1>3, <1>4, MaxFacts
<1>6. ASSUME \E x : ms = {x} PROVE Max(T) = Len(m)
  <2>1. Upto(m, Len(m)) = m
    BY <1>1, SubSeqFull DEF Upto
  <2>2. \A x \in ms : x = m
    BY <1>1, <1>6
  <2>3. IsPrefix(m, m)
    BY <1>1 DEF IsPrefix
  <2>4. Len(m) \in T
    BY <2>1, <2>2, <2>3, <1>1
  <2>5. QED
    BY <2>4, <1>1, <1>5
<1>7. QED
  BY <1>1, <1>2, <1>5, <1>6

LEMMA TabString ==
    ASSUME NEW s \in String, tab_complete(s).ok
    PROVE  tab_complete(s).line \in String
<1> DEFINE start == find_last_word_start(s)
           prefix == From(s, start + 1)
           quote == IF prefix # <<>> /\ prefix[1] \in Quotes THEN <<prefix[1]>> ELSE <<>>
           inner == From(prefix, Len(quote) + 1)
           before == Upto(s, start)
           at_command == (Blank(before) \/ after_operator(before)) /\ "/" \notin Range(inner)
           ms == IF at_command THEN complete_command(inner) ELSE complete_file(inner)
           common == common_prefix(ms)
           close == IF Last(common) = "/" THEN <<>> ELSE <<" ">> \o quote
           one == [line |-> before \o quote \o common \o close, ok |-> TRUE]
           several == [line |-> IF Len(common) > Len(inner) THEN before \o quote \o common ELSE s,
                       ok |-> \A m \in ms : is_char_boundary(m, Len(common))]
<1>1. tab_complete(s) =
          CASE inner = <<>> \/ ms = {} -> [line |-> s, ok |-> TRUE]
            [] inner # <<>> /\ Cardinality(ms) = 1 -> one
            [] OTHER -> several
  BY DEF tab_complete
<1>2. Between(s, start)
  <2> DEFINE P == {k \in DOMAIN s : s[k] \in Separators}
  <2>1. Len(s) \in Nat /\ DOMAIN s = 1..Len(s)
    BY DEF String
  <2>2. P \in SUBSET (1..Len(s))
    BY <2>1
  <2>3. start \in 0..Len(s) /\ (start # 0 => start \in P)
    BY <2>1, <2>2, LastPlace DEF find_last_word_start
  <2>4. QED
    BY <2>3, AfterName DEF OneByteNames
<1>3. before \in String /\ prefix \in String
  BY <1>2, CutString DEF Between
<1> HIDE DEF before, start, prefix
<1>4. quote \in String /\ inner \in String
  <2>1. CASE prefix # <<>> /\ prefix[1] \in Quotes
    <3>1. quote = <<prefix[1]>> /\ Len(quote) = 1
      BY <2>1
    <3>2. prefix[1] \notin Cont /\ extra(prefix[1]) = 0
      BY <2>1, NamesAreOneByte DEF OneByteNames
    <3>3. prefix \in Seq(Bytes) /\ 1 \in 1..Len(prefix) /\ prefix[1] \in Bytes
      BY <1>3, <2>1 DEF String
    <3>4. is_char_boundary(prefix, 1)
      BY <1>3, <3>2, <3>3, AfterOneByte
    <3>5. QED
      BY <3>1, <3>2, <3>3, <3>4, <1>3, OneByte, CutString
  <2>2. CASE ~(prefix # <<>> /\ prefix[1] \in Quotes)
    <3>1. quote = <<>> /\ Len(quote) = 0
      BY <2>2
    <3>2. inner = From(prefix, 0 + 1)
      BY <3>1
    <3>3. QED
      BY <3>1, <3>2, <1>3, EmptyString, Ends, CutString
  <2>3. QED
    BY <2>1, <2>2
<1> HIDE DEF quote, inner, at_command
<1>5. ms \subseteq String /\ IsFiniteSet(ms)
  BY <1>4, CommandMatches, FileMatches
<1> HIDE DEF ms
<1>6. CASE inner = <<>> \/ ms = {}
  <2>1. ~(inner # <<>> /\ Cardinality(ms) = 1)
    BY <1>6, FS_EmptySet
  <2>2. tab_complete(s) = [line |-> s, ok |-> TRUE]
    BY <1>1, <1>6, <2>1
  <2>3. QED
    BY <2>2
<1>7. CASE inner # <<>> /\ ms # {}
  <2>1. ms \subseteq Seq(Bytes)
    BY <1>5 DEF String
  <2>2. PICK m \in ms : \E n \in 0..Len(m) :
            /\ common = Upto(m, n)
            /\ (\E x : ms = {x}) => n = Len(m)
    BY <1>7, <2>1, CommonPrefix
  <2>3. PICK n \in 0..Len(m) : /\ common = Upto(m, n)
                               /\ (\E x : ms = {x}) => n = Len(m)
    BY <2>2
  <2>4. m \in String /\ Len(common) = n
    BY <2>1, <2>3, <1>5, UptoFacts
  <2> HIDE DEF common
  <2>5. ASSUME is_char_boundary(m, n) PROVE before \o quote \o common \in String
    <3>1. common \in String
      BY <2>3, <2>4, <2>5, CutString
    <3>2. QED
      BY <3>1, <1>3, <1>4, JoinStrings
  <2>6. CASE Cardinality(ms) = 1
    <3>1. \E x : ms = {x}
      BY <2>6, <1>5, FS_Singleton
    <3>2. is_char_boundary(m, n)
      BY <3>1, <2>3, <2>4, Ends
    <3>3. close \in String
      <4>1. <<" ">> \in String
        BY OneByte, NamesAreOneByte, ReplAssumption DEF OneByteNames
      <4>2. QED
        BY <4>1, <1>4, EmptyString, JoinStrings
    <3> HIDE DEF close
    <3>4. before \o quote \o common \o close \in String
      BY <3>2, <3>3, <2>5, JoinStrings
    <3>5. tab_complete(s) = one
      BY <1>1, <1>7, <2>6
    <3>6. QED
      BY <3>4, <3>5
  <2>7. CASE Cardinality(ms) # 1
    <3>1. tab_complete(s) = several
      BY <1>1, <1>7, <2>7
    <3>2. is_char_boundary(m, n)
      BY <3>1, <2>4
    <3>3. QED
      BY <3>1, <3>2, <2>5
  <2>8. QED
    BY <2>6, <2>7
<1>8. QED
  BY <1>6, <1>7

-----------------------------------------------------------------------------
(* The inductive invariant.  HistoryOnFile is not part of it: it is         *)
(* inductive over EditorInv.                                                *)

InputOK == tty \in Seq(Bytes) /\ pending_stdin \in Seq(Bytes)
LineOK == Between(line, cursor) /\ pending_line \in String
\* The lines of the history are strings, which Up and Down put into the line.
HistOK ==
    /\ history \in Seq(String) /\ saved_line \in String
    /\ file \in String /\ Ended(file)
    /\ hist_idx = NoIdx \/ hist_idx \in 0..(Len(history) - 1)
\* What is typed of a block, and the command whose here-document is read.
PartOK ==
    /\ block \in String /\ heredocs \in Nat
    /\ command \in String /\ (command # <<>> => here_docs(command) # {})

EditorInv == InputOK /\ LineOK /\ HistOK /\ PartOK

LEMMA SameParts == ASSUME PartOK, UNCHANGED partVars PROVE PartOK'
BY DEF PartOK, partVars, functionVars, blockVars, hereVars, here_docs

\* The next byte and what is left of the terminal's.
LEMMA NextByte ==
    ASSUME InputOK, Ready
    PROVE  first \in Bytes /\ left \in Seq(Bytes) /\ queued \in Seq(Bytes)
<1>1. CASE pending_stdin # <<>>
  BY <1>1, HeadTailProperties DEF InputOK, first, left, queued
<1>2. CASE pending_stdin = <<>>
  <2>1. tty # <<>>
    BY <1>2 DEF Ready, InputOK
  <2>2. QED
    BY <1>2, <2>1, HeadTailProperties DEF InputOK, first, left, queued
<1>3. QED
  BY <1>1, <1>2

LEMMA TakeInput ==
    ASSUME InputOK, Ready, NEW n \in Nat, Take(n)
    PROVE  InputOK'
<1>1. left \in Seq(Bytes) /\ Len(left) \in Nat
  BY NextByte
<1>2. n \in 0..Len(left)
  BY <1>1 DEF Take
<1>3. From(left, n + 1) \in Seq(Bytes)
  BY <1>1, <1>2, FromFacts
<1>4. QED
  BY <1>3, NextByte DEF Take, InputOK

LEMMA KeyInput ==
    ASSUME InputOK, NEW b, Key(b)
    PROVE  InputOK'
BY TakeInput DEF Key

LEMMA EscapeInput ==
    ASSUME InputOK, NEW c, Escape(c)
    PROVE  InputOK'
<1>1. (IF c \in {"1", "3", "4", "7", "8"} THEN 3 ELSE 2) \in Nat
  OBVIOUS
<1>2. QED
  BY <1>1, TakeInput DEF Escape

LEMMA EditInv ==
    ASSUME EditorInv, InputOK', NEW l, NEW k, Edit(l, k), Between(l, k)
    PROVE  EditorInv'
BY SameParts DEF Edit, Set, EditorInv, LineOK, HistOK, histVars

LEMMA AtEnds ==
    ASSUME NEW s \in String
    PROVE  Between(s, 0) /\ Between(s, Len(s)) /\ Between(<<>>, 0)
BY Ends, EmptyString DEF Between

\* The line begins anew; what is not the line is given.
LEMMA NewLineOK ==
    ASSUME Set(<<>>, 0), pending_line' \in String
    PROVE  LineOK'
BY EmptyString, AtEnds DEF Set, LineOK

-----------------------------------------------------------------------------
(* The steps.                                                               *)

LEMMA TypeInv == ASSUME EditorInv, Type PROVE EditorInv'
<1>1. PICK k \in Keys : tty' = tty \o k
  BY DEF Type
<1>2. k \in Seq(Bytes) /\ tty \in Seq(Bytes)
  BY ReplAssumption DEF EditorInv, InputOK
<1>3. tty' \in Seq(Bytes)
  BY <1>1, <1>2
<1>4. QED
  BY <1>3, SameParts DEF Type, EditorInv, InputOK, LineOK, HistOK, histVars

LEMMA InsertInv == ASSUME EditorInv, Insert PROVE EditorInv'
<1> DEFINE bytes == <<first>> \o Upto(left, extra(first))
           ch == lossy(bytes)
<1>1. InputOK /\ Ready /\ Take(extra(first)) /\ extra(first) \in 0..2
  BY ExtraRange DEF Insert, EditorInv
<1>2. InputOK'
  BY <1>1, TakeInput
<1>3. bytes \in Seq(Bytes)
  <2>1. first \in Bytes /\ left \in Seq(Bytes) /\ Len(left) \in Nat
    BY <1>1, NextByte
  <2>2. extra(first) \in 0..Len(left)
    BY <1>1, <2>1 DEF Take
  <2>3. Upto(left, extra(first)) \in Seq(Bytes)
    BY <2>1, <2>2, UptoFacts
  <2>4. <<first>> \in Seq(Bytes)
    BY <2>1
  <2>5. QED
    BY <2>3, <2>4, ConcatFacts
<1> HIDE DEF bytes
<1>4. ch \in String
  BY <1>3, LossyString
<1>5. Edit(Upto(line, cursor) \o ch \o From(line, cursor + 1), cursor + Len(ch))
  BY DEF Insert, bytes
<1> HIDE DEF ch
<1>6. Between(line, cursor) /\ line \in String
  BY DEF EditorInv, LineOK, Between
<1>7. Upto(line, cursor) \in String /\ From(line, cursor + 1) \in String
  BY <1>6, CutString DEF Between
<1>8. Len(Upto(line, cursor)) = cursor
  BY <1>6, OffsetRange, UptoFacts
<1>9. Upto(line, cursor) \o ch \in String
  BY <1>4, <1>7, JoinStrings
<1>10. Len(Upto(line, cursor) \o ch) = cursor + Len(ch)
  BY <1>4, <1>7, <1>8, ConcatFacts DEF String
<1>11. Between(Upto(line, cursor) \o ch \o From(line, cursor + 1), cursor + Len(ch))
  BY <1>7, <1>9, <1>10, JoinStrings DEF Between
<1>12. QED
  BY <1>2, <1>5, <1>11, EditInv

LEMMA BackspaceInv == ASSUME EditorInv, Backspace PROVE EditorInv'
<1>1. Between(line, cursor) /\ InputOK'
  BY KeyInput DEF Backspace, EditorInv, LineOK
<1>2. CASE cursor = 0
  BY <1>1, <1>2, EditInv DEF Backspace
<1>3. CASE cursor # 0
  <2>1. Between(line, prev_boundary(line, cursor))
    BY <1>1, <1>3, PrevBoundary
  <2>2. Between(Without(line, prev_boundary(line, cursor), cursor), prev_boundary(line, cursor))
    BY <2>1, <1>1, CutOut
  <2>3. QED
    BY <1>1, <1>3, <2>2, EditInv DEF Backspace
<1>4. QED
  BY <1>2, <1>3

LEMMA DeleteInv == ASSUME EditorInv, Delete PROVE EditorInv'
<1>1. Between(line, cursor) /\ InputOK'
  BY EscapeInput DEF Delete, EditorInv, LineOK
<1>2. CASE cursor = Len(line)
  BY <1>1, <1>2, EditInv DEF Delete
<1>3. CASE cursor # Len(line)
  <2>1. Between(line, next_boundary(line, cursor))
    BY <1>1, <1>3, NextBoundary
  <2>2. Between(Without(line, cursor, next_boundary(line, cursor)), cursor)
    BY <2>1, <1>1, CutOut
  <2>3. QED
    BY <1>1, <1>3, <2>2, EditInv DEF Delete
<1>4. QED
  BY <1>2, <1>3

LEMMA MoveInv == ASSUME EditorInv, Right \/ Left \/ ToStart \/ ToEnd PROVE EditorInv'
<1>1. Between(line, cursor) /\ line \in String /\ InputOK
  BY DEF EditorInv, LineOK, Between
<1>2. cursor \in 0..Len(line) /\ Len(line) \in Nat
  BY <1>1, OffsetRange
<1>3. CASE Right
  <2>1. InputOK'
    BY <1>1, <1>3, EscapeInput DEF Right
  <2>2. Between(line, IF cursor < Len(line) THEN next_boundary(line, cursor) ELSE cursor)
    BY <1>1, <1>2, NextBoundary
  <2>3. QED
    BY <1>3, <2>1, <2>2, EditInv DEF Right
<1>4. CASE Left
  <2>1. InputOK'
    BY <1>1, <1>4, EscapeInput DEF Left
  <2>2. Between(line, IF cursor > 0 THEN prev_boundary(line, cursor) ELSE cursor)
    BY <1>1, <1>2, PrevBoundary
  <2>3. QED
    BY <1>4, <2>1, <2>2, EditInv DEF Left
<1>5. CASE ToStart
  <2>1. InputOK'
    BY <1>1, <1>5, KeyInput, EscapeInput DEF ToStart
  <2>2. QED
    BY <1>1, <1>5, <2>1, AtEnds, EditInv DEF ToStart
<1>6. CASE ToEnd
  <2>1. InputOK'
    BY <1>1, <1>6, KeyInput, EscapeInput DEF ToEnd
  <2>2. QED
    BY <1>1, <1>6, <2>1, AtEnds, EditInv DEF ToEnd
<1>7. QED
  BY <1>3, <1>4, <1>5, <1>6

LEMMA KillInv == ASSUME EditorInv, KillBefore \/ KillAfter \/ KillWord PROVE EditorInv'
<1>1. Between(line, cursor) /\ line \in String /\ InputOK
  BY DEF EditorInv, LineOK, Between
<1>2. InputOK'
  BY <1>1, KeyInput DEF KillBefore, KillAfter, KillWord
<1>3. Upto(line, cursor) \in String /\ From(line, cursor + 1) \in String
  BY <1>1, CutString DEF Between
<1>4. CASE KillBefore
  BY <1>2, <1>3, <1>4, AtEnds, EditInv DEF KillBefore
<1>5. CASE KillAfter
  <2>1. Len(Upto(line, cursor)) = cursor
    BY <1>1, OffsetRange, UptoFacts
  <2>2. Between(Upto(line, cursor), cursor)
    BY <1>3, <2>1, Ends DEF Between
  <2>3. QED
    BY <1>2, <1>5, <2>2, EditInv DEF KillAfter
<1>6. CASE KillWord
  <2>1. Between(Without(line, word_before(line, cursor), cursor), word_before(line, cursor))
    BY <1>1, WordBefore, CutOut
  <2>2. QED
    BY <1>2, <1>6, <2>1, EditInv DEF KillWord
<1>7. QED
  BY <1>4, <1>5, <1>6

LEMMA IgnoredInv == ASSUME EditorInv, Redraw \/ UnknownEscape PROVE EditorInv'
<1>1. Between(line, cursor) /\ InputOK
  BY DEF EditorInv, LineOK
<1>2. InputOK'
  <2>1. CASE Redraw
    BY <1>1, <2>1, KeyInput DEF Redraw
  <2>2. CASE UnknownEscape
    <3>1. Ready /\ \E n \in Nat : Take(n)
      BY <2>2 DEF UnknownEscape
    <3>2. QED
      BY <3>1, <1>1, TakeInput
  <2>3. QED
    BY <2>1, <2>2
<1>3. Edit(line, cursor)
  BY DEF Redraw, UnknownEscape
<1>4. QED
  BY <1>1, <1>2, <1>3, EditInv

LEMMA UpInv == ASSUME EditorInv, Up PROVE EditorInv'
<1>1. InputOK /\ LineOK /\ HistOK /\ PartOK'
  BY SameParts DEF EditorInv, Up
<1>2. InputOK'
  BY <1>1, EscapeInput DEF Up
<1>3. CASE history = <<>>
  BY <1>1, <1>2, <1>3 DEF Up, EditorInv, LineOK, HistOK
<1>4. CASE history # <<>>
  <2> DEFINE idx == IF hist_idx = NoIdx THEN Len(history) ELSE hist_idx
  <2>1. /\ saved_line' = IF hist_idx = NoIdx THEN line ELSE saved_line
        /\ hist_idx' = Max({idx - 1, 0})
        /\ IF idx > 0 THEN Set(history[idx], Len(history[idx]))
           ELSE UNCHANGED <<line, cursor>>
        /\ UNCHANGED <<pending_line, history, file>>
    BY <1>4 DEF Up
  <2>2. Len(history) \in Nat \ {0}
    BY <1>1, <1>4 DEF HistOK
  <2>3. idx \in 0..Len(history)
    BY <1>1, <2>2 DEF HistOK, NoIdx
  <2> HIDE DEF idx
  <2>4. Max({idx - 1, 0}) = IF idx - 1 >= 0 THEN idx - 1 ELSE 0
    BY <2>3, MaxOfTwo
  <2>5. hist_idx' \in 0..(Len(history) - 1)
    BY <2>1, <2>2, <2>3, <2>4
  <2>6. HistOK'
    BY <2>1, <2>5, <1>1 DEF HistOK, LineOK, Between
  <2>7. CASE idx > 0
    <3>1. history[idx] \in String
      BY <2>7, <2>3, <1>1 DEF HistOK
    <3>2. Between(history[idx], Len(history[idx]))
      BY <3>1, AtEnds
    <3>3. LineOK'
      BY <2>1, <2>7, <3>2, <1>1 DEF LineOK, Set
    <3>4. QED
      BY <3>3, <2>6, <1>1, <1>2 DEF EditorInv
  <2>8. CASE ~(idx > 0)
    BY <2>1, <2>8, <2>6, <1>1, <1>2 DEF EditorInv, LineOK
  <2>9. QED
    BY <2>7, <2>8
<1>5. QED
  BY <1>3, <1>4

LEMMA DownInv == ASSUME EditorInv, Down PROVE EditorInv'
<1>1. /\ InputOK /\ LineOK /\ HistOK /\ PartOK'
      /\ UNCHANGED <<pending_line, history, saved_line, file>>
  BY SameParts DEF EditorInv, Down
<1>2. InputOK'
  BY <1>1, EscapeInput DEF Down
<1>3. CASE hist_idx = NoIdx
  BY <1>1, <1>2, <1>3 DEF Down, EditorInv, LineOK, HistOK
<1>4. CASE hist_idx # NoIdx /\ hist_idx + 1 < Len(history)
  <2>1. hist_idx \in 0..(Len(history) - 1) /\ Len(history) \in Nat
    BY <1>1, <1>4 DEF HistOK
  <2>2. hist_idx' = hist_idx + 1 /\ Set(history[hist_idx + 2], Len(history[hist_idx + 2]))
    BY <1>4 DEF Down
  <2>3. hist_idx + 1 \in 0..(Len(history) - 1) /\ hist_idx + 2 \in 1..Len(history)
    BY <1>4, <2>1
  <2>4. history[hist_idx + 2] \in String
    BY <2>3, <1>1 DEF HistOK
  <2>5. LineOK'
    BY <2>2, <2>4, <1>1, AtEnds DEF LineOK, Set
  <2>6. HistOK'
    BY <2>2, <2>3, <1>1 DEF HistOK
  <2>7. QED
    BY <2>5, <2>6, <1>1, <1>2 DEF EditorInv
<1>5. CASE hist_idx # NoIdx /\ ~(hist_idx + 1 < Len(history))
  <2>1. hist_idx' = NoIdx /\ Set(saved_line, Len(saved_line))
    BY <1>5 DEF Down
  <2>2. saved_line \in String
    BY <1>1 DEF HistOK
  <2>3. LineOK'
    BY <2>1, <2>2, <1>1, AtEnds DEF LineOK, Set
  <2>4. HistOK'
    BY <2>1, <1>1 DEF HistOK
  <2>5. QED
    BY <2>3, <2>4, <1>1, <1>2 DEF EditorInv
<1>6. QED
  BY <1>3, <1>4, <1>5

LEMMA ContinueInv == ASSUME EditorInv, Continue PROVE EditorInv'
<1>1. InputOK /\ HistOK /\ line \in String
  BY DEF EditorInv, LineOK, Between
<1>2. InputOK'
  BY <1>1, KeyInput DEF Continue
<1>3. pending_line' \in String
  BY <1>1, WithoutBackslashes DEF Continue
<1>4. LineOK'
  BY <1>3, NewLineOK DEF Continue
<1>5. HistOK' /\ PartOK'
  BY <1>1, SameParts DEF Continue, HistOK, histVars, EditorInv
<1>6. QED
  BY <1>2, <1>4, <1>5 DEF EditorInv

LEMMA DroppedInv == ASSUME EditorInv, EmptyLine \/ abort_line PROVE EditorInv'
<1>1. InputOK /\ HistOK
  BY DEF EditorInv
<1>2. InputOK' /\ PartOK'
  BY <1>1, KeyInput, SameParts DEF EmptyLine, abort_line, EditorInv
<1>3. /\ Set(<<>>, 0) /\ pending_line' = <<>> /\ hist_idx' = NoIdx
      /\ UNCHANGED <<history, saved_line, file>>
  BY DEF EmptyLine, abort_line, Taken, idx_after
<1>4. LineOK'
  BY <1>3, EmptyString, NewLineOK
<1>5. HistOK'
  BY <1>1, <1>3 DEF HistOK
<1>6. QED
  BY <1>2, <1>4, <1>5 DEF EditorInv

\* Bytes that are characters of their own.
LEMMA PlainString ==
    ASSUME NEW s \in Seq(Bytes), \A k \in 1..Len(s) : s[k] \notin Cont /\ extra(s[k]) = 0
    PROVE  s \in String
<1>1. \A k \in 1..Len(s) : 1..extra(s[k]) = {}
  OBVIOUS
<1>2. WellFormed(s)
  BY <1>1, WellFormedIs
<1>3. QED
  BY <1>2 DEF String

LEMMA NewlineString == <<NL>> \in String
<1>1. NL \in Bytes
  BY ReplAssumption
<1>2. NL \notin Cont /\ extra(NL) = 0
  BY DEF NL, Cont, extra, Lead2, Lead3
<1>3. QED
  BY <1>1, <1>2, OneByte

LEMMA NewlineByte == NL \in Bytes
BY ReplAssumption

\* The lines that are remembered.
LEMMA EntriesStrings ==
    ASSUME LineOK, PartOK
    PROVE  full_line \in String /\ joined \in String
<1>1. full_line \in String
  BY JoinStrings DEF LineOK, Between, full_line
<1>2. block \o <<NL>> \o full_line \in String
  BY <1>1, NewlineString, JoinStrings DEF PartOK
<1>3. QED
  BY <1>1, <1>2 DEF joined

LEMMA RedirectedString ==
    ASSUME NEW s \in String, here_docs(s) # {}, heredocs \in Nat
    PROVE  redirected(s) \in String
<1>1. s \in Seq(Bytes) /\ Len(s) \in Nat /\ DOMAIN s = 1..Len(s)
  BY DEF String
<1>2. here_docs(s) \in SUBSET Nat
  BY <1>1 DEF here_docs
<1>3. Min(here_docs(s)) \in here_docs(s)
  BY <1>2, MinFacts
<1>4. PICK m \in 1..Len(s) : m = Min(here_docs(s)) /\ s[m] = "<"
  BY <1>1, <1>3 DEF here_docs
<1>5. m - 1 \in 0..Len(s) /\ s[(m - 1) + 1] \notin Cont
  BY <1>1, <1>4 DEF Cont
<1>6. Upto(s, m - 1) \in String
  BY <1>5, BeforeOther, CutString
<1> DEFINE gap == <<" ", "<", " ">>
           number == [k \in 1..heredocs |-> "0"]
<1>7. gap \in String
  <2>0. " " \in Bytes /\ "<" \in Bytes
    BY ReplAssumption
  <2>1. gap \in Seq(Bytes) /\ Len(gap) = 3
    <3>1. ASSUME NEW S, NEW x \in S, NEW y \in S
          PROVE  <<x, y, x>> \in Seq(S) /\ Len(<<x, y, x>>) = 3
      OBVIOUS
    <3>2. QED
      BY <2>0, <3>1
  <2>2. \A b \in {" ", "<"} : b \notin Cont /\ extra(b) = 0
    BY DEF Cont, extra, Lead2, Lead3
  <2>3. \A k \in 1..3 : gap[k] \in {" ", "<"}
    <3>1. gap[1] = " " /\ gap[2] = "<" /\ gap[3] = " "
      OBVIOUS
    <3>2. \A k \in 1..3 : k = 1 \/ k = 2 \/ k = 3
      OBVIOUS
    <3> HIDE DEF gap
    <3>3. QED
      BY <3>1, <3>2
  <2> HIDE DEF gap
  <2>4. QED
    BY <2>1, <2>2, <2>3, PlainString
<1>8. number \in String
  <2>0. "0" \in Bytes
    BY ReplAssumption
  <2>1. number \in Seq(Bytes) /\ Len(number) = heredocs
    BY <2>0
  <2>2. "0" \notin Cont /\ extra("0") = 0
    BY DEF Cont, extra, Lead2, Lead3
  <2>3. \A k \in 1..Len(number) : number[k] = "0"
    BY <2>1
  <2> HIDE DEF number
  <2>4. QED
    BY <2>1, <2>2, <2>3, PlainString
<1> HIDE DEF gap, number
<1>9. Trimmed(Upto(s, m - 1)) \o gap \o TmpFile \o number \in String
  BY <1>6, <1>7, <1>8, TrimmedString, JoinStrings, ReplAssumption
<1>10. QED
  BY <1>4, <1>9 DEF redirected, gap, number

\* What a command reads while it runs.
LEMMA RunningInput ==
    ASSUME NEW queue \in Seq(Bytes), NEW rest \in Seq(Bytes), Running(queue, rest)
    PROVE  InputOK'
<1>1. PICK n \in 0..Len(rest) : /\ pending_stdin' = queue \o Upto(rest, n)
                                /\ tty' = From(rest, n + 1)
  BY DEF Running
<1>2. Upto(rest, n) \in Seq(Bytes) /\ From(rest, n + 1) \in Seq(Bytes)
  BY <1>1, UptoFacts, FromFacts
<1>3. QED
  BY <1>1, <1>2, ConcatFacts DEF InputOK

\* The entry is added to the history and to the file, or to neither.
LEMMA RememberOK ==
    ASSUME NEW e \in String, NEW h \in Seq(String), NEW f \in String, Ended(f),
           saved_line \in String, Remember(e, h, f), hist_idx' = NoIdx
    PROVE  HistOK'
<1>1. Append(h, e) \in Seq(String)
  OBVIOUS
<1> DEFINE g == f \o e \o <<NL>>
<1>2. g \in String
  BY NewlineString, JoinStrings
<1>3. Ended(g)
  <2>1. f \o e \in Seq(Bytes) /\ NL \in Bytes
    BY JoinStrings, ReplAssumption DEF String
  <2>2. g[Len(g)] = NL
    BY <2>1
  <2>3. QED
    BY <2>2 DEF Ended
<1> HIDE DEF g
<1>4. history' \in Seq(String) /\ file' \in String /\ Ended(file')
  BY <1>1, <1>2, <1>3 DEF Remember, g
<1>5. saved_line' \in String
  BY DEF Remember
<1>6. QED
  BY <1>4, <1>5 DEF HistOK, Ended

LEMMA ExecutedOK ==
    ASSUME HistOK, NEW l \in String, Executed(l), hist_idx' = NoIdx
    PROVE  HistOK'
<1> DEFINE h == IF clearing(l) THEN <<>> ELSE history
           f == cleared_file(clearing(l))
<1>1. h \in Seq(String) /\ f \in String /\ Ended(f)
  BY EmptyString DEF HistOK, cleared_file, Ended
<1>2. Remember(l, h, f)
  BY DEF Executed
<1> HIDE DEF h, f
<1>3. QED
  BY <1>1, <1>2, RememberOK DEF HistOK

LEMMA EnteredOK ==
    ASSUME EditorInv, Entered
    PROVE  /\ LineOK' /\ hist_idx' = NoIdx
           /\ Ready /\ left \in Seq(Bytes) /\ queued \in Seq(Bytes)
           /\ full_line \in String /\ joined \in String
           /\ (UNCHANGED <<history, saved_line, file>> => HistOK')
<1>1. Ready
  BY DEF Entered, Newline
<1>2. LineOK' /\ hist_idx' = NoIdx
  BY EmptyString, NewLineOK DEF Entered, Taken, idx_after
<1>3. QED
  BY <1>1, <1>2, NextByte, EntriesStrings DEF EditorInv, HistOK

LEMMA FunctionLineInv == ASSUME EditorInv, FunctionLine PROVE EditorInv'
<1>1. InputOK /\ HistOK /\ PartOK
  BY DEF EditorInv
<1>2. Entered
  BY DEF FunctionLine
<1>3. PartOK'
  BY <1>1 DEF FunctionLine, PartOK, blockVars, hereVars, here_docs
<1>4. CASE Take(0) /\ UNCHANGED <<history, saved_line, file>>
  <2>1. InputOK'
    BY <1>1, <1>2, <1>4, EnteredOK, TakeInput
  <2>2. QED
    BY <2>1, <1>2, <1>3, <1>4, EnteredOK DEF EditorInv
<1>5. CASE Running(queued, left) /\ Remember(full_line, history, file)
  <2>1. InputOK'
    BY <1>2, <1>5, EnteredOK, RunningInput
  <2>2. HistOK'
    BY <1>1, <1>2, <1>5, EnteredOK, RememberOK DEF HistOK
  <2>3. QED
    BY <2>1, <2>2, <1>2, <1>3, EnteredOK DEF EditorInv
<1>6. QED
  BY <1>4, <1>5 DEF FunctionLine

LEMMA BlockLineInv == ASSUME EditorInv, BlockLine PROVE EditorInv'
<1>1. InputOK /\ HistOK /\ PartOK
  BY DEF EditorInv
<1>2. Entered
  BY DEF BlockLine
<1>3. PartOK'
  <2>1. block' \in String
    BY <1>2, EnteredOK, EmptyString DEF BlockLine
  <2>2. QED
    BY <2>1, <1>1 DEF BlockLine, PartOK, hereVars, here_docs
<1>4. CASE Take(0) /\ UNCHANGED <<history, saved_line, file>>
  <2>1. InputOK'
    BY <1>1, <1>2, <1>4, EnteredOK, TakeInput
  <2>2. QED
    BY <2>1, <1>2, <1>3, <1>4, EnteredOK DEF EditorInv
<1>5. CASE Running(queued, left) /\ Remember(joined, history, file)
  <2>1. InputOK'
    BY <1>2, <1>5, EnteredOK, RunningInput
  <2>2. HistOK'
    BY <1>1, <1>2, <1>5, EnteredOK, RememberOK DEF HistOK
  <2>3. QED
    BY <2>1, <2>2, <1>2, <1>3, EnteredOK DEF EditorInv
<1>6. QED
  BY <1>4, <1>5 DEF BlockLine

LEMMA EnterInv == ASSUME EditorInv, Enter PROVE EditorInv'
<1>1. HistOK /\ PartOK /\ Entered
  BY DEF EditorInv, Enter, Command
<1>2. InputOK'
  BY <1>1, EnteredOK, RunningInput DEF Enter
<1>3. HistOK'
  BY <1>1, EnteredOK, ExecutedOK DEF Enter
<1>4. PartOK'
  BY <1>1 DEF Enter, PartOK, blockVars, hereVars, here_docs
<1>5. QED
  BY <1>1, <1>2, <1>3, <1>4, EnteredOK DEF EditorInv

LEMMA CommandInv == ASSUME EditorInv, ExitCommand \/ HereDoc PROVE EditorInv'
<1>1. PartOK /\ Entered
  BY DEF EditorInv, ExitCommand, HereDoc, Command, Entered
<1>2. tty' = left /\ pending_stdin' = queued /\ UNCHANGED <<history, saved_line, file>>
  BY DEF ExitCommand, HereDoc
<1>3. InputOK'
  BY <1>1, <1>2, EnteredOK DEF InputOK
<1>4. PartOK'
  <2>1. CASE ExitCommand
    BY <2>1, <1>1, SameParts DEF ExitCommand
  <2>2. CASE HereDoc
    <3>1. command' = full_line /\ here_docs(full_line) # {} /\ heredocs' = heredocs
      BY <2>2 DEF HereDoc
    <3>2. here_docs(command)' = here_docs(full_line)
      BY <3>1 DEF here_docs
    <3>3. block' = block
      BY <2>2 DEF HereDoc, blockVars
    <3>4. QED
      BY <3>1, <3>2, <3>3, <1>1, EnteredOK DEF PartOK
  <2>3. QED
    BY <2>1, <2>2
<1>5. QED
  BY <1>1, <1>2, <1>3, <1>4, EnteredOK DEF EditorInv

LEMMA BodyInv == ASSUME EditorInv, HereDocByte PROVE EditorInv'
<1>1. tty # <<>> /\ tty' = Tail(tty) /\ tty \in Seq(Bytes)
  BY DEF HereDocByte, ReadBody, EditorInv, InputOK
<1>2. tty' \in Seq(Bytes)
  BY <1>1, HeadTailProperties
<1>3. PartOK'
  BY DEF HereDocByte, EditorInv, PartOK, blockVars, here_docs
<1>4. QED
  BY <1>2, <1>3 DEF HereDocByte, EditorInv, InputOK, LineOK, HistOK, histVars

\* The editor is at an empty line while the body is read.
HistAtRest == command # <<>> => hist_idx = NoIdx

LEMMA HereDocEndInv == ASSUME EditorInv, HistAtRest, HereDocEnd PROVE EditorInv'
<1>1. InputOK /\ LineOK /\ HistOK /\ PartOK /\ command # <<>> /\ tty # <<>>
  BY DEF EditorInv, HereDocEnd, ReadBody
<1>2. Tail(tty) \in Seq(Bytes) /\ pending_stdin \in Seq(Bytes)
  BY <1>1, HeadTailProperties DEF InputOK
<1>3. InputOK'
  BY <1>2, RunningInput DEF HereDocEnd
<1>4. redirected(command) \in String /\ command \in String
  BY <1>1, RedirectedString DEF PartOK
<1>5. PICK l \in {command, redirected(command)} : Executed(l)
  BY DEF HereDocEnd
<1>6. hist_idx' = NoIdx
  BY <1>1 DEF HereDocEnd, HistAtRest
<1>7. HistOK'
  BY <1>1, <1>4, <1>5, <1>6, ExecutedOK
<1>8. LineOK'
  BY <1>1 DEF HereDocEnd, LineOK
<1>9. PartOK'
  BY <1>1, EmptyString DEF HereDocEnd, PartOK, blockVars, here_docs
<1>10. QED
  BY <1>3, <1>7, <1>8, <1>9 DEF EditorInv

LEMMA HereDocExitInv == ASSUME EditorInv, HereDocExit PROVE EditorInv'
<1>1. /\ InputOK /\ LineOK /\ HistOK /\ PartOK
      /\ tty # <<>> /\ tty' = Tail(tty) /\ pending_stdin' = pending_stdin
  BY DEF EditorInv, HereDocExit, ReadBody
<1>2. InputOK'
  BY <1>1, HeadTailProperties DEF InputOK
<1>3. LineOK' /\ HistOK'
  BY <1>1 DEF HereDocExit, LineOK, HistOK, histVars
<1>4. PartOK'
  BY <1>1, EmptyString DEF HereDocExit, PartOK, blockVars, here_docs
<1>5. QED
  BY <1>2, <1>3, <1>4 DEF EditorInv

LEMMA CtrlDInv == ASSUME EditorInv, CtrlD PROVE EditorInv'
<1>1. InputOK'
  BY NextByte DEF CtrlD, EditorInv, InputOK
<1>2. QED
  BY <1>1, SameParts DEF CtrlD, EditorInv, LineOK, HistOK, histVars

LEMMA Loaded ==
    ASSUME NEW s \in String, Ended(s)
    PROVE  load_history(s) \in Seq(String)
<1>1. lines(s) \in Seq(String)
  BY LinesStrings
<1>2. PICK k \in 0..Len(lines(s)) : LastN(lines(s), HistSize) = From(lines(s), k + 1)
  BY <1>1, LastNFacts, ReplAssumption
<1>3. From(lines(s), k + 1) \in Seq(String)
  BY <1>1, <1>2, FromFacts
<1>4. QED
  BY <1>2, <1>3 DEF load_history

LEMMA RestartInv == ASSUME EditorInv, Restart PROVE EditorInv'
<1>1. InputOK /\ HistOK /\ PartOK
  BY DEF EditorInv
<1>2. InputOK'
  BY <1>1 DEF Restart, InputOK
<1>3. LineOK'
  BY EmptyString, NewLineOK DEF Restart, Taken
<1>4. HistOK'
  BY <1>1, Loaded, EmptyString DEF Restart, Taken, idx_after, HistOK, Ended
<1>5. PartOK'
  BY <1>1, EmptyString DEF Restart, PartOK
<1>6. QED
  BY <1>2, <1>3, <1>4, <1>5 DEF EditorInv

LEMMA TabInv == ASSUME EditorInv, Tab \/ TabPanics PROVE EditorInv'
<1>1. InputOK /\ line \in String
  BY DEF EditorInv, LineOK, Between
<1>2. CASE Tab
  <2>1. InputOK'
    BY <1>1, <1>2, KeyInput DEF Tab
  <2>2. tab_complete(line).line \in String
    BY <1>1, <1>2, TabString DEF Tab
  <2>3. QED
    BY <1>2, <2>1, <2>2, AtEnds, EditInv DEF Tab
<1>3. CASE TabPanics
  <2>1. InputOK'
    BY <1>1, <1>3, NextByte DEF TabPanics, InputOK
  <2>2. QED
    BY <1>3, <2>1, SameParts DEF TabPanics, EditorInv, LineOK, HistOK, histVars
<1>4. QED
  BY <1>2, <1>3

LEMMA InitInv == Init => EditorInv /\ HistAtRest
<1> SUFFICES ASSUME Init PROVE EditorInv /\ HistAtRest
  OBVIOUS
<1>1. InputOK
  BY DEF Init, InputOK
<1>2. LineOK
  BY EmptyString, AtEnds DEF Init, LineOK
<1>3. Stored \in String /\ Ended(Stored)
  BY ReplAssumption, StringBytes DEF Ended, Last
<1>4. HistOK
  BY <1>3, EmptyString, Loaded DEF Init, HistOK
<1>5. PartOK /\ HistAtRest
  BY EmptyString DEF Init, PartOK, HistAtRest
<1>6. QED
  BY <1>1, <1>2, <1>4, <1>5 DEF EditorInv

\* Keys are taken when no body is read.
LEMMA AtRest == ASSUME HistAtRest, Next PROVE HistAtRest'
<1>1. CASE Type \/ HereDocByte
  BY <1>1 DEF Type, HereDocByte, HistAtRest, histVars, partVars, hereVars
<1>2. CASE HereDocEnd \/ HereDocExit \/ Restart
  BY <1>2 DEF HereDocEnd, HereDocExit, Restart, HistAtRest
<1>3. CASE FunctionLine \/ BlockLine \/ Enter \/ ExitCommand \/ HereDoc
  BY <1>3 DEF FunctionLine, BlockLine, Enter, ExitCommand, HereDoc, Command, Entered, Taken,
     idx_after, HistAtRest
<1>4. CASE /\ command = <<>> /\ command' = command
  BY <1>4 DEF HistAtRest
<1>5. CASE Up \/ Down \/ Continue \/ EmptyLine \/ abort_line
  BY <1>4, <1>5 DEF Up, Down, Continue, EmptyLine, abort_line, Key, Escape, Ready, partVars,
     hereVars
<1>6. CASE CtrlD \/ Tab \/ TabPanics \/ Insert \/ Redraw \/ UnknownEscape
  BY <1>4, <1>6 DEF CtrlD, Tab, TabPanics, Insert, Redraw, UnknownEscape, Edit, Key, Escape,
     Ready, partVars, hereVars
<1>7. CASE \/ Backspace \/ Delete \/ Right \/ Left \/ ToStart \/ ToEnd
           \/ KillBefore \/ KillAfter \/ KillWord
  BY <1>4, <1>7 DEF Backspace, Delete, Right, Left, ToStart, ToEnd, KillBefore, KillAfter,
     KillWord, Edit, Key, Escape, Ready, partVars, hereVars
<1>8. QED
  BY <1>1, <1>2, <1>3, <1>5, <1>6, <1>7 DEF Next

LEMMA StepInv == EditorInv /\ HistAtRest /\ [Next]_vars => (EditorInv /\ HistAtRest)'
<1> SUFFICES ASSUME EditorInv, HistAtRest, [Next]_vars PROVE EditorInv' /\ HistAtRest'
  OBVIOUS
<1>1. CASE Next
  BY <1>1, TypeInv, InsertInv, BackspaceInv, DeleteInv, MoveInv, KillInv, IgnoredInv, UpInv,
     DownInv, ContinueInv, DroppedInv, FunctionLineInv, BlockLineInv, EnterInv, CommandInv,
     BodyInv, HereDocEndInv, HereDocExitInv, CtrlDInv, RestartInv, TabInv, AtRest DEF Next
<1>2. CASE UNCHANGED vars
  BY <1>2, SameParts DEF vars, EditorInv, InputOK, LineOK, HistOK, HistAtRest, histVars,
     partVars, hereVars
<1>3. QED
  BY <1>1, <1>2

LEMMA InvHolds == Spec => [](EditorInv /\ HistAtRest)
BY InitInv, StepInv, PTL DEF Spec

\* EditorInBounds in every behaviour: whatever bytes are typed and however the line is cut,
\* recalled, continued or completed, the line stays text, the cursor stays between two of its
\* characters, and the history position is one of the history's, so none of run_shell's cuts
\* and look-ups ends the shell.
THEOREM EditorStaysInBounds == Spec => []EditorInBounds
<1>1. EditorInv /\ HistAtRest => EditorInBounds
  BY DEF EditorInv, LineOK, HistOK, Between, String, EditorInBounds
<1>2. QED
  BY <1>1, InvHolds, PTL

-----------------------------------------------------------------------------
(* The history and its file.                                                *)

LEMMA HistSizeNat == HistSize \in Nat
BY ReplAssumption

\* at[i] is where the i-th entry of h begins at the end of f.
Written(h, f, at) ==
    /\ at \in [1..(Len(h) + 1) -> 1..(Len(f) + 1)]
    /\ at[Len(h) + 1] = Len(f) + 1
    /\ \A i \in 1..Len(h) : /\ at[i + 1] = at[i] + Len(h[i]) + 1
                            /\ SubSeq(f, at[i], at[i + 1] - 1) = Append(h[i], NL)
\* HistoryOnFile with the places of the entries given.
Kept(h, f) == \E at : Written(h, f, at) /\ (at[1] = 1 \/ Len(h) >= HistSize)

\* Counted from the end there is one way to place the entries: the last entry that two ways
\* placed differently would be followed by one that they place alike.
LEMMA PlacesIs ==
    ASSUME NEW h \in Seq(String), NEW f \in String, NEW at, Written(h, f, at)
    PROVE  Places(h, f) = at
<1> DEFINE N == Len(h) + 1
           L == Len(f) + 1
           of(q) == [i \in 1..N |-> IF i = N THEN L ELSE q[i + 1] - Len(h[i]) - 1]
           p == CHOOSE q : q = of(q)
<1>1. Places(h, f) = p
  BY DEF Places
<1>2. Len(h) \in Nat /\ Len(f) \in Nat /\ \A i \in 1..Len(h) : Len(h[i]) \in Nat
  BY DEF String
<1>3. at = of(at)
  <2>1. at = [i \in 1..N |-> at[i]]
    BY DEF Written
  <2>2. ASSUME NEW i \in 1..N PROVE at[i] = IF i = N THEN L ELSE at[i + 1] - Len(h[i]) - 1
    <3>1. CASE i = N
      BY <3>1 DEF Written
    <3>2. CASE i # N
      <4>1. i \in 1..Len(h) /\ i + 1 \in 1..N
        BY <3>2, <1>2
      <4>2. at[i] \in Int /\ at[i + 1] \in Int /\ at[i + 1] = at[i] + Len(h[i]) + 1
        BY <4>1, <1>2 DEF Written
      <4>3. QED
        BY <3>2, <4>1, <4>2, <1>2
    <3>3. QED
      BY <3>1, <3>2
  <2>3. QED
    BY <2>1, <2>2
<1>4. p = of(p)
  BY <1>3
<1> HIDE DEF p
<1>5. ASSUME NEW i \in 1..N PROVE p[i] = IF i = N THEN L ELSE p[i + 1] - Len(h[i]) - 1
  <2>1. of(p)[i] = IF i = N THEN L ELSE p[i + 1] - Len(h[i]) - 1
    OBVIOUS
  <2>2. QED
    BY <2>1, <1>4
<1>6. ASSUME NEW i \in 1..N PROVE at[i] = IF i = N THEN L ELSE at[i + 1] - Len(h[i]) - 1
  <2>1. of(at)[i] = IF i = N THEN L ELSE at[i + 1] - Len(h[i]) - 1
    OBVIOUS
  <2>2. QED
    BY <2>1, <1>3
<1>7. ASSUME NEW i \in 1..N PROVE p[i] = at[i]
  <2> DEFINE D == {k \in 1..N : p[k] # at[k]}
  <2>1. SUFFICES ASSUME D # {} PROVE FALSE
    OBVIOUS
  <2>2. D \in SUBSET Nat /\ N \in Nat /\ \A k \in D : k <= N
    BY <1>2
  <2>3. Max(D) \in D /\ \A k \in D : k <= Max(D)
    BY <2>1, <2>2, MaxFacts
  <2>4. PICK m \in D : \A k \in D : k <= m
    BY <2>3
  <2>5. m # N
    BY <2>4, <1>5, <1>6
  <2>6. m + 1 \in 1..N /\ m + 1 \notin D
    BY <2>2, <2>4, <2>5
  <2>7. p[m + 1] = at[m + 1]
    BY <2>6
  <2>8. p[m] = at[m]
    BY <2>4, <2>5, <2>7, <1>5, <1>6
  <2>9. QED
    BY <2>4, <2>8
<1>8. p = [i \in 1..N |-> p[i]] /\ at = [i \in 1..N |-> at[i]]
  BY <1>3, <1>4
<1>9. QED
  BY <1>1, <1>7, <1>8

LEMMA KeptIs ==
    ASSUME HistOK, Kept(history, file)
    PROVE  HistoryOnFile
<1>1. PICK at : Written(history, file, at) /\ (at[1] = 1 \/ Len(history) >= HistSize)
  BY DEF Kept
<1>2. Places(history, file) = at
  BY <1>1, PlacesIs DEF HistOK
<1>3. Len(history) \in Nat /\ Len(file) \in Nat /\ \A i \in 1..Len(history) : Len(history[i]) \in Nat
  BY DEF HistOK, String
<1>4. ASSUME NEW i \in 1..Len(history)
      PROVE  /\ at[i] \in 1..Len(file)
             /\ SubSeq(file, at[i], at[i + 1] - 1) = Append(history[i], NL)
  <2>0. i \in 1..(Len(history) + 1) /\ i + 1 \in 1..(Len(history) + 1)
    BY <1>3
  <2>1. /\ at[i] \in 1..(Len(file) + 1) /\ at[i + 1] \in 1..(Len(file) + 1)
        /\ at[i + 1] = at[i] + Len(history[i]) + 1
    BY <2>0, <1>1 DEF Written
  <2>2. QED
    BY <2>1, <1>1, <1>3 DEF Written
<1>5. QED
  BY <1>1, <1>2, <1>4 DEF HistoryOnFile

LEMMA EmptyKept == Kept(<<>>, <<>>)
<1> DEFINE at == [i \in 1..1 |-> 1]
<1>1. Len(<<>>) = 0 /\ at \in [1..1 -> 1..1] /\ at[1] = 1
  OBVIOUS
<1> HIDE DEF at
<1>2. Written(<<>>, <<>>, at)
  BY <1>1 DEF Written
<1>3. QED
  BY <1>1, <1>2 DEF Kept

\* The last lines of a text, each with its newline, end it.
LEMMA LoadedKept == ASSUME NEW f \in String, Ended(f) PROVE Kept(load_history(f), f)
<1>1. f \in Seq(Bytes) /\ Len(f) \in Nat /\ HistSize \in Nat
  BY HistSizeNat DEF String
<1>2. PICK n, e : /\ LineEnds(f, n, e)
                  /\ lines(f) = [j \in 1..n |-> SubSeq(f, e[j - 1] + 1, e[j] - 1)]
  BY <1>1, LinesFacts
<1>3. n \in Nat /\ Len(lines(f)) = n /\ lines(f) \in Seq(String)
  <2>1. n \in Nat /\ lines(f) \in Seq(String)
    BY <1>2, LinesStrings DEF LineEnds
  <2>2. DOMAIN lines(f) = 1..n /\ DOMAIN lines(f) = 1..Len(lines(f)) /\ Len(lines(f)) \in Nat
    BY <2>1, <1>2, LenProperties
  <2>3. QED
    BY <2>1, <2>2
<1>4. PICK k \in 0..n : /\ k = IF n <= HistSize THEN 0 ELSE n - HistSize
                        /\ load_history(f) = From(lines(f), k + 1)
  BY <1>1, <1>3, LastNFacts DEF load_history
<1> DEFINE h == load_history(f)
           at == [i \in 1..(n - k + 1) |-> e[k + i - 1] + 1]
<1>5. Len(h) = n - k /\ \A i \in 1..(n - k) : h[i] = SubSeq(f, e[k + i - 1] + 1, e[k + i] - 1)
  <2>1. Len(h) = n - k /\ \A i \in 1..(n - k) : h[i] = lines(f)[k + i]
    <3>1. k \in 0..Len(lines(f))
      BY <1>3, <1>4
    <3> DEFINE t == lines(f)
    <3> HIDE DEF t
    <3>2. t \in Seq(String) /\ k \in 0..Len(t) /\ Len(t) = n
      BY <3>1, <1>3 DEF t
    <3>3. Len(From(t, k + 1)) = Len(t) - k /\ \A i \in 1..(Len(t) - k) : From(t, k + 1)[i] = t[k + i]
      BY <3>2, FromFacts
    <3>4. QED
      BY <3>2, <3>3, <1>4 DEF t
  <2>2. \A i \in 1..(n - k) : k + i \in 1..n /\ (k + i) - 1 = k + i - 1
    BY <1>3
  <2>3. QED
    BY <2>1, <2>2, <1>2
<1> HIDE DEF h
<1>6. /\ at \in [1..(Len(h) + 1) -> 1..(Len(f) + 1)]
      /\ at[Len(h) + 1] = Len(f) + 1 /\ at[1] = e[k] + 1
  <2>1. \A i \in 1..(n - k + 1) : k + i - 1 \in 0..n
    BY <1>3
  <2>2. \A i \in 1..(n - k + 1) : e[k + i - 1] + 1 \in 1..(Len(f) + 1)
    BY <2>1, <1>1, <1>2 DEF LineEnds
  <2>3. at \in [1..(n - k + 1) -> 1..(Len(f) + 1)]
    BY <2>2
  <2>4. at[n - k + 1] = Len(f) + 1
    <3>1. k + (n - k + 1) - 1 = n /\ n - k + 1 \in 1..(n - k + 1)
      BY <1>3
    <3>2. QED
      BY <3>1, <1>2 DEF LineEnds
  <2>5. at[1] = e[k] + 1
    <3>1. k + 1 - 1 = k /\ 1 \in 1..(n - k + 1)
      BY <1>3
    <3>2. QED
      BY <3>1
  <2>6. QED
    BY <2>3, <2>4, <2>5, <1>5
<1>7. ASSUME NEW i \in 1..Len(h)
      PROVE  /\ at[i + 1] = at[i] + Len(h[i]) + 1
             /\ SubSeq(f, at[i], at[i + 1] - 1) = Append(h[i], NL)
  <2> DEFINE a == e[k + i - 1]
             b == e[k + i]
             v == SubSeq(f, a + 1, b - 1)
             w == SubSeq(f, a + 1, b)
  <2>1. i \in 1..(n - k) /\ k + i \in 1..n /\ (k + i) - 1 = k + i - 1 /\ k + (i + 1) - 1 = k + i
    BY <1>3, <1>5
  <2>2. a \in 0..Len(f) /\ b \in 0..Len(f) /\ a < b /\ f[b] = NL
    <3>1. k + i - 1 \in 0..n /\ k + i \in 0..n
      BY <2>1, <1>3
    <3>2. QED
      BY <2>1, <3>1, <1>2 DEF LineEnds
  <2>3. at[i] = a + 1 /\ at[i + 1] = b + 1 /\ h[i] = v
    BY <2>1, <1>3, <1>5
  <2> HIDE DEF a, b, at
  <2>4. v \in Seq(Bytes) /\ Len(v) = b - 1 - a /\ \A j \in 1..(b - 1 - a) : v[j] = f[a + j]
    BY <2>2, <1>1, SubSeqProperties
  <2>5. w \in Seq(Bytes) /\ Len(w) = b - a /\ \A j \in 1..(b - a) : w[j] = f[a + j]
    BY <2>2, <1>1, SubSeqProperties
  <2> HIDE DEF v, w
  <2> DEFINE u == Append(v, NL)
  <2>6. u \in Seq(Bytes) /\ Len(u) = b - a /\ \A j \in 1..(b - a) : u[j] = f[a + j]
    <3>1. NL \in Bytes
      BY ReplAssumption
    <3>2. /\ u \in Seq(Bytes) /\ Len(u) = Len(v) + 1 /\ u[Len(v) + 1] = NL
          /\ \A j \in 1..Len(v) : u[j] = v[j]
      BY <3>1, <2>4, AppendProperties
    <3> HIDE DEF u
    <3>3. Len(v) + 1 = b - a /\ a + (b - a) = b
      BY <2>2, <2>4
    <3>4. ASSUME NEW j \in 1..(b - a) PROVE u[j] = f[a + j]
      <4>1. CASE j = b - a
        BY <4>1, <3>2, <3>3, <2>2
      <4>2. CASE j # b - a
        <5>1. j \in 1..(b - 1 - a)
          BY <4>2, <2>2
        <5>2. QED
          BY <5>1, <3>2, <2>4
      <4>3. QED
        BY <4>1, <4>2
    <3>5. QED
      BY <3>2, <3>3, <3>4
  <2> HIDE DEF u
  <2>7. w = u
    BY <2>5, <2>6, SeqEqual
  <2>8. at[i + 1] - 1 = b /\ at[i] = a + 1
    BY <2>2, <2>3
  <2>9. SubSeq(f, at[i], at[i + 1] - 1) = u
    BY <2>7, <2>8 DEF w
  <2>10. at[i + 1] = at[i] + Len(h[i]) + 1
    BY <2>2, <2>3, <2>4
  <2>11. QED
    BY <2>3, <2>9, <2>10 DEF u
<1> HIDE DEF at
<1>8. at[1] = 1 \/ Len(h) >= HistSize
  <2>1. k = 0 => e[k] = 0
    BY <1>2 DEF LineEnds
  <2>2. QED
    BY <2>1, <1>1, <1>3, <1>4, <1>5, <1>6
<1>9. Written(h, f, at)
  BY <1>6, <1>7 DEF Written
<1>10. QED
  BY <1>8, <1>9 DEF Kept, h

\* An entry added to both ends both.
LEMMA AppendKept ==
    ASSUME NEW h \in Seq(String), NEW f \in String, NEW l \in String, Kept(h, f)
    PROVE  Kept(Append(h, l), f \o l \o <<NL>>)
<1>1. PICK at : Written(h, f, at) /\ (at[1] = 1 \/ Len(h) >= HistSize)
  BY DEF Kept
<1> DEFINE h2 == Append(h, l)
           f2 == f \o l \o <<NL>>
           N == Len(h) + 1
           L == Len(f) + Len(l) + 1
           at2 == [i \in 1..(N + 1) |-> IF i = N + 1 THEN L + 1 ELSE at[i]]
<1>2. /\ Len(h) \in Nat /\ f \in Seq(Bytes) /\ Len(f) \in Nat /\ l \in Seq(Bytes) /\ Len(l) \in Nat
      /\ NL \in Bytes /\ HistSize \in Nat /\ \A i \in 1..Len(h) : h[i] \in Seq(Bytes)
  BY HistSizeNat, StringBytes, NewlineByte
<1>3. Len(h2) = N /\ h2[N] = l /\ \A i \in 1..Len(h) : h2[i] = h[i]
  BY AppendProperties
<1>4. /\ f2 \in Seq(Bytes) /\ Len(f2) = L /\ f2[L] = NL
      /\ \A i \in 1..Len(f) : f2[i] = f[i]
      /\ \A i \in 1..Len(l) : f2[Len(f) + i] = l[i]
  <2> DEFINE g == f \o l
  <2>1. /\ g \in Seq(Bytes) /\ Len(g) = Len(f) + Len(l)
        /\ \A i \in 1..Len(f) : g[i] = f[i]
        /\ \A i \in 1..Len(l) : g[Len(f) + i] = l[i]
    BY <1>2, ConcatFacts
  <2> HIDE DEF g
  <2> DEFINE t == <<NL>>
  <2>2. t \in Seq(Bytes) /\ Len(t) = 1 /\ t[1] = NL
    BY <1>2
  <2>0. g \in Seq(Bytes)
    BY <2>1
  <2>6. t \in Seq(Bytes)
    BY <2>2
  <2> HIDE DEF t
  <2>3. /\ g \o t \in Seq(Bytes) /\ Len(g \o t) = Len(g) + 1
        /\ \A i \in 1..Len(g) : (g \o t)[i] = g[i]
        /\ (g \o t)[Len(g) + 1] = NL
    <3>1. /\ g \o t \in Seq(Bytes) /\ Len(g \o t) = Len(g) + Len(t)
          /\ \A i \in 1..Len(g) : (g \o t)[i] = g[i]
          /\ \A i \in 1..Len(t) : (g \o t)[Len(g) + i] = t[i]
      BY <2>0, <2>6, ConcatFacts
    <3>2. QED
      BY <3>1, <2>2
  <2>4. f2 = g \o t
    BY DEF g, t
  <2> HIDE DEF f2
  <2>5. QED
    BY <2>1, <2>3, <2>4, <1>2
<1> HIDE DEF h2, f2
<1>5. /\ at \in [1..N -> 1..(Len(f) + 1)] /\ at[N] = Len(f) + 1
      /\ \A i \in 1..Len(h) : /\ at[i + 1] = at[i] + Len(h[i]) + 1
                              /\ SubSeq(f, at[i], at[i + 1] - 1) = Append(h[i], NL)
  BY <1>1 DEF Written
<1>6. /\ \A i \in 1..N : at2[i] = at[i]
      /\ at2[N + 1] = L + 1
      /\ at2 \in [1..(N + 1) -> 1..(L + 1)]
  <2>1. \A i \in 1..N : i # N + 1 /\ i \in 1..(N + 1)
    BY <1>2
  <2>2. \A i \in 1..(N + 1) : i = N + 1 \/ i \in 1..N
    BY <1>2
  <2>3. \A i \in 1..(N + 1) : at2[i] \in 1..(L + 1)
    <3>1. \A i \in 1..N : at2[i] = at[i] /\ at[i] \in 1..(Len(f) + 1)
      BY <2>1, <1>5
    <3>0. Len(f) \in Nat /\ L \in Nat /\ Len(f) <= L
      BY <1>2, <1>4
    <3>2. ASSUME NEW i \in 1..N PROVE at2[i] \in 1..(L + 1)
      <4> DEFINE a == at2[i]
      <4>1. a \in 1..(Len(f) + 1)
        BY <3>1
      <4> HIDE DEF a
      <4>2. a \in 1..(L + 1)
        BY <4>1, <3>0
      <4>3. QED
        BY <4>2 DEF a
    <3>3. N + 1 \in 1..(N + 1) /\ at2[N + 1] = L + 1 /\ L + 1 \in 1..(L + 1)
      BY <1>2
    <3> HIDE DEF at2
    <3>4. QED
      BY <2>2, <3>2, <3>3
  <2>4. N + 1 \in 1..(N + 1)
    BY <1>2
  <2>5. QED
    BY <2>1, <2>3, <2>4
<1> HIDE DEF at2
<1>7. ASSUME NEW i \in 1..N
      PROVE  /\ at2[i + 1] = at2[i] + Len(h2[i]) + 1
             /\ SubSeq(f2, at2[i], at2[i + 1] - 1) = Append(h2[i], NL)
  <2>1. CASE i = N
    <3>1. at2[i] = Len(f) + 1 /\ at2[i + 1] - 1 = L /\ h2[i] = l /\ at2[i + 1] = L + 1
      BY <2>1, <1>2, <1>3, <1>5, <1>6
    <3> DEFINE v == SubSeq(f2, Len(f) + 1, L)
               w == Append(l, NL)
    <3>2. v \in Seq(Bytes) /\ Len(v) = Len(l) + 1 /\ \A j \in 1..(Len(l) + 1) : v[j] = f2[Len(f) + j]
      <4>1. Len(f) + 1 \in 1..L /\ L \in Int /\ L - (Len(f) + 1) + 1 = Len(l) + 1
        BY <1>2
      <4>2. \A j \in (Len(f) + 1)..L : f2[j] \in Bytes
        BY <1>2, <1>4
      <4>3. /\ v \in Seq(Bytes) /\ Len(v) = L - (Len(f) + 1) + 1
            /\ \A j \in 1..(L - (Len(f) + 1) + 1) : v[j] = f2[(Len(f) + 1) + j - 1]
        BY <4>1, <4>2, <1>2, SubSeqProperties
      <4> HIDE DEF v
      <4>4. \A j \in 1..(Len(l) + 1) : (Len(f) + 1) + j - 1 = Len(f) + j
        BY <1>2
      <4>5. QED
        BY <4>1, <4>3, <4>4
    <3>3. w \in Seq(Bytes) /\ Len(w) = Len(l) + 1 /\ w[Len(l) + 1] = NL /\ \A j \in 1..Len(l) : w[j] = l[j]
      BY <1>2, AppendProperties
    <3> HIDE DEF v, w
    <3>4. ASSUME NEW j \in 1..(Len(l) + 1) PROVE v[j] = w[j]
      <4>1. CASE j = Len(l) + 1
        <5>1. Len(f) + j = L
          BY <4>1, <1>2
        <5>2. QED
          BY <4>1, <5>1, <3>2, <3>3, <1>4
      <4>2. CASE j # Len(l) + 1
        <5>1. j \in 1..Len(l)
          BY <4>2, <1>2
        <5>2. QED
          BY <5>1, <3>2, <3>3, <1>4
      <4>3. QED
        BY <4>1, <4>2
    <3>5. v = w
      BY <3>2, <3>3, <3>4, SeqEqual
    <3>6. at2[i + 1] = at2[i] + Len(h2[i]) + 1
      BY <3>1, <1>2
    <3>7. QED
      BY <3>1, <3>5, <3>6 DEF v, w
  <2>2. CASE i # N
    <3>1. i \in 1..Len(h) /\ i \in 1..N /\ i + 1 \in 1..N
      BY <2>2, <1>2
    <3> DEFINE a == at[i]
               b == at[i + 1] - 1
    <3>2. /\ a \in 1..(Len(f) + 1) /\ b \in 0..Len(f)
          /\ at2[i] = a /\ at2[i + 1] - 1 = b /\ h2[i] = h[i]
          /\ at2[i + 1] = at2[i] + Len(h2[i]) + 1
      <4>1. /\ at[i] \in 1..(Len(f) + 1) /\ at[i + 1] \in 1..(Len(f) + 1)
            /\ at2[i] = at[i] /\ at2[i + 1] = at[i + 1] /\ h2[i] = h[i]
            /\ at[i + 1] = at[i] + Len(h[i]) + 1
        BY <3>1, <1>3, <1>5, <1>6
      <4>2. QED
        BY <4>1, <1>2
    <3>3. SubSeq(f, a, b) = Append(h[i], NL)
      BY <3>1, <1>5
    <3> HIDE DEF a, b
    <3>4. SubSeq(f2, a, b) = SubSeq(f, a, b)
      <4> DEFINE v == SubSeq(f2, a, b)
                 w == SubSeq(f, a, b)
      <4>1. \A j \in a..b : j \in 1..Len(f) /\ f2[j] = f[j] /\ f[j] \in Bytes
        BY <3>2, <1>2, <1>4
      <4>2. /\ v \in Seq(Bytes) /\ Len(v) = (IF a <= b THEN b - a + 1 ELSE 0)
            /\ \A j \in 1..(b - a + 1) : v[j] = f2[a + j - 1]
        BY <4>1, <3>2, SubSeqProperties
      <4>3. /\ w \in Seq(Bytes) /\ Len(w) = (IF a <= b THEN b - a + 1 ELSE 0)
            /\ \A j \in 1..(b - a + 1) : w[j] = f[a + j - 1]
        BY <4>1, <3>2, SubSeqProperties
      <4> HIDE DEF v, w
      <4>4. ASSUME NEW j \in 1..Len(v) PROVE v[j] = w[j]
        <5>0. a \in Int /\ b \in Int
          BY <3>2, <1>2
        <5>1. j \in 1..(b - a + 1) /\ a + j - 1 \in a..b
          BY <5>0, <4>2
        <5>2. QED
          BY <5>1, <4>1, <4>2, <4>3
      <4>5. v = w
        BY <4>2, <4>3, <4>4, SeqEqual
      <4>6. QED
        BY <4>5 DEF v, w
    <3>5. QED
      BY <3>2, <3>3, <3>4
  <2>3. QED
    BY <2>1, <2>2
<1>8. Written(h2, f2, at2)
  BY <1>3, <1>4, <1>6, <1>7 DEF Written
<1>9. at2[1] = 1 \/ Len(h2) >= HistSize
  <2>1. 1 \in 1..N
    BY <1>2
  <2>2. QED
    BY <2>1, <1>1, <1>2, <1>3, <1>6
<1>10. QED
  BY <1>8, <1>9 DEF Kept, h2, f2

LEMMA RememberKept ==
    ASSUME NEW e \in String, NEW h \in Seq(String), NEW f \in String, Kept(h, f), Remember(e, h, f)
    PROVE  Kept(history', file')
<1>1. CASE history' = h /\ file' = f
  BY <1>1
<1>2. CASE history' = Append(h, e) /\ file' = f \o e \o <<NL>>
  BY <1>2, AppendKept
<1>3. QED
  BY <1>1, <1>2 DEF Remember

LEMMA ExecutedKept ==
    ASSUME HistOK, NEW l \in String, Kept(history, file), Executed(l)
    PROVE  Kept(history', file')
<1> DEFINE h == IF clearing(l) THEN <<>> ELSE history
           f == cleared_file(clearing(l))
<1>1. h \in Seq(String) /\ f \in String /\ Kept(h, f)
  BY EmptyString, EmptyKept DEF HistOK, cleared_file
<1>2. Remember(l, h, f)
  BY DEF Executed
<1> HIDE DEF h, f
<1>3. QED
  BY <1>1, <1>2, RememberKept

LEMMA StepKept ==
    ASSUME EditorInv, Next, Kept(history, file)
    PROVE  Kept(history', file')
<1>1. HistOK /\ PartOK /\ full_line \in String /\ joined \in String
  BY EntriesStrings DEF EditorInv
<1>2. CASE Enter
  BY <1>1, <1>2, ExecutedKept DEF Enter
<1>3. CASE HereDocEnd
  <2>1. redirected(command) \in String /\ command \in String
    BY <1>1, <1>3, RedirectedString DEF HereDocEnd, ReadBody, PartOK
  <2>2. QED
    BY <2>1, <1>1, <1>3, ExecutedKept DEF HereDocEnd
<1>4. CASE FunctionLine \/ BlockLine
  <2>1. \/ UNCHANGED <<history, saved_line, file>>
        \/ Remember(full_line, history, file)
        \/ Remember(joined, history, file)
    BY <1>4 DEF FunctionLine, BlockLine
  <2>2. QED
    BY <2>1, <1>1, RememberKept DEF HistOK
<1>5. CASE Restart
  BY <1>1, <1>5, LoadedKept DEF Restart, HistOK
<1>6. CASE \/ Type \/ Up \/ Down \/ Continue \/ EmptyLine \/ abort_line \/ CtrlD \/ ExitCommand
           \/ HereDoc \/ HereDocByte \/ HereDocExit \/ TabPanics
  <2>1. history' = history /\ file' = file
    BY <1>6 DEF Type, Up, Down, Continue, EmptyLine, abort_line, CtrlD, ExitCommand, HereDoc,
       HereDocByte, HereDocExit, TabPanics, histVars
  <2>2. QED
    BY <2>1
<1>7. CASE \/ Insert \/ Backspace \/ Delete \/ Right \/ Left \/ ToStart \/ ToEnd \/ KillBefore
           \/ KillAfter \/ KillWord \/ Redraw \/ UnknownEscape \/ Tab
  <2>1. history' = history /\ file' = file
    BY <1>7 DEF Insert, Backspace, Delete, Right, Left, ToStart, ToEnd, KillBefore,
       KillAfter, KillWord, Redraw, UnknownEscape, Tab, Edit, histVars
  <2>2. QED
    BY <2>1
<1>8. QED
  BY <1>2, <1>3, <1>4, <1>5, <1>6, <1>7 DEF Next

\* HistoryOnFile in every behaviour: the entries of the history, line by line, end the file,
\* and nothing is before them unless there are HISTSIZE of them, whatever was typed, defined,
\* run as a block, rewritten for a here-document, repeated or cleared, and however often the
\* shell began anew.
THEOREM HistorySurvives == Spec => []HistoryOnFile
<1>1. EditorInv /\ Kept(history, file) => HistoryOnFile
  BY KeptIs DEF EditorInv
<1>2. Init => Kept(history, file)
  <2>1. Stored \in String /\ Ended(Stored)
    BY ReplAssumption, StringBytes DEF Ended, Last
  <2>2. QED
    BY <2>1, LoadedKept DEF Init
<1>3. EditorInv /\ Kept(history, file) /\ [Next]_vars => Kept(history, file)'
  <2>1. CASE Next
    BY <2>1, StepKept
  <2>2. CASE UNCHANGED vars
    BY <2>2 DEF vars, histVars
  <2>3. QED
    BY <2>1, <2>2
<1>4. Spec => []Kept(history, file)
  BY <1>2, <1>3, InvHolds, PTL DEF Spec
<1>5. QED
  BY <1>1, <1>4, InvHolds, PTL

=============================================================================
