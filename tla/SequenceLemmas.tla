--------------------------- MODULE SequenceLemmas ---------------------------
(***************************************************************************)
(* Sequences that repeat nothing, as the queues and lists of waiting       *)
(* things are: what is in them when one end is extended or taken off; and  *)
(* such sequences as lists that are linked through a heap.                 *)
(***************************************************************************)
EXTENDS Integers, FiniteSets, Sequences, SequencesExt, Lists, FiniteSetTheorems,
        SequenceTheorems, WellFoundedInduction, TLAPS

LEMMA AppendRange ==
  ASSUME NEW S, NEW s \in Seq(S), NEW x
  PROVE  Range(Append(s, x)) = Range(s) \cup {x}
<1>1. DOMAIN Append(s, x) = 1..(Len(s) + 1)
  OBVIOUS
<1>2. /\ \A i \in 1..Len(s) : Append(s, x)[i] = s[i]
      /\ Append(s, x)[Len(s) + 1] = x
      /\ DOMAIN s = 1..Len(s) /\ Len(s) \in Nat
  OBVIOUS
<1>3. 1..(Len(s) + 1) = (1..Len(s)) \cup {Len(s) + 1}
  BY <1>2
<1> QED  BY <1>1, <1>2, <1>3 DEF Range

LEMMA HeadTailRange ==
  ASSUME NEW S, NEW s \in Seq(S), s # <<>>
  PROVE  /\ Len(s) \in Nat \ {0} /\ DOMAIN s = 1..Len(s)
         /\ Head(s) = s[1] /\ Tail(s) \in Seq(S) /\ s[1] \in S
         /\ DOMAIN Tail(s) = 1..(Len(s) - 1) /\ Len(Tail(s)) = Len(s) - 1
         /\ \A i \in 1..(Len(s) - 1) : Tail(s)[i] = s[i + 1]
         /\ Range(s) = {Head(s)} \cup Range(Tail(s))
<1>1. /\ Len(s) \in Nat \ {0} /\ DOMAIN s = 1..Len(s)
      /\ Head(s) = s[1] /\ Tail(s) \in Seq(S) /\ s[1] \in S
      /\ DOMAIN Tail(s) = 1..(Len(s) - 1) /\ Len(Tail(s)) = Len(s) - 1
      /\ \A i \in 1..(Len(s) - 1) : Tail(s)[i] = s[i + 1]
  OBVIOUS
<1>2. Range(s) = {s[1]} \cup Range(Tail(s))
  <2>1. \A i \in 1..Len(s) : i = 1 \/ (i - 1 \in 1..(Len(s) - 1) /\ s[i] = Tail(s)[i - 1])
    BY <1>1
  <2>2. \A i \in 1..(Len(s) - 1) : i + 1 \in 1..Len(s)
    BY <1>1
  <2>3. 1 \in 1..Len(s)
    BY <1>1
  <2>4. Range(s) = {s[i] : i \in 1..Len(s)}
    BY <1>1 DEF Range
  <2>5. Range(Tail(s)) = {Tail(s)[i] : i \in 1..(Len(s) - 1)}
    BY <1>1 DEF Range
  <2>6. ASSUME NEW x \in Range(s) PROVE x \in {s[1]} \cup Range(Tail(s))
    <3>1. PICK i \in 1..Len(s) : x = s[i]
      BY <2>4, <2>6
    <3>2. CASE i = 1
      BY <3>1, <3>2
    <3>3. CASE i # 1
      <4>1. i - 1 \in 1..(Len(s) - 1) /\ x = Tail(s)[i - 1]
        BY <2>1, <3>1, <3>3
      <4> QED  BY <2>5, <4>1
    <3> QED  BY <3>2, <3>3
  <2>7. ASSUME NEW x \in Range(Tail(s)) PROVE x \in Range(s)
    <3>1. PICK i \in 1..(Len(s) - 1) : x = Tail(s)[i]
      BY <2>5, <2>7
    <3>2. i + 1 \in 1..Len(s) /\ x = s[i + 1]
      BY <1>1, <2>2, <3>1
    <3> QED  BY <2>4, <3>2
  <2>8. s[1] \in Range(s)
    BY <2>3, <2>4
  <2> QED  BY <2>6, <2>7, <2>8
<1> QED  BY <1>1, <1>2

LEMMA AppendNew ==
  ASSUME NEW S, NEW s \in Seq(S), NEW x \in S, x \notin Range(s),
         \A i, j \in 1..Len(s) : s[i] = s[j] => i = j
  PROVE  \A i, j \in 1..Len(Append(s, x)) : Append(s, x)[i] = Append(s, x)[j] => i = j
<1> DEFINE t == Append(s, x)
<1>1. /\ Len(s) \in Nat /\ Len(t) = Len(s) + 1 /\ t[Len(s) + 1] = x
      /\ \A i \in 1..Len(s) : t[i] = s[i]
  OBVIOUS
<1>2. \A i \in 1..Len(s) : s[i] # x
  BY DEF Range
<1> HIDE DEF t
<1>3. \A i \in 1..Len(t) : i = Len(s) + 1 \/ i \in 1..Len(s)
  BY <1>1
<1>4. \A i, j \in 1..Len(t) : t[i] = t[j] => i = j
  BY <1>1, <1>2, <1>3
<1> QED  BY <1>4 DEF t

LEMMA TailRange ==
  ASSUME NEW S, NEW s \in Seq(S), s # <<>>,
         \A i, j \in 1..Len(s) : s[i] = s[j] => i = j
  PROVE  /\ Head(s) \in S /\ Head(s) \in Range(s) /\ Tail(s) \in Seq(S)
         /\ Range(Tail(s)) = Range(s) \ {Head(s)}
         /\ \A i, j \in 1..Len(Tail(s)) : Tail(s)[i] = Tail(s)[j] => i = j
<1>1. /\ Len(s) \in Nat \ {0} /\ DOMAIN s = 1..Len(s)
      /\ Head(s) = s[1] /\ Tail(s) \in Seq(S) /\ s[1] \in S
      /\ DOMAIN Tail(s) = 1..(Len(s) - 1) /\ Len(Tail(s)) = Len(s) - 1
      /\ \A i \in 1..(Len(s) - 1) : Tail(s)[i] = s[i + 1]
  BY HeadTailRange
<1>2. Range(s) = {s[1]} \cup Range(Tail(s))
  BY <1>1, HeadTailRange
<1>3. s[1] \notin Range(Tail(s))
  <2>1. \A i \in 1..(Len(s) - 1) : i + 1 \in 1..Len(s) /\ 1 \in 1..Len(s) /\ i + 1 # 1
    BY <1>1
  <2> QED  BY <1>1, <2>1 DEF Range
<1>4. \A i, j \in 1..Len(Tail(s)) : Tail(s)[i] = Tail(s)[j] => i = j
  <2> SUFFICES ASSUME NEW i \in 1..(Len(s) - 1), NEW j \in 1..(Len(s) - 1),
                      s[i + 1] = s[j + 1]
               PROVE  i = j
    BY <1>1
  <2>1. i + 1 \in 1..Len(s) /\ j + 1 \in 1..Len(s)
    BY <1>1
  <2>2. i + 1 = j + 1
    BY <2>1
  <2> QED  BY <2>2
<1>5. Range(Tail(s)) = Range(s) \ {s[1]}
  BY <1>2, <1>3
<1> QED  BY <1>1, <1>2, <1>4, <1>5

LEMMA PushFront ==
  ASSUME NEW S, NEW s \in Seq(S), NEW x \in S, x \notin Range(s),
         \A i, j \in 1..Len(s) : s[i] = s[j] => i = j
  PROVE  /\ <<x>> \o s \in Seq(S)
         /\ Range(<<x>> \o s) = {x} \cup Range(s)
         /\ \A i, j \in 1..Len(<<x>> \o s) : (<<x>> \o s)[i] = (<<x>> \o s)[j] => i = j
<1> DEFINE t == <<x>> \o s
<1>1. /\ t \in Seq(S) /\ Len(s) \in Nat /\ DOMAIN s = 1..Len(s)
      /\ Len(t) = Len(s) + 1 /\ DOMAIN t = 1..(Len(s) + 1)
      /\ t[1] = x /\ \A i \in 2..(Len(s) + 1) : t[i] = s[i - 1]
  OBVIOUS
<1> HIDE DEF t
<1>2. /\ \A i \in 1..(Len(s) + 1) : i = 1 \/ (i \in 2..(Len(s) + 1) /\ i - 1 \in 1..Len(s))
      /\ \A i \in 1..Len(s) : i + 1 \in 2..(Len(s) + 1) /\ (i + 1) - 1 = i
      /\ 2..(Len(s) + 1) \subseteq 1..(Len(s) + 1) /\ 1 \in 1..(Len(s) + 1)
  BY <1>1
<1>3. Range(t) = {x} \cup Range(s)
  <2>1. Range(s) = {s[i] : i \in 1..Len(s)} /\ Range(t) = {t[i] : i \in 1..(Len(s) + 1)}
    BY <1>1 DEF Range
  <2>2. ASSUME NEW y \in Range(t) PROVE y \in {x} \cup Range(s)
    <3>1. PICK i \in 1..(Len(s) + 1) : y = t[i]
      BY <2>1, <2>2
    <3>2. CASE i = 1
      BY <1>1, <3>1, <3>2
    <3>3. CASE i # 1
      <4>1. y = s[i - 1] /\ i - 1 \in 1..Len(s)
        BY <1>1, <1>2, <3>1, <3>3
      <4> QED  BY <2>1, <4>1
    <3> QED  BY <3>2, <3>3
  <2>3. ASSUME NEW y \in Range(s) PROVE y \in Range(t)
    <3>1. PICK i \in 1..Len(s) : y = s[i]
      BY <2>1, <2>3
    <3>2. i + 1 \in 1..(Len(s) + 1) /\ t[i + 1] = y
      BY <1>1, <1>2, <3>1
    <3> QED  BY <2>1, <3>2
  <2>4. x \in Range(t)
    BY <1>1, <1>2, <2>1
  <2> QED  BY <2>2, <2>3, <2>4
<1>4. \A i, j \in 1..(Len(s) + 1) : t[i] = t[j] => i = j
  <2> SUFFICES ASSUME NEW i \in 1..(Len(s) + 1), NEW j \in 1..(Len(s) + 1), t[i] = t[j]
               PROVE  i = j
    OBVIOUS
  <2>1. \A k \in 1..Len(s) : s[k] # x
    BY <1>1 DEF Range
  <2>2. CASE i = 1 \/ j = 1
    BY <1>1, <1>2, <2>1, <2>2
  <2>3. CASE i # 1 /\ j # 1
    <3>1. s[i - 1] = s[j - 1] /\ i - 1 \in 1..Len(s) /\ j - 1 \in 1..Len(s)
      BY <1>1, <1>2, <2>3
    <3>2. i - 1 = j - 1
      BY <3>1
    <3> QED  BY <3>2
  <2> QED  BY <2>2, <2>3
<1> QED  BY <1>1, <1>3, <1>4 DEF t

LEMMA RangeOfList ==
  ASSUME NEW S, NEW q \in Seq(S)
  PROVE  Range(q) \subseteq S /\ Range(q) = {q[i] : i \in 1..Len(q)}
<1>1. DOMAIN q = 1..Len(q) /\ \A i \in 1..Len(q) : q[i] \in S
  OBVIOUS
<1> QED  BY <1>1 DEF Range

LEMMA ConcatNew ==
  ASSUME NEW S, NEW s \in Seq(S), NEW t \in Seq(S), Range(s) \cap Range(t) = {},
         \A i, j \in 1..Len(s) : s[i] = s[j] => i = j,
         \A i, j \in 1..Len(t) : t[i] = t[j] => i = j
  PROVE  /\ s \o t \in Seq(S)
         /\ Range(s \o t) = Range(s) \cup Range(t)
         /\ \A i, j \in 1..Len(s \o t) : (s \o t)[i] = (s \o t)[j] => i = j
<1> DEFINE u == s \o t
<1>1. /\ u \in Seq(S) /\ Len(s) \in Nat /\ Len(t) \in Nat /\ Len(u) = Len(s) + Len(t)
      /\ \A i \in 1..(Len(s) + Len(t)) :
           u[i] = IF i <= Len(s) THEN s[i] ELSE t[i - Len(s)]
  BY ConcatProperties, LenProperties
<1> HIDE DEF u
<1>2. /\ Range(s) = {s[i] : i \in 1..Len(s)} /\ Range(t) = {t[i] : i \in 1..Len(t)}
      /\ Range(u) = {u[i] : i \in 1..Len(u)}
  <2>1. \A q \in Seq(S) : Range(q) = {q[i] : i \in 1..Len(q)}
    BY RangeOfList
  <2> QED  BY <1>1, <2>1
<1>3. \A i \in 1..Len(s), j \in 1..Len(t) : s[i] # t[j]
  <2>1. \A i \in 1..Len(s) : s[i] \in Range(s)
    BY <1>2
  <2>2. \A j \in 1..Len(t) : t[j] \in Range(t)
    BY <1>2
  <2> QED  BY <2>1, <2>2
<1>4. ASSUME NEW i \in 1..Len(u)
      PROVE  \/ i \in 1..Len(s) /\ u[i] = s[i]
             \/ ~(i <= Len(s)) /\ i - Len(s) \in 1..Len(t) /\ u[i] = t[i - Len(s)]
  BY <1>1
<1>5. ASSUME NEW i \in 1..Len(u), NEW j \in 1..Len(u), u[i] = u[j] PROVE i = j
  <2>1. CASE i <= Len(s) /\ j <= Len(s)
    BY <1>1, <1>4, <1>5, <2>1
  <2>2. CASE ~(i <= Len(s)) /\ ~(j <= Len(s))
    <3>1. i - Len(s) = j - Len(s)
      BY <1>4, <1>5, <2>2
    <3> QED  BY <1>1, <3>1
  <2>3. CASE i <= Len(s) /\ ~(j <= Len(s))
    BY <1>3, <1>4, <1>5, <2>3
  <2>4. CASE ~(i <= Len(s)) /\ j <= Len(s)
    BY <1>3, <1>4, <1>5, <2>4
  <2> QED  BY <2>1, <2>2, <2>3, <2>4
<1>6. Range(u) = Range(s) \cup Range(t)
  <2>1. Range(u) \subseteq Range(s) \cup Range(t)
    BY <1>2, <1>4
  <2>2. ASSUME NEW i \in 1..Len(s) PROVE s[i] \in Range(u)
    <3>1. i \in 1..Len(u) /\ u[i] = s[i]
      BY <1>1
    <3> QED  BY <1>2, <3>1
  <2>3. ASSUME NEW i \in 1..Len(t) PROVE t[i] \in Range(u)
    <3>1. i + Len(s) \in 1..Len(u) /\ ~(i + Len(s) <= Len(s)) /\ (i + Len(s)) - Len(s) = i
      BY <1>1
    <3>2. u[i + Len(s)] = t[i]
      BY <1>4, <3>1
    <3> QED  BY <1>2, <3>1, <3>2
  <2>4. Range(s) \subseteq Range(u) /\ Range(t) \subseteq Range(u)
    BY <1>2, <2>2, <2>3
  <2> QED  BY <2>1, <2>4
<1> QED  BY <1>1, <1>5, <1>6 DEF u

LEMMA EmptyRange ==
  /\ Range(<<>>) = {}
  /\ \A i, j \in 1..Len(<<>>) : i = j
<1>1. DOMAIN <<>> = {} /\ Len(<<>>) = 0
  OBVIOUS
<1> QED  BY <1>1 DEF Range

LEMMA TailNonEmpty ==
  ASSUME NEW S, NEW s \in Seq(S), Len(s) > 1
  PROVE  Tail(s) # <<>>
<1>1. s # <<>>
  BY EmptySeq
<1>2. Tail(s) \in Seq(S) /\ Len(Tail(s)) = Len(s) - 1 /\ Len(s) \in Nat
  BY <1>1, HeadTailProperties, LenProperties
<1>3. Len(Tail(s)) # 0
  BY <1>2
<1> QED  BY <1>2, <1>3, EmptySeq

LEMMA ReverseType ==
  ASSUME NEW S, NEW s \in Seq(S)
  PROVE  Reverse(s) \in Seq(S)
<1>1. /\ Len(s) \in Nat
      /\ \A i \in 1..Len(s) : (Len(s) - i) + 1 \in 1..Len(s) /\ s[(Len(s) - i) + 1] \in S
  OBVIOUS
<1> QED  BY <1>1 DEF Reverse

(* A sequence without repetition has as many elements as its range.        *)
LEMMA RangeCount ==
  ASSUME NEW S, NEW s \in Seq(S), \A i, j \in 1..Len(s) : s[i] = s[j] => i = j
  PROVE  IsFiniteSet(Range(s)) /\ Cardinality(Range(s)) = Len(s)
<1>1. Len(s) \in Nat /\ DOMAIN s = 1..Len(s) /\ s \in [1..Len(s) -> S]
  OBVIOUS
<1>2. s \in Bijection(1..Len(s), Range(s))
  BY <1>1 DEF Bijection, Injection, Surjection, IsInjective, Range
<1>3. ExistsBijection(1..Len(s), Range(s))
  BY <1>2 DEF ExistsBijection
<1> QED  BY <1>1, <1>3, FS_NatBijection, FS_CountingElements

(* Disjoint finite sets.                                                   *)
LEMMA DisjointCount ==
  ASSUME NEW S, NEW T, IsFiniteSet(S), IsFiniteSet(T), S \cap T = {}
  PROVE  /\ IsFiniteSet(S \cup T)
         /\ Cardinality(S \cup T) = Cardinality(S) + Cardinality(T)
<1>1. Cardinality(S) \in Nat /\ Cardinality(T) \in Nat
  BY FS_CardinalityType
<1>2. Cardinality(S \cap T) = 0
  BY FS_EmptySet
<1>3. /\ IsFiniteSet(S \cup T)
      /\ Cardinality(S \cup T) = Cardinality(S) + Cardinality(T) - Cardinality(S \cap T)
  BY FS_Union
<1> QED  BY <1>1, <1>2, <1>3

-----------------------------------------------------------------------------
(* Induction, for a set that is given by what its elements satisfy.        *)
LEMMA SetInduction ==
  ASSUME NEW T, 0 \in T, \A n \in Nat : n \in T => n + 1 \in T
  PROVE  Nat \subseteq T
<1> DEFINE R == OpToRel(<, Nat)
<1>1. \A x, y \in Nat : <<y, x>> \in R <=> y < x
  BY DEF OpToRel
<1>2. IsWellFoundedOn(R, Nat)
  BY NatLessThanWellFounded
<1> HIDE DEF R
<1>3. SUFFICES ASSUME Nat \ T # {} PROVE FALSE
  OBVIOUS
<1>4. PICK x \in Nat \ T : \A y \in Nat \ T : ~ (<<y, x>> \in R)
  BY <1>2, <1>3, WFMin
<1>5. x # 0
  BY <1>4
<1>6. x - 1 \in Nat /\ <<x - 1, x>> \in R
  BY <1>1, <1>4, <1>5
<1>7. x - 1 \in T
  BY <1>4, <1>6
<1>8. (x - 1) + 1 = x
  BY <1>4
<1> QED  BY <1>4, <1>6, <1>7, <1>8

(* A set of integers with a bound below has a least one.                   *)
LEMMA LeastOf ==
  ASSUME NEW S, S \subseteq Int, NEW x \in S, NEW b \in Int, \A y \in S : y >= b
  PROVE  \E m \in S : \A y \in S : m <= y
<1> DEFINE T == {n \in Nat : \A y \in S : y - b <= n => \E m \in S : \A z \in S : m <= z}
<1>1. 0 \in T
  <2>1. ASSUME NEW y \in S, y - b <= 0 PROVE \A z \in S : y <= z
    BY <2>1
  <2> QED  BY <2>1
<1>2. ASSUME NEW n \in Nat, n \in T PROVE n + 1 \in T
  <2> SUFFICES ASSUME NEW y \in S, y - b <= n + 1
               PROVE  \E m \in S : \A z \in S : m <= z
    OBVIOUS
  <2>1. CASE \A z \in S : y <= z
    BY <2>1
  <2>2. CASE \E z \in S : ~(y <= z)
    <3>1. PICK z \in S : ~(y <= z)
      BY <2>2
    <3>2. z - b <= n
      BY <3>1
    <3> QED  BY <1>2, <3>2
  <2> QED  BY <2>1, <2>2
<1>3. Nat \subseteq T
  <2> HIDE DEF T
  <2> QED  BY <1>1, <1>2, SetInduction
<1>4. x - b \in Nat /\ x - b <= x - b
  OBVIOUS
<1> QED  BY <1>3, <1>4

-----------------------------------------------------------------------------
(* Among *)

Unfolds(F, s, S, n) ==
  F = [i \in 0..n |-> IF i = 0 THEN <<>>
                      ELSE IF s[i] \in S THEN Append(F[i - 1], s[i])
                      ELSE F[i - 1]]

LEMMA UnfoldsFurther ==
  ASSUME NEW s, NEW S, NEW n \in Nat, NEW F, Unfolds(F, s, S, n)
  PROVE  \E G : Unfolds(G, s, S, n + 1)
<1> DEFINE last == IF s[n + 1] \in S THEN Append(F[n], s[n + 1]) ELSE F[n]
           G == [i \in 0..(n + 1) |-> IF i = n + 1 THEN last ELSE F[i]]
<1>1. \A i \in 0..(n + 1) : i = n + 1 \/ (i \in 0..n /\ i # n + 1)
  OBVIOUS
<1>2. \A i \in 0..n : i # 0 => i - 1 \in 0..n /\ i - 1 # n + 1 /\ i - 1 \in 0..(n + 1)
  OBVIOUS
<1>3. /\ n \in 0..(n + 1) /\ n # n + 1 /\ (n + 1) - 1 = n /\ n + 1 # 0
      /\ n + 1 \in 0..(n + 1) /\ n \in 0..n
  OBVIOUS
<1>4. /\ \A i \in 0..(n + 1) : i # n + 1 => G[i] = F[i]
      /\ G[n + 1] = last /\ G[n] = F[n]
  BY <1>3
<1>5. \A i \in 0..n : F[i] = IF i = 0 THEN <<>>
                             ELSE IF s[i] \in S THEN Append(F[i - 1], s[i])
                             ELSE F[i - 1]
  BY DEF Unfolds
<1>6. ASSUME NEW i \in 0..(n + 1)
      PROVE  G[i] = IF i = 0 THEN <<>>
                    ELSE IF s[i] \in S THEN Append(G[i - 1], s[i])
                    ELSE G[i - 1]
  <2> HIDE DEF G
  <2>1. CASE i = n + 1
    BY <1>3, <1>4, <2>1
  <2>2. CASE i # n + 1
    <3>1. i \in 0..n /\ G[i] = F[i]
      BY <1>1, <1>4, <2>2
    <3>2. i # 0 => G[i - 1] = F[i - 1]
      BY <1>2, <1>4, <3>1
    <3> QED  BY <1>5, <3>1, <3>2
  <2> QED  BY <2>1, <2>2
<1>7. Unfolds(G, s, S, n + 1)
  BY <1>6 DEF Unfolds
<1> QED  BY <1>7

LEMMA AmongUnfolds ==
  ASSUME NEW T, NEW s \in Seq(T), NEW S
  PROVE  \E F : Unfolds(F, s, S, Len(s)) /\ Among(s, S) = F[Len(s)]
<1> DEFINE D == {n \in Nat : \E F : Unfolds(F, s, S, n)}
<1>1. 0 \in D
  <2>1. Unfolds([i \in 0..0 |-> <<>>], s, S, 0)
    BY DEF Unfolds
  <2> QED  BY <2>1
<1>2. \A n \in Nat : n \in D => n + 1 \in D
  BY UnfoldsFurther
<1>3. Len(s) \in D
  <2> HIDE DEF D
  <2> QED  BY <1>1, <1>2, SetInduction, LenProperties
<1>4. \E F : Unfolds(F, s, S, Len(s))
  BY <1>3
<1> QED  BY <1>4 DEF Among, Unfolds

(* Splitting a list by a set: what is in the part, and that it repeats     *)
(* nothing if the list does not.                                           *)
LEMMA AmongList ==
  ASSUME NEW T, NEW s \in Seq(T), NEW S
  PROVE  /\ Among(s, S) \in Seq(T)
         /\ Range(Among(s, S)) = Range(s) \cap S
         /\ (\A i, j \in 1..Len(s) : s[i] = s[j] => i = j) =>
              \A i, j \in 1..Len(Among(s, S)) : Among(s, S)[i] = Among(s, S)[j] => i = j
<1> DEFINE NoRepeat(q) == \A i, j \in 1..Len(q) : q[i] = q[j] => i = j
           UpTo(n) == {s[j] : j \in 1..n}
<1>1. PICK F : Unfolds(F, s, S, Len(s)) /\ Among(s, S) = F[Len(s)]
  BY AmongUnfolds
<1>2. Len(s) \in Nat /\ DOMAIN s = 1..Len(s) /\ \A i \in 1..Len(s) : s[i] \in T
  OBVIOUS
<1> DEFINE Fine(n) == /\ F[n] \in Seq(T) /\ Range(F[n]) = UpTo(n) \cap S
                      /\ NoRepeat(s) => NoRepeat(F[n])
           D == {n \in Nat : n <= Len(s) => Fine(n)}
<1>3. F[0] = <<>>
  BY <1>1, <1>2 DEF Unfolds
<1>4. 0 \in D
  <2>1. UpTo(0) = {} /\ Range(<<>>) = {} /\ <<>> \in Seq(T) /\ NoRepeat(<<>>)
    BY DEF Range
  <2>2. Fine(0)
    BY <1>3, <2>1
  <2> HIDE DEF Fine
  <2> QED  BY <2>2
<1>5. ASSUME NEW n \in Nat, n + 1 <= Len(s), Fine(n) PROVE Fine(n + 1)
  <2>1. n + 1 \in 1..Len(s) /\ n + 1 \in 0..Len(s) /\ n + 1 # 0 /\ (n + 1) - 1 = n
    BY <1>2, <1>5
  <2>2. F[n + 1] = IF s[n + 1] \in S THEN Append(F[n], s[n + 1]) ELSE F[n]
    BY <1>1, <2>1 DEF Unfolds
  <2>3. UpTo(n + 1) = UpTo(n) \cup {s[n + 1]}
    <3>1. 1..(n + 1) = (1..n) \cup {n + 1}
      OBVIOUS
    <3> QED  BY <3>1
  <2>4. s[n + 1] \in T
    BY <1>2, <2>1
  <2>5. CASE s[n + 1] \notin S
    BY <1>5, <2>2, <2>3, <2>5
  <2>6. CASE s[n + 1] \in S
    <3> DEFINE x == s[n + 1]  q == F[n]
    <3>1. F[n + 1] = Append(q, x) /\ q \in Seq(T) /\ x \in T
      BY <1>5, <2>2, <2>4, <2>6
    <3>2. Append(q, x) \in Seq(T) /\ Range(Append(q, x)) = Range(q) \cup {x}
      BY <3>1, AppendRange
    <3>3. Range(F[n + 1]) = UpTo(n + 1) \cap S
      BY <1>5, <2>3, <2>6, <3>1, <3>2
    <3>4. ASSUME NoRepeat(s) PROVE NoRepeat(F[n + 1])
      <4>1. x \notin UpTo(n)
        <5>1. \A j \in 1..n : j \in 1..Len(s) /\ j # n + 1
          BY <2>1
        <5> QED  BY <2>1, <3>4, <5>1
      <4>2. x \notin Range(q)
        BY <1>5, <4>1
      <4> HIDE DEF x, q
      <4>3. NoRepeat(q)
        BY <1>5, <3>4 DEF q
      <4>4. NoRepeat(Append(q, x))
        BY <3>1, <4>2, <4>3, AppendNew, Zenon
      <4> QED  BY <3>1, <4>4
    <3> QED  BY <3>1, <3>2, <3>3, <3>4
  <2> QED  BY <2>5, <2>6
<1>6. Len(s) \in D
  <2>1. \A n \in Nat : n \in D => n + 1 \in D
    <3> SUFFICES ASSUME NEW n \in Nat, n <= Len(s) => Fine(n), n + 1 <= Len(s)
                 PROVE  Fine(n + 1)
      <4> HIDE DEF Fine
      <4> QED  BY <1>2
    <3>1. n <= Len(s)
      BY <1>2
    <3> HIDE DEF Fine
    <3> QED  BY <1>5, <3>1
  <2> HIDE DEF D
  <2> QED  BY <1>2, <1>4, <2>1, SetInduction
<1>7. UpTo(Len(s)) = Range(s)
  BY <1>2 DEF Range
<1> QED  BY <1>1, <1>2, <1>6, <1>7

-----------------------------------------------------------------------------
(* Total *)

Sums(F, s, n) == F = [i \in 0..n |-> IF i = 0 THEN 0 ELSE F[i - 1] + s[i]]

LEMMA SumsFurther ==
  ASSUME NEW s, NEW n \in Nat, NEW F, Sums(F, s, n)
  PROVE  \E G : Sums(G, s, n + 1)
<1> DEFINE last == F[n] + s[n + 1]
           G == [i \in 0..(n + 1) |-> IF i = n + 1 THEN last ELSE F[i]]
<1>1. \A i \in 0..(n + 1) : i = n + 1 \/ (i \in 0..n /\ i # n + 1)
  OBVIOUS
<1>2. \A i \in 0..n : i # 0 => i - 1 \in 0..n /\ i - 1 # n + 1 /\ i - 1 \in 0..(n + 1)
  OBVIOUS
<1>3. /\ n \in 0..(n + 1) /\ n # n + 1 /\ (n + 1) - 1 = n /\ n + 1 # 0
      /\ n + 1 \in 0..(n + 1) /\ n \in 0..n
  OBVIOUS
<1>4. /\ \A i \in 0..(n + 1) : i # n + 1 => G[i] = F[i]
      /\ G[n + 1] = last /\ G[n] = F[n]
  BY <1>3
<1>5. \A i \in 0..n : F[i] = IF i = 0 THEN 0 ELSE F[i - 1] + s[i]
  BY DEF Sums
<1>6. ASSUME NEW i \in 0..(n + 1)
      PROVE  G[i] = IF i = 0 THEN 0 ELSE G[i - 1] + s[i]
  <2> HIDE DEF G
  <2>1. CASE i = n + 1
    BY <1>3, <1>4, <2>1
  <2>2. CASE i # n + 1
    <3>1. i \in 0..n /\ G[i] = F[i]
      BY <1>1, <1>4, <2>2
    <3>2. i # 0 => G[i - 1] = F[i - 1]
      BY <1>2, <1>4, <3>1
    <3> QED  BY <1>5, <3>1, <3>2
  <2> QED  BY <2>1, <2>2
<1>7. Sums(G, s, n + 1)
  BY <1>6 DEF Sums
<1> QED  BY <1>7

(* A total is what adding one number after the other comes to.             *)
LEMMA TotalSums ==
  ASSUME NEW s \in Seq(Nat)
  PROVE  \E F : /\ F[0] = 0 /\ \A i \in 1..Len(s) : F[i] = F[i - 1] + s[i]
               /\ Total(s) = F[Len(s)]
<1> DEFINE D == {n \in Nat : \E F : Sums(F, s, n)}
<1>1. 0 \in D
  <2>1. Sums([i \in 0..0 |-> 0], s, 0)
    BY DEF Sums
  <2> QED  BY <2>1
<1>2. \A n \in Nat : n \in D => n + 1 \in D
  BY SumsFurther
<1>3. Len(s) \in D
  <2> HIDE DEF D
  <2> QED  BY <1>1, <1>2, SetInduction, LenProperties
<1>4. \E F : Sums(F, s, Len(s))
  BY <1>3
<1>5. PICK F : Sums(F, s, Len(s)) /\ Total(s) = F[Len(s)]
  BY <1>4 DEF Total, Sums
<1>6. Len(s) \in Nat /\ 0 \in 0..Len(s) /\ \A i \in 1..Len(s) : i \in 0..Len(s) /\ i # 0
  OBVIOUS
<1>7. F[0] = 0 /\ \A i \in 1..Len(s) : F[i] = F[i - 1] + s[i]
  BY <1>5, <1>6 DEF Sums
<1> QED  BY <1>5, <1>7

(* Totals add up.                                                          *)
LEMMA TotalOfConcat ==
  ASSUME NEW s \in Seq(Nat), NEW t \in Seq(Nat)
  PROVE  Total(s) \in Nat /\ Total(s \o t) = Total(s) + Total(t)
<1> DEFINE u == s \o t
<1>1. /\ u \in Seq(Nat) /\ Len(s) \in Nat /\ Len(t) \in Nat /\ Len(u) = Len(s) + Len(t)
      /\ \A i \in 1..Len(s) : u[i] = s[i] /\ s[i] \in Nat
      /\ \A i \in 1..Len(t) : u[Len(s) + i] = t[i] /\ t[i] \in Nat
  OBVIOUS
<1> HIDE DEF u
<1>2. PICK F : /\ F[0] = 0 /\ \A i \in 1..Len(s) : F[i] = F[i - 1] + s[i]
               /\ Total(s) = F[Len(s)]
  BY TotalSums
<1>3. PICK G : /\ G[0] = 0 /\ \A i \in 1..Len(t) : G[i] = G[i - 1] + t[i]
               /\ Total(t) = G[Len(t)]
  BY TotalSums
<1>4. PICK H : /\ H[0] = 0 /\ \A i \in 1..Len(u) : H[i] = H[i - 1] + u[i]
               /\ Total(u) = H[Len(u)]
  BY <1>1, TotalSums
<1> DEFINE D == {n \in Nat : n <= Len(s) => F[n] \in Nat /\ H[n] = F[n]}
           E == {n \in Nat : n <= Len(t) => G[n] \in Nat /\ H[Len(s) + n] = F[Len(s)] + G[n]}
<1>5. Nat \subseteq D
  <2>1. 0 \in D
    BY <1>2, <1>4
  <2>2. ASSUME NEW n \in Nat, n \in D PROVE n + 1 \in D
    <3> SUFFICES ASSUME n + 1 <= Len(s) PROVE F[n + 1] \in Nat /\ H[n + 1] = F[n + 1]
      OBVIOUS
    <3>1. n + 1 \in 1..Len(s) /\ n + 1 \in 1..Len(u) /\ n <= Len(s) /\ (n + 1) - 1 = n
      BY <1>1
    <3>2. F[n + 1] = F[n] + s[n + 1] /\ H[n + 1] = H[n] + u[n + 1]
      BY <1>2, <1>4, <3>1
    <3>3. F[n] \in Nat /\ H[n] = F[n] /\ s[n + 1] \in Nat /\ u[n + 1] = s[n + 1]
      BY <1>1, <2>2, <3>1
    <3> QED  BY <3>2, <3>3
  <2> HIDE DEF D
  <2> QED  BY <2>1, <2>2, SetInduction
<1>6. F[Len(s)] \in Nat /\ H[Len(s)] = F[Len(s)]
  BY <1>1, <1>5
<1>7. Nat \subseteq E
  <2>1. 0 \in E
    BY <1>1, <1>3, <1>6
  <2>2. ASSUME NEW n \in Nat, n \in E PROVE n + 1 \in E
    <3> SUFFICES ASSUME n + 1 <= Len(t)
                 PROVE  G[n + 1] \in Nat /\ H[Len(s) + (n + 1)] = F[Len(s)] + G[n + 1]
      OBVIOUS
    <3>1. /\ n + 1 \in 1..Len(t) /\ Len(s) + (n + 1) \in 1..Len(u) /\ n <= Len(t)
          /\ (n + 1) - 1 = n /\ (Len(s) + (n + 1)) - 1 = Len(s) + n
      BY <1>1
    <3>2. G[n + 1] = G[n] + t[n + 1]
      BY <1>3, <3>1
    <3>3. H[Len(s) + (n + 1)] = H[Len(s) + n] + u[Len(s) + (n + 1)]
      BY <1>4, <3>1
    <3>4. t[n + 1] \in Nat /\ u[Len(s) + (n + 1)] = t[n + 1]
      BY <1>1, <3>1
    <3>5. G[n] \in Nat /\ H[Len(s) + n] = F[Len(s)] + G[n]
      BY <2>2, <3>1
    <3>6. H[Len(s) + (n + 1)] = (F[Len(s)] + G[n]) + t[n + 1]
      BY <3>3, <3>4, <3>5
    <3> QED  BY <1>6, <3>2, <3>4, <3>5, <3>6, SMTT(30)
  <2> HIDE DEF E
  <2> QED  BY <2>1, <2>2, SetInduction
<1>8. H[Len(s) + Len(t)] = F[Len(s)] + G[Len(t)]
  BY <1>1, <1>7
<1> QED  BY <1>1, <1>2, <1>3, <1>4, <1>6, <1>8 DEF u

LEMMA TotalOfOne ==
  /\ Total(<<>>) = 0
  /\ \A n \in Nat : Total(<<n>>) = n
<1>1. Total(<<>>) = 0
  <2>1. <<>> \in Seq(Nat) /\ Len(<<>>) = 0
    OBVIOUS
  <2> QED  BY <2>1, TotalSums
<1>2. ASSUME NEW n \in Nat PROVE Total(<<n>>) = n
  <2>1. <<n>> \in Seq(Nat) /\ Len(<<n>>) = 1 /\ <<n>>[1] = n /\ 1 \in 1..1 /\ 1 - 1 = 0
    OBVIOUS
  <2>2. PICK F : /\ F[0] = 0 /\ \A i \in 1..1 : F[i] = F[i - 1] + <<n>>[i]
                 /\ Total(<<n>>) = F[1]
    BY <2>1, TotalSums
  <2>3. F[1] = F[0] + n
    BY <2>1, <2>2
  <2> QED  BY <2>2, <2>3
<1> QED  BY <1>1, <1>2

-----------------------------------------------------------------------------
(* Lists that are linked through a heap: s is what one meets from n on     *)
(* along nx, up to nil.                                                    *)
Links(nx, nil, n, s) ==
  /\ n = IF s = <<>> THEN nil ELSE s[1]
  /\ \A i \in 1..Len(s) : nx[s[i]] = IF i = Len(s) THEN nil ELSE s[i + 1]

LEMMA LinksEnd ==
  ASSUME NEW S, NEW nil, nil \notin S, NEW s \in Seq(S), NEW nx, NEW n, Links(nx, nil, n, s)
  PROVE  n = nil <=> s = <<>>
<1>1. s # <<>> => s[1] \in S
  BY HeadTailRange
<1>2. n = IF s = <<>> THEN nil ELSE s[1]
  BY Zenon DEF Links
<1> QED  BY <1>1, <1>2

LEMMA LinksTail ==
  ASSUME NEW S, NEW nil, nil \notin S, NEW s \in Seq(S), NEW nx, NEW n, Links(nx, nil, n, s),
         s # <<>>
  PROVE  /\ n = Head(s) /\ n \in S /\ n \in Range(s)
         /\ Links(nx, nil, nx[n], Tail(s))
<1> DEFINE t == Tail(s)
<1>1. /\ Len(s) \in Nat \ {0} /\ Head(s) = s[1] /\ t \in Seq(S) /\ s[1] \in S
      /\ Len(t) = Len(s) - 1 /\ \A i \in 1..(Len(s) - 1) : t[i] = s[i + 1]
      /\ Range(s) = {Head(s)} \cup Range(t)
  BY HeadTailRange
<1>2. t = <<>> <=> Len(t) = 0
  BY <1>1, EmptySeq
<1> HIDE DEF t
<1>3. n = s[1]
  BY DEF Links
<1>4. nx[n] = IF t = <<>> THEN nil ELSE t[1]
  <2>1. nx[s[1]] = IF Len(s) = 1 THEN nil ELSE s[2]
    BY <1>1 DEF Links
  <2>2. Len(s) # 1 => t[1] = s[2]
    BY <1>1
  <2> QED  BY <1>1, <1>2, <1>3, <2>1, <2>2
<1>5. ASSUME NEW i \in 1..Len(t) PROVE nx[t[i]] = IF i = Len(t) THEN nil ELSE t[i + 1]
  <2>1. i \in 1..(Len(s) - 1) /\ i + 1 \in 1..Len(s)
    BY <1>1
  <2>2. nx[s[i + 1]] = IF i + 1 = Len(s) THEN nil ELSE s[(i + 1) + 1]
    BY <2>1 DEF Links
  <2>3. t[i] = s[i + 1]
    BY <1>1, <2>1
  <2>4. i # Len(t) => t[i + 1] = s[(i + 1) + 1]
    BY <1>1, <2>1
  <2>5. i = Len(t) <=> i + 1 = Len(s)
    BY <1>1, <2>1
  <2> QED  BY <2>2, <2>3, <2>4, <2>5
<1> QED  BY <1>1, <1>3, <1>4, <1>5 DEF Links, t

LEMMA LinksPush ==
  ASSUME NEW S, NEW nil, NEW s \in Seq(S), NEW nx, NEW n \in S, Links(nx, nil, nx[n], s)
  PROVE  Links(nx, nil, n, <<n>> \o s)
<1> DEFINE t == <<n>> \o s
<1>1. /\ t \in Seq(S) /\ Len(s) \in Nat /\ Len(t) = Len(s) + 1 /\ t # <<>>
      /\ t[1] = n /\ \A i \in 2..(Len(s) + 1) : t[i] = s[i - 1]
      /\ \A i \in 1..Len(s) : i + 1 \in 2..(Len(s) + 1) /\ t[i + 1] = s[i]
  OBVIOUS
<1>2. s = <<>> <=> Len(s) = 0
  BY EmptySeq
<1> HIDE DEF t
<1>3. ASSUME NEW i \in 1..Len(t) PROVE nx[t[i]] = IF i = Len(t) THEN nil ELSE t[i + 1]
  <2>1. CASE i = 1
    <3>1. Len(s) # 0 => t[2] = s[1]
      BY <1>1
    <3> QED  BY <1>1, <1>2, <2>1, <3>1 DEF Links
  <2>2. CASE i # 1
    <3>1. i - 1 \in 1..Len(s) /\ t[i] = s[i - 1] /\ (i = Len(t) <=> i - 1 = Len(s))
      BY <1>1, <2>2
    <3>2. nx[s[i - 1]] = IF i - 1 = Len(s) THEN nil ELSE s[(i - 1) + 1]
      BY <3>1 DEF Links
    <3>3. i # Len(t) => t[i + 1] = s[(i - 1) + 1]
      <4>1. (i - 1) + 1 = i /\ (i # Len(t) => i \in 1..Len(s))
        BY <1>1
      <4> QED  BY <1>1, <4>1
    <3> QED  BY <3>1, <3>2, <3>3
  <2> QED  BY <2>1, <2>2
<1>4. n = IF t = <<>> THEN nil ELSE t[1]
  BY <1>1
<1> QED  BY <1>3, <1>4 DEF Links, t

LEMMA LinksKept ==
  ASSUME NEW S, NEW nil, NEW s \in Seq(S), NEW nx, NEW n, Links(nx, nil, n, s),
         NEW nx2, \A m \in Range(s) : nx2[m] = nx[m]
  PROVE  Links(nx2, nil, n, s)
<1>1. \A i \in 1..Len(s) : s[i] \in Range(s)
  BY RangeOfList
<1> QED  BY <1>1 DEF Links

(* The walk along such a list, of at least as many steps as it is long,    *)
(* has met all of it and nil.                                              *)
Walks(F, nx, nil, n, k) ==
  F = [i \in 0..k |-> IF i = 0 THEN <<n>>
                      ELSE IF Last(F[i - 1]) = nil THEN F[i - 1]
                      ELSE Append(F[i - 1], nx[Last(F[i - 1])])]

LEMMA WalksFurther ==
  ASSUME NEW nx, NEW nil, NEW n, NEW k \in Nat, NEW F, Walks(F, nx, nil, n, k)
  PROVE  \E G : Walks(G, nx, nil, n, k + 1)
<1> DEFINE Longer(w) == IF Last(w) = nil THEN w ELSE Append(w, nx[Last(w)])
           G == [i \in 0..(k + 1) |-> IF i = k + 1 THEN Longer(F[k]) ELSE F[i]]
<1> HIDE DEF Longer
<1>1. \A i \in 0..(k + 1) : i = k + 1 \/ (i \in 0..k /\ i # k + 1)
  OBVIOUS
<1>2. \A i \in 0..k : i # 0 => i - 1 \in 0..k /\ i - 1 # k + 1 /\ i - 1 \in 0..(k + 1)
  OBVIOUS
<1>3. /\ k \in 0..(k + 1) /\ k # k + 1 /\ (k + 1) - 1 = k /\ k + 1 # 0
      /\ k + 1 \in 0..(k + 1) /\ k \in 0..k
  OBVIOUS
<1>4. /\ \A i \in 0..(k + 1) : i # k + 1 => G[i] = F[i]
      /\ G[k + 1] = Longer(F[k]) /\ G[k] = F[k]
  BY <1>3
<1>5. \A i \in 0..k : F[i] = IF i = 0 THEN <<n>> ELSE Longer(F[i - 1])
  BY DEF Walks, Longer
<1>6. ASSUME NEW i \in 0..(k + 1)
      PROVE  G[i] = IF i = 0 THEN <<n>> ELSE Longer(G[i - 1])
  <2> HIDE DEF G
  <2>1. CASE i = k + 1
    BY <1>3, <1>4, <2>1
  <2>2. CASE i # k + 1
    <3>1. i \in 0..k /\ G[i] = F[i]
      BY <1>1, <1>4, <2>2
    <3>2. i # 0 => G[i - 1] = F[i - 1]
      BY <1>2, <1>4, <3>1
    <3> QED  BY <1>5, <3>1, <3>2
  <2> QED  BY <2>1, <2>2
<1>7. G = [i \in 0..(k + 1) |-> IF i = 0 THEN <<n>> ELSE Longer(G[i - 1])]
  <2> DEFINE H == [i \in 0..(k + 1) |-> IF i = 0 THEN <<n>> ELSE Longer(G[i - 1])]
  <2>1. \A i \in 0..(k + 1) : G[i] = H[i]
    <3>1. \A i \in 0..(k + 1) : H[i] = IF i = 0 THEN <<n>> ELSE Longer(G[i - 1])
      OBVIOUS
    <3> QED  BY <1>6, <3>1
  <2>2. DOMAIN G = DOMAIN H /\ G = [i \in DOMAIN G |-> G[i]] /\ H = [i \in DOMAIN H |-> H[i]]
        /\ DOMAIN G = 0..(k + 1)
    OBVIOUS
  <2> HIDE DEF G, H
  <2>3. G = H
    BY <2>1, <2>2
  <2> QED  BY <2>3 DEF H
<1>8. Walks(G, nx, nil, n, k + 1)
  <2> HIDE DEF G
  <2> QED  BY <1>7, Zenon DEF Walks, Longer
<1> QED  BY <1>8

LEMMA SomeWalk ==
  ASSUME NEW nx, NEW nil, NEW n, NEW k \in Nat
  PROVE  \E F : Walks(F, nx, nil, n, k)
<1> DEFINE D == {m \in Nat : \E F : Walks(F, nx, nil, n, m)}
<1>1. 0 \in D
  <2>1. Walks([i \in 0..0 |-> <<n>>], nx, nil, n, 0)
    BY DEF Walks
  <2> QED  BY <2>1
<1>2. \A m \in Nat : m \in D => m + 1 \in D
  BY WalksFurther
<1>3. k \in D
  <2> HIDE DEF D
  <2> QED  BY <1>1, <1>2, SetInduction
<1> QED  BY <1>3

LEMMA WalkOfList ==
  ASSUME NEW S, NEW nil, nil \notin S, NEW s \in Seq(S), NEW nx, NEW n, Links(nx, nil, n, s),
         NEW k \in Nat, Len(s) <= k, NEW F, Walks(F, nx, nil, n, k)
  PROVE  F[k] = Append(s, nil) /\ Front(F[k]) = s
<1> DEFINE t == Append(s, nil)
           T == S \cup {nil}
<1>1. /\ Len(s) \in Nat /\ t \in Seq(T) /\ Len(t) = Len(s) + 1 /\ t[Len(s) + 1] = nil
      /\ \A i \in 1..Len(s) : t[i] = s[i] /\ s[i] \in S
  OBVIOUS
<1>2. s = <<>> <=> Len(s) = 0
  BY EmptySeq
<1>3. SubSeq(t, 1, Len(s)) = s /\ SubSeq(t, 1, Len(t)) = t
  OBVIOUS
<1>4. \A m \in 0..Len(s) : /\ SubSeq(t, 1, m + 1) \in Seq(T) /\ Len(SubSeq(t, 1, m + 1)) = m + 1
                           /\ SubSeq(t, 1, m + 1)[m + 1] = t[m + 1]
  BY <1>1
<1>5. \A m \in 1..Len(s) : SubSeq(t, 1, m + 1) = Append(SubSeq(t, 1, m), t[m + 1])
  BY <1>1
<1>6. \A m \in 1..Len(s) : t[m] # nil /\ nx[t[m]] = t[m + 1]
  BY <1>1 DEF Links
<1>7. t[1] = n /\ SubSeq(t, 1, 1) = <<n>>
  <2>1. t[1] = n
    BY <1>1, <1>2 DEF Links
  <2> HIDE DEF t
  <2>2. SubSeq(t, 1, 1) = <<t[1]>>
    <3>1. 0 \in 0..Len(s) /\ 0 + 1 = 1
      BY <1>1
    <3>2. SubSeq(t, 1, 1) \in Seq(T) /\ Len(SubSeq(t, 1, 1)) = 1 /\ SubSeq(t, 1, 1)[1] = t[1]
      BY <1>4, <3>1
    <3>3. \A q \in Seq(T) : Len(q) = 1 => q = <<q[1]>>
      OBVIOUS
    <3> HIDE DEF T
    <3> QED  BY <3>2, <3>3
  <2> QED  BY <2>1, <2>2
<1> HIDE DEF t
<1>8. F[0] = <<n>> /\ \A i \in 1..k : F[i] = IF Last(F[i - 1]) = nil THEN F[i - 1]
                                             ELSE Append(F[i - 1], nx[Last(F[i - 1])])
  <2>1. 0 \in 0..k /\ \A i \in 1..k : i \in 0..k /\ i # 0
    OBVIOUS
  <2>2. \A i \in 0..k : F[i] = IF i = 0 THEN <<n>>
                               ELSE IF Last(F[i - 1]) = nil THEN F[i - 1]
                               ELSE Append(F[i - 1], nx[Last(F[i - 1])])
    BY DEF Walks
  <2> QED  BY <2>1, <2>2
<1> DEFINE At(m) == IF m <= Len(s) THEN m ELSE Len(s)
           Fine(m) == F[m] = SubSeq(t, 1, At(m) + 1)
           D == {m \in Nat : m <= k => Fine(m)}
<1>9. 0 \in D
  BY <1>1, <1>7, <1>8
<1>10. ASSUME NEW m \in Nat, m + 1 <= k, Fine(m) PROVE Fine(m + 1)
  <2>1. At(m) \in 0..Len(s) /\ m + 1 \in 1..k /\ (m + 1) - 1 = m
    BY <1>1, <1>10
  <2>2. Last(F[m]) = t[At(m) + 1]
    <3> HIDE DEF At
    <3> QED  BY <1>4, <1>10, <2>1 DEF Last
  <2>3. F[m + 1] = IF Last(F[m]) = nil THEN F[m] ELSE Append(F[m], nx[Last(F[m])])
    BY <1>8, <2>1
  <2>4. CASE m < Len(s)
    <3>1. At(m) = m /\ At(m + 1) = m + 1 /\ m + 1 \in 1..Len(s)
      BY <1>1, <2>4
    <3>2. F[m + 1] = Append(SubSeq(t, 1, m + 1), t[(m + 1) + 1])
      BY <1>6, <1>10, <2>2, <2>3, <3>1
    <3> QED  BY <1>5, <3>1, <3>2
  <2>5. CASE ~(m < Len(s))
    <3>1. At(m) = Len(s) /\ At(m + 1) = Len(s)
      BY <1>1, <2>5
    <3> QED  BY <1>1, <1>10, <2>2, <2>3, <3>1
  <2> QED  BY <2>4, <2>5
<1>11. k \in D
  <2>1. \A m \in Nat : m \in D => m + 1 \in D
    <3> HIDE DEF Fine
    <3> QED  BY <1>10
  <2> HIDE DEF D
  <2> QED  BY <1>9, <2>1, SetInduction
<1>12. At(k) = Len(s)
  BY <1>1
<1>13. F[k] = t
  <2>1. Fine(k)
    BY <1>11
  <2>2. F[k] = SubSeq(t, 1, Len(s) + 1)
    BY <1>12, <2>1
  <2> QED  BY <1>1, <1>3, <2>2
<1>14. Front(t) = s
  BY <1>1, <1>3 DEF Front
<1> QED  BY <1>13, <1>14 DEF t

=============================================================================
