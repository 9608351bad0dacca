--------------------------- MODULE SequenceFacts ---------------------------
(***************************************************************************)
(* Facts about FlattenSeq, which lists are built with, and the induction   *)
(* on the natural numbers they rest on.                                    *)
(***************************************************************************)
EXTENDS Integers, Sequences, SequencesExt, SequenceTheorems, WellFoundedInduction, TLAPS

(* A set of numbers that is not empty has one whose predecessor it has not. *)
LEMMA First ==
  ASSUME NEW T \in SUBSET Nat, T # {}
  PROVE  \E x \in T : x = 0 \/ x - 1 \notin T
<1> DEFINE R == OpToRel(<, Nat)
<1>1. IsWellFoundedOn(R, Nat)
  BY NatLessThanWellFounded
<1>2. \A x, y \in Nat : x < y => <<x, y>> \in R
  BY DEF OpToRel
<1> HIDE DEF R
<1>3. PICK x \in T : \A y \in T : ~ (<<y, x>> \in R)
  BY <1>1, WFMin
<1>4. x # 0 => x - 1 \in Nat /\ x - 1 < x
  OBVIOUS
<1>5. QED
  BY <1>2, <1>3, <1>4

\* What FlattenSeq unfolds to, and that it does.
Flattens(f, ss, k) == f = [i \in 1..k |-> IF i = 1 THEN ss[i] ELSE f[i-1] \o ss[i]]

LEMMA FlattenIs ==
  ASSUME NEW ss, NEW n \in Nat, n = Len(ss), n # 0
  PROVE  \E f : Flattens(f, ss, n) /\ FlattenSeq(ss) = f[n]
<1> DEFINE Bad == {k \in 1..n : ~ \E f : Flattens(f, ss, k)}
<1>1. Bad = {}
  <2>1. SUFFICES ASSUME Bad # {} PROVE FALSE
    OBVIOUS
  <2>2. Bad \in SUBSET Nat
    OBVIOUS
  <2> HIDE DEF Bad
  <2>3. PICK k \in Bad : k = 0 \/ k - 1 \notin Bad
    BY <2>1, <2>2, First
  <2>4. k \in 1..n /\ ~ \E f : Flattens(f, ss, k)
    BY DEF Bad
  <2>5. CASE k = 1
    <3>1. Flattens([i \in 1..1 |-> ss[i]], ss, 1)
      BY DEF Flattens
    <3>2. QED
      BY <3>1, <2>4, <2>5
  <2>6. CASE k # 1
    <3>1. k - 1 \in 1..n /\ k # 0
      BY <2>4, <2>6
    <3>2. PICK f : Flattens(f, ss, k - 1)
      BY <2>3, <3>1 DEF Bad
    <3> DEFINE g == [i \in 1..k |-> IF i = k THEN f[k - 1] \o ss[k] ELSE f[i]]
    <3>3. ASSUME NEW i \in 1..k PROVE g[i] = IF i = 1 THEN ss[i] ELSE g[i-1] \o ss[i]
      <4>1. CASE i = k
        <5>1. k - 1 \in 1..k /\ k - 1 # k /\ k \in 1..k
          BY <2>4, <2>6
        <5>2. g[k] = f[k - 1] \o ss[k] /\ g[k - 1] = f[k - 1]
          BY <5>1
        <5> HIDE DEF g
        <5>3. QED
          BY <4>1, <2>6, <5>2
      <4>2. CASE i # k
        <5>1. i \in 1..(k - 1) /\ i - 1 # k
          BY <4>2, <2>4
        <5>2. f[i] = IF i = 1 THEN ss[i] ELSE f[i-1] \o ss[i]
          BY <3>2, <5>1 DEF Flattens
        <5>3. i # 1 => g[i-1] = f[i-1]
          BY <5>1, <2>4
        <5>4. QED
          BY <4>2, <5>2, <5>3
      <4>3. QED
        BY <4>1, <4>2
    <3>4. g = [i \in 1..k |-> g[i]]
      OBVIOUS
    <3> HIDE DEF g
    <3>5. Flattens(g, ss, k)
      BY <3>3, <3>4 DEF Flattens
    <3>6. QED
      BY <3>5, <2>4
  <2>7. QED
    BY <2>5, <2>6
<1>2. \E f : Flattens(f, ss, n)
  BY <1>1
<1> DEFINE flatten == CHOOSE f : Flattens(f, ss, n)
<1>3. Flattens(flatten, ss, n)
  BY <1>2, Zenon
<1>4. FlattenSeq(ss) = flatten[n]
  BY DEF FlattenSeq, Flattens
<1>5. QED
  BY <1>3, <1>4

\* A list of lists flattened is a list, and so it is on the way.
LEMMA FlattensTyped ==
  ASSUME NEW S, NEW ss \in Seq(Seq(S)), NEW f, Flattens(f, ss, Len(ss))
  PROVE  \A k \in 1..Len(ss) : f[k] \in Seq(S)
<1>1. Len(ss) \in Nat
  OBVIOUS
<1> DEFINE Wrong == {k \in 1..Len(ss) : f[k] \notin Seq(S)}
<1>2. SUFFICES ASSUME Wrong # {} PROVE FALSE
  OBVIOUS
<1>3. Wrong \in SUBSET Nat
  BY <1>1
<1> HIDE DEF Wrong
<1>4. PICK k \in Wrong : k = 0 \/ k - 1 \notin Wrong
  BY <1>2, <1>3, First
<1>5. k \in 1..Len(ss) /\ f[k] \notin Seq(S)
  BY DEF Wrong
<1>6. f[k] = IF k = 1 THEN ss[k] ELSE f[k-1] \o ss[k]
  BY <1>5 DEF Flattens
<1>7. ss[k] \in Seq(S)
  BY <1>5
<1>8. k # 1 => f[k - 1] \in Seq(S)
  BY <1>1, <1>4, <1>5 DEF Wrong
<1>9. QED
  BY <1>5, <1>6, <1>7, <1>8

LEMMA FlattenTyped ==
  ASSUME NEW S, NEW ss \in Seq(Seq(S))
  PROVE  FlattenSeq(ss) \in Seq(S)
<1>1. Len(ss) \in Nat
  OBVIOUS
<1>2. CASE Len(ss) = 0
  BY <1>2 DEF FlattenSeq
<1>3. CASE Len(ss) # 0
  BY <1>1, <1>3, FlattenIs, FlattensTyped
<1>4. QED
  BY <1>2, <1>3

(* A list without its last element.                                        *)
LEMMA FrontElements ==
  ASSUME NEW S, NEW s \in Seq(S), s # << >>
  PROVE  /\ Len(s) \in Nat /\ Len(s) # 0 /\ Len(s) - 1 \in Nat
         /\ SubSeq(s, 1, Len(s) - 1) \in Seq(S)
         /\ Len(SubSeq(s, 1, Len(s) - 1)) = Len(s) - 1
         /\ \A i \in 1 .. (Len(s) - 1) : SubSeq(s, 1, Len(s) - 1)[i] = s[i]
<1> DEFINE n == Len(s)
<1>1. n \in Nat /\ n # 0 /\ n - 1 \in Nat
  OBVIOUS
<1>2. \A i \in 1 .. (n - 1) : s[i] \in S
  OBVIOUS
<1>3. 1 \in Int /\ n - 1 \in Int
  BY <1>1
<1> HIDE DEF n
<1>4. /\ SubSeq(s, 1, n - 1) \in Seq(S)
      /\ Len(SubSeq(s, 1, n - 1)) = IF 1 <= n - 1 THEN (n - 1) - 1 + 1 ELSE 0
      /\ \A i \in 1 .. (n - 1) - 1 + 1 : SubSeq(s, 1, n - 1)[i] = s[1 + i - 1]
  BY <1>2, <1>3, SubSeqProperties
<1>5. (n - 1) - 1 + 1 = n - 1 /\ (~ (1 <= n - 1) => n - 1 = 0)
  BY <1>1
<1>6. \A i \in 1 .. (n - 1) : 1 + i - 1 = i
  BY <1>1
<1>7. QED
  BY <1>1, <1>4, <1>5, <1>6 DEF n

\* Element by element: the last list comes last.
LEMMA FlattenAppend ==
  ASSUME NEW S, NEW ss \in Seq(Seq(S)), ss # << >>
  PROVE  /\ Len(ss) - 1 \in Nat
         /\ SubSeq(ss, 1, Len(ss) - 1) \in Seq(Seq(S))
         /\ FlattenSeq(SubSeq(ss, 1, Len(ss) - 1)) \in Seq(S)
         /\ FlattenSeq(ss) = FlattenSeq(SubSeq(ss, 1, Len(ss) - 1)) \o ss[Len(ss)]
<1> DEFINE n == Len(ss)
           front == SubSeq(ss, 1, n - 1)
<1>1. n \in Nat /\ n # 0 /\ n - 1 \in Nat
  OBVIOUS
<1>2. /\ front \in Seq(Seq(S)) /\ Len(front) = n - 1
      /\ \A i \in 1..(n - 1) : front[i] = ss[i]
  BY FrontElements
<1>3. PICK f : Flattens(f, ss, n) /\ FlattenSeq(ss) = f[n]
  BY <1>1, FlattenIs
<1>4. ss[n] \in Seq(S)
  BY <1>1
<1> HIDE DEF n, front
<1>5. CASE n = 1
  <2>1. f[1] = ss[1]
    BY <1>3, <1>5 DEF Flattens
  <2>2. front = << >>
    BY <1>2, <1>5
  <2>3. FlattenSeq(front) = << >>
    BY <1>2, <1>5, <2>2 DEF FlattenSeq
  <2>4. << >> \o ss[n] = ss[n]
    BY <1>4
  <2>5. QED
    BY <1>1, <1>2, <1>3, <1>5, <2>1, <2>3, <2>4, FlattenTyped DEF n, front
<1>6. CASE n # 1
  <2>1. n - 1 # 0
    BY <1>1, <1>6
  <2>2. PICK g : Flattens(g, front, n - 1) /\ FlattenSeq(front) = g[n - 1]
    BY <1>1, <1>2, <2>1, FlattenIs
  <2> DEFINE Wrong == {k \in 1..(n - 1) : f[k] # g[k]}
  <2>3. Wrong = {}
    <3>1. SUFFICES ASSUME Wrong # {} PROVE FALSE
      OBVIOUS
    <3>2. Wrong \in SUBSET Nat
      OBVIOUS
    <3> HIDE DEF Wrong
    <3>3. PICK k \in Wrong : k = 0 \/ k - 1 \notin Wrong
      BY <3>1, <3>2, First
    <3>4. k \in 1..(n - 1) /\ f[k] # g[k]
      BY DEF Wrong
    <3>5. /\ f[k] = IF k = 1 THEN ss[k] ELSE f[k-1] \o ss[k]
          /\ g[k] = IF k = 1 THEN front[k] ELSE g[k-1] \o front[k]
      <4>1. k \in 1..n
        BY <1>1, <3>4
      <4>2. QED
        BY <1>3, <2>2, <3>4, <4>1 DEF Flattens
    <3>6. k # 1 => f[k - 1] = g[k - 1]
      BY <1>1, <3>3, <3>4 DEF Wrong
    <3>7. QED
      BY <1>2, <3>4, <3>5, <3>6
  <2>4. n - 1 \in 1..(n - 1) /\ n \in 1..n
    BY <1>1, <2>1
  <2>5. f[n - 1] = g[n - 1]
    BY <2>3, <2>4
  <2>6. f[n] = f[n - 1] \o ss[n]
    BY <1>3, <1>6, <2>4 DEF Flattens
  <2>7. QED
    BY <1>1, <1>2, <1>3, <2>2, <2>5, <2>6, FlattenTyped DEF n, front
<1>7. QED
  BY <1>5, <1>6

-----------------------------------------------------------------------------
(* Being a prefix, element by element.                                     *)
LEMMA PrefixElements ==
  ASSUME NEW S, NEW s \in Seq(S), NEW t \in Seq(S)
  PROVE  IsPrefix(s, t) <=> /\ Len(s) <= Len(t)
                            /\ \A i \in 1..Len(s) : s[i] = t[i]
<1>1. ASSUME Len(s) <= Len(t)
      PROVE  SubSeq(s, 1, Len(s)) = SubSeq(t, 1, Len(s)) <=> \A i \in 1..Len(s) : s[i] = t[i]
  BY <1>1
<1>2. QED
  BY <1>1 DEF IsPrefix

LEMMA PrefixReflexive ==
  ASSUME NEW S, NEW s \in Seq(S)
  PROVE  IsPrefix(s, s)
<1>1. Len(s) <= Len(s) /\ \A i \in 1..Len(s) : s[i] = s[i]
  OBVIOUS
<1>2. QED
  BY <1>1, PrefixElements

LEMMA PrefixOfConcat ==
  ASSUME NEW S, NEW s \in Seq(S), NEW t \in Seq(S)
  PROVE  s \o t \in Seq(S) /\ IsPrefix(s, s \o t)
<1>1. s \o t \in Seq(S) /\ Len(s) <= Len(s \o t) /\ \A i \in 1..Len(s) : s[i] = (s \o t)[i]
  OBVIOUS
<1>2. QED
  BY <1>1, PrefixElements

LEMMA PrefixTransitive ==
  ASSUME NEW S, NEW s \in Seq(S), NEW t \in Seq(S), NEW u \in Seq(S),
         IsPrefix(s, t), IsPrefix(t, u)
  PROVE  IsPrefix(s, u)
<1>1. /\ Len(s) <= Len(t) /\ \A i \in 1..Len(s) : s[i] = t[i]
      /\ Len(t) <= Len(u) /\ \A i \in 1..Len(t) : t[i] = u[i]
  BY PrefixElements
<1>2. Len(s) <= Len(u) /\ \A i \in 1..Len(s) : s[i] = u[i]
  BY <1>1
<1>3. QED
  BY <1>2, PrefixElements

(* Being a suffix, element by element from the end.                        *)
LEMMA SuffixElements ==
  ASSUME NEW S, NEW s \in Seq(S), NEW t \in Seq(S)
  PROVE  IsSuffix(s, t) <=> /\ Len(s) <= Len(t)
                            /\ \A i \in 1..Len(s) : s[Len(s) - i + 1] = t[Len(t) - i + 1]
<1>1. ASSUME NEW u \in Seq(S)
      PROVE  /\ Reverse(u) \in Seq(S) /\ Len(Reverse(u)) = Len(u)
             /\ \A i \in 1..Len(u) : Reverse(u)[i] = u[Len(u) - i + 1]
  <2>1. Len(u) \in Nat /\ \A i \in 1..Len(u) : (Len(u) - i) + 1 \in 1..Len(u)
    OBVIOUS
  <2>2. \A i \in 1..Len(u) : u[(Len(u) - i) + 1] \in S
    BY <2>1
  <2>3. QED
    BY <2>1, <2>2 DEF Reverse
<1>2. IsPrefix(Reverse(s), Reverse(t))
        <=> /\ Len(Reverse(s)) <= Len(Reverse(t))
            /\ \A i \in 1..Len(Reverse(s)) : Reverse(s)[i] = Reverse(t)[i]
  BY <1>1, PrefixElements
<1>3. Len(s) \in Nat /\ Len(t) \in Nat
  OBVIOUS
<1>4. ASSUME Len(s) <= Len(t), NEW i \in 1..Len(s)
      PROVE  Reverse(s)[i] = s[Len(s) - i + 1] /\ Reverse(t)[i] = t[Len(t) - i + 1]
  <2>1. i \in 1..Len(t)
    BY <1>3, <1>4
  <2>2. Reverse(s)[i] = s[Len(s) - i + 1]
    BY <1>1, <1>4
  <2>3. Reverse(t)[i] = t[Len(t) - i + 1]
    BY <1>1, <2>1
  <2>4. QED
    BY <2>2, <2>3
<1>5. QED
  BY <1>1, <1>2, <1>4 DEF IsSuffix

LEMMA SuffixOfConcat ==
  ASSUME NEW S, NEW s \in Seq(S), NEW t \in Seq(S)
  PROVE  IsSuffix(t, s \o t)
<1>1. /\ s \o t \in Seq(S) /\ Len(s) \in Nat /\ Len(t) \in Nat /\ Len(s \o t) = Len(s) + Len(t)
      /\ \A i \in 1 .. Len(s) + Len(t) : (s \o t)[i] = IF i <= Len(s) THEN s[i] ELSE t[i - Len(s)]
  BY ConcatProperties
<1>2. ASSUME NEW i \in 1..Len(t) PROVE t[Len(t) - i + 1] = (s \o t)[Len(s \o t) - i + 1]
  <2>1. Len(s) + Len(t) - i + 1 \in 1 .. Len(s) + Len(t) /\ ~ Len(s) + Len(t) - i + 1 <= Len(s)
        /\ Len(s) + Len(t) - i + 1 - Len(s) = Len(t) - i + 1
    BY <1>1
  <2>2. QED
    BY <1>1, <2>1
<1> DEFINE u == s \o t
<1>3. u \in Seq(S) /\ Len(t) <= Len(u) /\ \A i \in 1..Len(t) : t[Len(t) - i + 1] = u[Len(u) - i + 1]
  BY <1>1, <1>2
<1> HIDE DEF u
<1>4. IsSuffix(t, u)
  BY <1>3, SuffixElements
<1>5. QED
  BY <1>4 DEF u

(* Two suffixes of one text that are as long as each other are the same.   *)
LEMMA SuffixesAgree ==
  ASSUME NEW S, NEW s \in Seq(S), NEW t \in Seq(S), NEW u \in Seq(S),
         IsSuffix(s, u), IsSuffix(t, u), Len(s) = Len(t)
  PROVE  s = t
<1>1. /\ Len(s) \in Nat
      /\ \A i \in 1..Len(s) : s[Len(s) - i + 1] = u[Len(u) - i + 1]
      /\ \A i \in 1..Len(s) : t[Len(s) - i + 1] = u[Len(u) - i + 1]
  BY SuffixElements
<1>2. ASSUME NEW i \in 1..Len(s) PROVE s[i] = t[i]
  <2>1. Len(s) - i + 1 \in 1..Len(s) /\ Len(s) - (Len(s) - i + 1) + 1 = i
    BY <1>1
  <2>2. QED
    BY <1>1, <2>1
<1>3. QED
  BY <1>2

LEMMA ConcatPrefix ==
  ASSUME NEW S, NEW s \in Seq(S), NEW t \in Seq(S), NEW u \in Seq(S), IsPrefix(t, u)
  PROVE  IsPrefix(s \o t, s \o u)
<1>1. Len(t) <= Len(u) /\ \A i \in 1..Len(t) : t[i] = u[i]
  BY PrefixElements
<1>2. /\ s \o t \in Seq(S) /\ s \o u \in Seq(S)
      /\ Len(s \o t) = Len(s) + Len(t) /\ Len(s \o u) = Len(s) + Len(u)
  OBVIOUS
<1>3. \A i \in 1..Len(s \o t) : (s \o t)[i] = (s \o u)[i]
  BY <1>1, <1>2
<1>4. Len(s \o t) <= Len(s \o u)
  BY <1>1, <1>2
<1>5. QED
  BY <1>2, <1>3, <1>4, PrefixElements

(* Longer lists, the last one of the shorter list being a prefix, flatten  *)
(* to longer lists.                                                        *)
LEMMA FlattenGrows ==
  ASSUME NEW S, NEW ss \in Seq(Seq(S)), NEW tt \in Seq(Seq(S)), Len(ss) <= Len(tt),
         \A i \in 1..(Len(ss) - 1) : ss[i] = tt[i],
         Len(ss) # 0 => IsPrefix(ss[Len(ss)], tt[Len(ss)])
  PROVE  IsPrefix(FlattenSeq(ss), FlattenSeq(tt))
<1> DEFINE n == Len(ss)
           m == Len(tt)
<1>1. n \in Nat /\ m \in Nat /\ n <= m
  OBVIOUS
<1>2. \A k \in 1..m : tt[k] \in Seq(S)
  OBVIOUS
<1>3. CASE n = 0
  <2>1. FlattenSeq(ss) = << >> /\ << >> \in Seq(S) /\ Len(<< >>) = 0
    BY <1>3 DEF FlattenSeq
  <2>2. FlattenSeq(tt) \in Seq(S)
    BY FlattenTyped
  <2>3. /\ Len(FlattenSeq(ss)) <= Len(FlattenSeq(tt))
        /\ \A i \in 1..Len(FlattenSeq(ss)) : FlattenSeq(ss)[i] = FlattenSeq(tt)[i]
    BY <2>1, <2>2
  <2>4. FlattenSeq(ss) \in Seq(S)
    BY <2>1
  <2>5. QED
    BY <2>2, <2>3, <2>4, PrefixElements
<1>4. CASE n # 0
  <2>1. m # 0 /\ n \in 1..n /\ n \in 1..m /\ m \in 1..m
    BY <1>1, <1>4
  <2>2. PICK f : Flattens(f, ss, n) /\ FlattenSeq(ss) = f[n]
    BY <1>1, <1>4, FlattenIs
  <2>3. PICK g : Flattens(g, tt, m) /\ FlattenSeq(tt) = g[m]
    BY <1>1, <2>1, FlattenIs
  <2>4. (\A k \in 1..n : f[k] \in Seq(S)) /\ \A k \in 1..m : g[k] \in Seq(S)
    BY <2>2, <2>3, FlattensTyped
  <2>5. IsPrefix(ss[n], tt[n]) /\ ss[n] \in Seq(S) /\ tt[n] \in Seq(S)
    BY <1>4, <2>1
  <2>6. \A i \in 1..(n - 1) : ss[i] = tt[i]
    OBVIOUS
  <2> HIDE DEF n, m
  <2> DEFINE Unlike == {k \in 1..(n - 1) : f[k] # g[k]}
  <2>7. Unlike = {}
    <3>1. SUFFICES ASSUME Unlike # {} PROVE FALSE
      OBVIOUS
    <3>2. Unlike \in SUBSET Nat
      OBVIOUS
    <3> HIDE DEF Unlike
    <3>3. PICK k \in Unlike : k = 0 \/ k - 1 \notin Unlike
      BY <3>1, <3>2, First
    <3>4. k \in 1..(n - 1) /\ f[k] # g[k]
      BY DEF Unlike
    <3>5. k \in 1..n /\ k \in 1..m
      BY <1>1, <3>4
    <3>6. /\ f[k] = IF k = 1 THEN ss[k] ELSE f[k-1] \o ss[k]
          /\ g[k] = IF k = 1 THEN tt[k] ELSE g[k-1] \o tt[k]
      BY <2>2, <2>3, <3>5 DEF Flattens
    <3>7. k # 1 => f[k - 1] = g[k - 1]
      BY <1>1, <3>3, <3>4 DEF Unlike
    <3>8. QED
      BY <2>6, <3>4, <3>6, <3>7
  <2>8. IsPrefix(f[n], g[n])
    <3>1. /\ f[n] = IF n = 1 THEN ss[n] ELSE f[n-1] \o ss[n]
          /\ g[n] = IF n = 1 THEN tt[n] ELSE g[n-1] \o tt[n]
      BY <2>1, <2>2, <2>3 DEF Flattens
    <3>2. CASE n = 1
      BY <2>5, <3>1, <3>2
    <3>3. CASE n # 1
      <4>1. n - 1 \in 1..(n - 1) /\ n - 1 \in 1..n
        BY <1>1, <1>4, <3>3
      <4>2. f[n - 1] = g[n - 1] /\ f[n - 1] \in Seq(S)
        BY <2>4, <2>7, <4>1
      <4>3. QED
        BY <2>5, <3>1, <3>3, <4>2, ConcatPrefix
    <3>4. QED
      BY <3>2, <3>3
  <2> DEFINE Shorter == {k \in n..m : ~ IsPrefix(f[n], g[k])}
  <2>9. Shorter = {}
    <3>1. SUFFICES ASSUME Shorter # {} PROVE FALSE
      OBVIOUS
    <3>2. Shorter \in SUBSET Nat
      BY <1>1
    <3> HIDE DEF Shorter
    <3>3. PICK k \in Shorter : k = 0 \/ k - 1 \notin Shorter
      BY <3>1, <3>2, First
    <3>4. k \in n..m /\ ~ IsPrefix(f[n], g[k])
      BY DEF Shorter
    <3>5. k # n
      BY <2>8, <3>4
    <3>6. k \in 1..m /\ k - 1 \in 1..m /\ k - 1 \in n..m /\ k # 1 /\ k # 0
      BY <1>1, <1>4, <3>4, <3>5
    <3>7. g[k] = g[k - 1] \o tt[k]
      BY <2>3, <3>6 DEF Flattens
    <3>8. IsPrefix(f[n], g[k - 1])
      BY <3>3, <3>6 DEF Shorter
    <3>9. g[k - 1] \in Seq(S) /\ tt[k] \in Seq(S) /\ f[n] \in Seq(S)
      BY <1>2, <2>1, <2>4, <3>6 DEF m
    <3>10. g[k] \in Seq(S) /\ IsPrefix(g[k - 1], g[k])
      BY <3>7, <3>9, PrefixOfConcat
    <3>11. IsPrefix(f[n], g[k])
      BY <3>8, <3>9, <3>10, PrefixTransitive
    <3>12. QED
      BY <3>4, <3>11
  <2>10. m \in n..m
    BY <1>1
  <2>11. QED
    BY <2>2, <2>3, <2>9, <2>10
<1>5. QED
  BY <1>3, <1>4
=============================================================================
