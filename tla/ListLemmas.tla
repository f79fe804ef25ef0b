----------------------------- MODULE ListLemmas -----------------------------
(***************************************************************************)
(* What the operations on the program's std::list objects (push_back,      *)
(* pop_front, erase) do to the elements of a list, seen as a set; and the  *)
(* induction that definitions by recursion are reasoned about with.        *)
(***************************************************************************)
EXTENDS Integers, Sequences, SequencesExt, SequenceTheorems,
        WellFoundedInduction, TLAPS

\* An entry is an element.
LEMMA EntryIsElement ==
    ASSUME NEW S, NEW s \in Seq(S), NEW i \in 1 .. Len(s)
    PROVE  s[i] \in S /\ s[i] \in ToSet(s)
<1>1. s[i] \in S /\ DOMAIN s = 1 .. Len(s)
  BY ElementOfSeq, LenProperties
<1> QED BY <1>1 DEF ToSet

\* Appending adds one element, and a new one keeps the list free of repeats.
LEMMA AppendElements ==
    ASSUME NEW S, NEW s \in Seq(S), NEW e \in S
    PROVE  /\ Append(s, e) \in Seq(S)
           /\ ToSet(Append(s, e)) = ToSet(s) \cup {e}
           /\ IsInjective(s) /\ e \notin ToSet(s) => IsInjective(Append(s, e))
<1>1. /\ Append(s, e) \in Seq(S)
      /\ Len(Append(s, e)) = Len(s) + 1
      /\ \A i \in 1 .. Len(s) : Append(s, e)[i] = s[i]
      /\ Append(s, e)[Len(s) + 1] = e
  BY AppendProperties
<1>2. /\ Len(s) \in Nat
      /\ DOMAIN s = 1 .. Len(s)
      /\ DOMAIN Append(s, e) = 1 .. Len(s) + 1
  BY <1>1, LenProperties
<1>3. ToSet(Append(s, e)) = ToSet(s) \cup {e}
  BY <1>1, <1>2 DEF ToSet
<1>4. IsInjective(s) /\ e \notin ToSet(s) => IsInjective(Append(s, e))
  BY <1>1, <1>2 DEF ToSet, IsInjective
<1> QED BY <1>1, <1>3, <1>4

\* Taking the head of a list without repeats removes exactly that element.
LEMMA TailElements ==
    ASSUME NEW S, NEW s \in Seq(S), s # <<>>, IsInjective(s)
    PROVE  /\ Tail(s) \in Seq(S)
           /\ Head(s) \in ToSet(s)
           /\ ToSet(Tail(s)) = ToSet(s) \ {Head(s)}
           /\ IsInjective(Tail(s))
<1>1. /\ Tail(s) \in Seq(S)
      /\ Len(Tail(s)) = Len(s) - 1
      /\ \A i \in 1 .. Len(Tail(s)) : Tail(s)[i] = s[i + 1]
  BY HeadTailProperties
<1>2. /\ Len(s) \in Nat \ {0}
      /\ DOMAIN s = 1 .. Len(s)
      /\ DOMAIN Tail(s) = 1 .. Len(s) - 1
      /\ Head(s) = s[1]
  BY <1>1, LenProperties, EmptySeq
<1>3. \A i, j \in 1 .. Len(s) : s[i] = s[j] => i = j
  BY <1>2 DEF IsInjective
<1>4. Head(s) \in ToSet(s)
  BY <1>2 DEF ToSet
<1>5. ASSUME NEW x PROVE x \in ToSet(Tail(s)) <=> x \in ToSet(s) /\ x # Head(s)
  <2>1. ASSUME x \in ToSet(Tail(s)) PROVE x \in ToSet(s) /\ x # Head(s)
    <3>1. PICK i \in 1 .. Len(s) - 1 : x = Tail(s)[i]
      BY <2>1, <1>2 DEF ToSet
    <3>2. x = s[i + 1] /\ i + 1 \in 1 .. Len(s) /\ i + 1 # 1
      BY <3>1, <1>1, <1>2
    <3> QED BY <3>2, <1>2, <1>3 DEF ToSet
  <2>2. ASSUME x \in ToSet(s), x # Head(s) PROVE x \in ToSet(Tail(s))
    <3>1. PICK i \in 1 .. Len(s) : x = s[i]
      BY <2>2, <1>2 DEF ToSet
    <3>2. i - 1 \in 1 .. Len(s) - 1 /\ x = s[(i - 1) + 1]
      BY <3>1, <2>2, <1>2
    <3>3. x = Tail(s)[i - 1]
      BY <3>2, <1>1
    <3> QED BY <3>2, <3>3, <1>2 DEF ToSet
  <2> QED BY <2>1, <2>2
<1>6. IsInjective(Tail(s))
  <2>1. ASSUME NEW i \in 1 .. Len(s) - 1, NEW j \in 1 .. Len(s) - 1, Tail(s)[i] = Tail(s)[j]
        PROVE  i = j
    <3>1. s[i + 1] = s[j + 1] /\ i + 1 \in 1 .. Len(s) /\ j + 1 \in 1 .. Len(s)
      BY <2>1, <1>1, <1>2
    <3>2. i + 1 = j + 1
      BY <3>1, <1>3
    <3> QED BY <3>2
  <2> QED BY <2>1, <1>2 DEF IsInjective
<1> QED BY <1>1, <1>4, <1>5, <1>6

\* Erasing any position leaves a list of the same elements' type.
LEMMA RemoveAtType ==
    ASSUME NEW S, NEW s \in Seq(S), NEW i \in 1 .. Len(s)
    PROVE  RemoveAt(s, i) \in Seq(S)
<1>1. Len(s) \in Nat /\ \A j \in 1 .. Len(s) : s[j] \in S
  BY LenProperties, ElementOfSeq
<1>2. SubSeq(s, 1, i - 1) \in Seq(S)
  BY <1>1, SubSeqProperties
<1>3. SubSeq(s, i + 1, Len(s)) \in Seq(S)
  BY <1>1, SubSeqProperties
<1> QED BY <1>2, <1>3, ConcatProperties DEF RemoveAt

\* Erasing a position of a list without repeats removes that element only.
LEMMA RemoveAtElements ==
    ASSUME NEW S, NEW s \in Seq(S), NEW i \in 1 .. Len(s), IsInjective(s)
    PROVE  /\ RemoveAt(s, i) \in Seq(S)
           /\ ToSet(RemoveAt(s, i)) = ToSet(s) \ {s[i]}
           /\ IsInjective(RemoveAt(s, i))
<1> DEFINE a == SubSeq(s, 1, i - 1)
           b == SubSeq(s, i + 1, Len(s))
           r == a \o b
<1>1. /\ Len(s) \in Nat
      /\ DOMAIN s = 1 .. Len(s)
      /\ \A j \in 1 .. Len(s) : s[j] \in S
  BY LenProperties, ElementOfSeq
<1>2. /\ a \in Seq(S) /\ Len(a) = i - 1
      /\ \A j \in 1 .. i - 1 : a[j] = s[j]
  <2>1. 1 \in Int /\ i - 1 \in Int /\ \A j \in 1 .. i - 1 : s[j] \in S
    BY <1>1
  <2>2. /\ a \in Seq(S)
        /\ Len(a) = IF 1 <= i - 1 THEN (i - 1) - 1 + 1 ELSE 0
        /\ \A j \in 1 .. (i - 1) - 1 + 1 : a[j] = s[1 + j - 1]
    BY <2>1, SubSeqProperties
  <2> HIDE DEF a
  <2> QED BY <2>2, <1>1
<1>3. /\ b \in Seq(S) /\ Len(b) = Len(s) - i
      /\ \A j \in 1 .. Len(s) - i : b[j] = s[i + j]
  <2>1. i + 1 \in Int /\ Len(s) \in Int /\ \A j \in i + 1 .. Len(s) : s[j] \in S
    BY <1>1
  <2>2. /\ b \in Seq(S)
        /\ Len(b) = IF i + 1 <= Len(s) THEN Len(s) - (i + 1) + 1 ELSE 0
        /\ \A j \in 1 .. Len(s) - (i + 1) + 1 : b[j] = s[(i + 1) + j - 1]
    BY <2>1, SubSeqProperties
  <2> HIDE DEF b, r
  <2>3. Len(b) = Len(s) - i
    <3>1. Len(b) = IF i + 1 <= Len(s) THEN Len(s) - (i + 1) + 1 ELSE 0
      BY <2>2
    <3>2. Len(s) \in Nat /\ i \in Nat /\ i <= Len(s)
      BY <1>1
    <3> QED BY <3>1, <3>2
  <2>4. ASSUME NEW j \in 1 .. Len(s) - i PROVE b[j] = s[i + j]
    <3>1. j \in 1 .. Len(s) - (i + 1) + 1 /\ (i + 1) + j - 1 = i + j
      BY <1>1
    <3>2. b[j] = s[(i + 1) + j - 1]
      BY <3>1, <2>2
    <3> QED BY <3>1, <3>2
  <2> QED BY <2>2, <2>3, <2>4
<1> HIDE DEF a, b
<1>4. /\ r \in Seq(S) /\ Len(r) = Len(a) + Len(b)
      /\ \A j \in 1 .. Len(a) + Len(b) : r[j] = IF j <= Len(a) THEN a[j] ELSE b[j - Len(a)]
  BY <1>2, <1>3, ConcatProperties
<1> HIDE DEF r
<1>5. /\ Len(r) = Len(s) - 1
      /\ DOMAIN r = 1 .. Len(s) - 1
      /\ \A j \in 1 .. Len(s) - 1 : r[j] = IF j < i THEN s[j] ELSE s[j + 1]
  <2>1. Len(r) = Len(s) - 1 /\ DOMAIN r = 1 .. Len(s) - 1
    BY <1>1, <1>2, <1>3, <1>4, LenProperties
  <2>2. ASSUME NEW j \in 1 .. Len(s) - 1, j < i PROVE r[j] = s[j]
    <3>1. j \in 1 .. Len(a) + Len(b) /\ j <= Len(a) /\ j \in 1 .. i - 1
      BY <2>2, <1>1, <1>2, <1>3
    <3> QED BY <3>1, <1>2, <1>4
  <2>3. ASSUME NEW j \in 1 .. Len(s) - 1, ~(j < i) PROVE r[j] = s[j + 1]
    <3>1. r[j] = b[j - (i - 1)]
      <4>1. j \in 1 .. Len(a) + Len(b) /\ ~(j <= Len(a))
        BY <2>3, <1>1, <1>2, <1>3
      <4> QED BY <4>1, <1>2, <1>4
    <3>2. j - (i - 1) \in 1 .. Len(s) - i /\ i + (j - (i - 1)) = j + 1
      BY <2>3, <1>1
    <3> QED BY <3>1, <3>2, <1>3
  <2> QED BY <2>1, <2>2, <2>3
<1>6. \A j, k \in 1 .. Len(s) : s[j] = s[k] => j = k
  BY <1>1 DEF IsInjective
<1>7. ASSUME NEW x PROVE x \in ToSet(r) <=> x \in ToSet(s) /\ x # s[i]
  <2>1. ASSUME x \in ToSet(r) PROVE x \in ToSet(s) /\ x # s[i]
    <3>1. PICK j \in 1 .. Len(s) - 1 : x = r[j]
      BY <2>1, <1>5 DEF ToSet
    <3>2. PICK k \in 1 .. Len(s) : x = s[k] /\ k # i
      BY <3>1, <1>1, <1>5
    <3> QED BY <3>2, <1>1, <1>6 DEF ToSet
  <2>2. ASSUME x \in ToSet(s), x # s[i] PROVE x \in ToSet(r)
    <3>1. PICK k \in 1 .. Len(s) : x = s[k] /\ k # i
      BY <2>2, <1>1 DEF ToSet
    <3>2. CASE k < i
      <4>1. k \in 1 .. Len(s) - 1 /\ r[k] = s[k]
        BY <3>2, <1>1, <1>5
      <4> QED BY <4>1, <3>1, <1>5 DEF ToSet
    <3>3. CASE k > i
      <4>1. k - 1 \in 1 .. Len(s) - 1 /\ ~(k - 1 < i) /\ (k - 1) + 1 = k
        BY <3>3, <1>1
      <4>2. r[k - 1] = s[k]
        BY <4>1, <1>5
      <4> QED BY <4>1, <4>2, <3>1, <1>5 DEF ToSet
    <3> QED BY <3>1, <3>2, <3>3
  <2> QED BY <2>1, <2>2
<1>8. IsInjective(r)
  <2>1. ASSUME NEW j \in 1 .. Len(s) - 1, NEW k \in 1 .. Len(s) - 1, r[j] = r[k]
        PROVE  j = k
    <3> DEFINE p(n) == IF n < i THEN n ELSE n + 1
    <3>1. r[j] = s[p(j)] /\ r[k] = s[p(k)]
      BY <1>5
    <3>2. p(j) \in 1 .. Len(s) /\ p(k) \in 1 .. Len(s)
      BY <1>1
    <3>3. p(j) = p(k)
      BY <3>1, <3>2, <2>1, <1>6
    <3> QED BY <3>3, <1>1
  <2> QED BY <2>1, <1>5 DEF IsInjective
<1> QED BY <1>4, <1>7, <1>8 DEF RemoveAt, r, a, b
\* The head of what follows a list may be appended to it instead.
LEMMA AppendToConcat ==
    \A S : \A s, rest \in Seq(S), e \in S : s \o (<<e>> \o rest) = Append(s, e) \o rest
<1> TAKE S
<1> TAKE s, rest \in Seq(S), e \in S
<1> DEFINE one == <<e>>
<1>1. one \in Seq(S)
  OBVIOUS
<1>2. s \o one = Append(s, e)
  BY AppendIsConcat
<1> HIDE DEF one
<1>3. s \o (one \o rest) = (s \o one) \o rest
  BY <1>1, ConcatAssociative
<1> QED BY <1>2, <1>3 DEF one

-----------------------------------------------------------------------------
(* Induction.  The induction theorems of the library take the formula to   *)
(* prove as an operator; here it is the set of the numbers it holds for.   *)

\* Every set of natural numbers that is not empty has a least element.
LEMMA LeastNatural ==
    ASSUME NEW T \in SUBSET Nat, T # {}
    PROVE  \E n \in T : \A m \in T : n <= m
<1> DEFINE R == OpToRel(<, Nat)
<1>1. IsWellFoundedOn(R, Nat)
  BY NatLessThanWellFounded
<1>2. \A m, n \in Nat : m < n => <<m, n>> \in R
  BY DEF OpToRel
<1> HIDE DEF R
<1>3. PICK n \in T : \A m \in T : ~(<<m, n>> \in R)
  BY <1>1, WFMin
<1>4. ASSUME NEW m \in T PROVE n <= m
  <2>1. m \in Nat /\ n \in Nat
    OBVIOUS
  <2>2. ~(m < n)
    BY <1>2, <1>3, <2>1
  <2> QED BY <2>1, <2>2
<1> QED BY <1>4

\* A set with 0 and the successor of each of its numbers holds every number.
LEMMA SetInduction ==
    ASSUME NEW P, 0 \in P, \A n \in Nat : n \in P => n + 1 \in P
    PROVE  \A n \in Nat : n \in P
<1> SUFFICES ASSUME Nat \ P # {} PROVE FALSE
  OBVIOUS
<1>1. PICK n \in Nat \ P : \A m \in Nat \ P : n <= m
  <2>1. Nat \ P \in SUBSET Nat
    OBVIOUS
  <2> QED BY <2>1, LeastNatural
<1>2. n # 0 /\ n - 1 \in Nat /\ ~(n <= n - 1)
  BY <1>1
<1>3. n - 1 \in P
  BY <1>1, <1>2
<1>4. (n - 1) + 1 = n
  BY <1>1
<1> QED BY <1>1, <1>2, <1>3, <1>4

\* A loop of n turns has a value after each: what justifies a function defined
\* by recursion over the turns.
LEMMA LoopExists ==
    \A X : \A x0 \in X, n \in Nat : \A turn \in [1 .. n -> [X -> X]] :
        \E f \in [0 .. n -> X] :
            f[0] = x0 /\ \A i \in 1 .. n : f[i] = turn[i][f[i - 1]]
<1> TAKE X
<1> TAKE x0 \in X, n \in Nat
<1> TAKE turn \in [1 .. n -> [X -> X]]
<1> DEFINE Runs(f, k) == f[0] = x0 /\ \A i \in 1 .. k : f[i] = turn[i][f[i - 1]]
           P == {k \in Nat : k <= n => \E f \in [0 .. k -> X] : Runs(f, k)}
<1>1. 0 \in P
  <2> DEFINE f == [i \in 0 .. 0 |-> x0]
  <2>1. f \in [0 .. 0 -> X] /\ Runs(f, 0)
    OBVIOUS
  <2> HIDE DEF f
  <2> QED BY <2>1
<1>2. \A k \in Nat : k \in P => k + 1 \in P
  <2> SUFFICES ASSUME NEW k \in Nat, k \in P, k + 1 <= n
               PROVE  \E f \in [0 .. k + 1 -> X] : Runs(f, k + 1)
    OBVIOUS
  <2>1. PICK f \in [0 .. k -> X] : Runs(f, k)
    OBVIOUS
  <2> DEFINE next == turn[k + 1][f[k]]
             g == [i \in 0 .. k + 1 |-> IF i <= k THEN f[i] ELSE next]
  <2>2. next \in X
    <3>1. k + 1 \in 1 .. n /\ k \in 0 .. k
      OBVIOUS
    <3> QED BY <3>1
  <2> HIDE DEF next
  <2>3. g \in [0 .. k + 1 -> X]
    BY <2>2
  <2>4. /\ \A i \in 0 .. k : g[i] = f[i]
        /\ g[k + 1] = next
    OBVIOUS
  <2> HIDE DEF g
  <2>5. g[0] = x0
    BY <2>1, <2>4
  <2>6. ASSUME NEW i \in 1 .. k + 1 PROVE g[i] = turn[i][g[i - 1]]
    <3>1. CASE i \in 1 .. k
      <4>1. i \in 0 .. k /\ i - 1 \in 0 .. k
        BY <3>1
      <4> QED BY <2>1, <2>4, <3>1, <4>1
    <3>2. CASE i = k + 1
      <4>1. i - 1 = k /\ k \in 0 .. k
        BY <3>2
      <4> QED BY <2>4, <3>2, <4>1 DEF next
    <3> QED BY <3>1, <3>2
  <2> QED BY <2>3, <2>5, <2>6
<1>3. \A k \in Nat : k \in P
  <2> HIDE DEF P
  <2> QED BY <1>1, <1>2, SetInduction, Zenon
<1> QED BY <1>3

=============================================================================
