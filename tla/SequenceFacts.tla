---------------------------- MODULE SequenceFacts ----------------------------
(***************************************************************************)
(* Induction for the proofs of this project. The induction theorems of the *)
(* library have an operator as parameter, which the provers cannot give a  *)
(* value; here the parameter is the set of what the claim holds for. What  *)
(* FlattenSeq does follows from it.                                        *)
(***************************************************************************)
EXTENDS SequencesExt, SequenceTheorems, WellFoundedInduction, TLAPS

\* Among numbers there is a least one.
LEMMA LeastOf ==
  ASSUME NEW M, M \subseteq Nat, M # {}
  PROVE  \E x \in M : \A y \in M : x <= y
<1>1. IsWellFoundedOn(OpToRel(<, Nat), Nat)
  BY NatLessThanWellFounded
<1>2. PICK x \in M : \A y \in M : <<y, x>> \notin OpToRel(<, Nat)
  BY <1>1, WFMin, Zenon
<1>3. ASSUME NEW y \in M PROVE x <= y
  <2>1. ~(y < x)
    BY <1>2 DEF OpToRel
  <2> QED
    BY <2>1
<1> QED
  BY <1>3

\* Induction on numbers, and on sequences that grow at their end.
LEMMA NatSets ==
  ASSUME NEW S, 0 \in S, \A n \in Nat : n \in S => n + 1 \in S
  PROVE  Nat \subseteq S
<1> DEFINE M == {n \in Nat : n \notin S}
<1>1. SUFFICES ASSUME M # {} PROVE FALSE
  OBVIOUS
<1>2. PICK n \in M : \A k \in M : n <= k
  <2>1. M \subseteq Nat
    OBVIOUS
  <2> HIDE DEF M
  <2> QED
    BY <1>1, <2>1, LeastOf
<1>3. n - 1 \in Nat /\ n - 1 \notin M
  BY <1>2
<1> QED
  BY <1>2, <1>3

LEMMA SeqSets ==
  ASSUME NEW X, NEW S, <<>> \in S, \A s \in Seq(X), x \in X : s \in S => Append(s, x) \in S
  PROVE  Seq(X) \subseteq S
<1> DEFINE N == {n \in Nat : \A s \in Seq(X) : Len(s) = n => s \in S}
<1>1. 0 \in N
  <2>1. \A s \in Seq(X) : Len(s) = 0 => s = <<>>
    BY EmptySeq
  <2> QED
    BY <2>1
<1>2. ASSUME NEW n \in Nat, n \in N PROVE n + 1 \in N
  <2>1. SUFFICES ASSUME NEW s \in Seq(X), Len(s) = n + 1 PROVE s \in S
    OBVIOUS
  <2> DEFINE t == SubSeq(s, 1, n)
  <2>2. t \in Seq(X) /\ Len(t) = n /\ \A i \in 1..n : t[i] = s[i]
    BY <1>2, <2>1
  <2>3. t \in S
    BY <1>2, <2>2
  <2>4. s[n + 1] \in X
    BY <2>1
  <2>5. s = Append(t, s[n + 1])
    <3> HIDE DEF t
    <3>1. /\ Append(t, s[n + 1]) \in Seq(X) /\ Len(Append(t, s[n + 1])) = n + 1
          /\ \A i \in 1..(n + 1) : Append(t, s[n + 1])[i] = IF i = n + 1 THEN s[n + 1] ELSE t[i]
      BY <2>2, <2>4
    <3>2. \A i \in 1..(n + 1) : Append(t, s[n + 1])[i] = s[i]
      BY <2>2, <3>1
    <3> QED
      BY <2>1, <3>1, <3>2, SeqEqual
  <2> QED
    BY <2>2, <2>3, <2>4, <2>5
<1>3. Nat \subseteq N
  <2> HIDE DEF N
  <2> QED
    BY <1>1, <1>2, NatSets
<1>4. ASSUME NEW s \in Seq(X) PROVE s \in S
  <2>1. Len(s) \in Nat
    OBVIOUS
  <2> QED
    BY <1>3, <2>1
<1> QED
  BY <1>4

-----------------------------------------------------------------------------
\* FlattenSeq is made of a function that concatenates more and more.
IsFlat(f, s, n) == f = [i \in 1..n |-> IF i = 1 THEN s[i] ELSE f[i - 1] \o s[i]]

LEMMA FlatAt ==
  ASSUME NEW f, NEW s, NEW n \in Nat, IsFlat(f, s, n), NEW i \in 1..n
  PROVE  f[i] = IF i = 1 THEN s[i] ELSE f[i - 1] \o s[i]
<1> DEFINE G(j) == IF j = 1 THEN s[j] ELSE f[j - 1] \o s[j]
<1>1. f = [j \in 1..n |-> G(j)]
  BY Zenon DEF IsFlat
<1> HIDE DEF G
<1>2. f[i] = G(i)
  BY <1>1
<1> QED
  BY <1>2 DEF G

LEMMA FlatExists == ASSUME NEW s, NEW n \in Nat PROVE \E f : IsFlat(f, s, n)
<1> DEFINE M == {k \in Nat : ~ \E f : IsFlat(f, s, k)}
<1>1. SUFFICES ASSUME M # {} PROVE FALSE
  OBVIOUS
<1>2. PICK k \in M : \A j \in M : k <= j
  BY <1>1, LeastOf, Zenon
<1>3. k # 0
  <2>1. IsFlat([i \in 1..0 |-> s], s, 0)
    BY DEF IsFlat
  <2> QED
    BY <2>1
<1>4. k - 1 \in Nat /\ k - 1 \notin M
  BY <1>2, <1>3
<1>5. PICK g : IsFlat(g, s, k - 1)
  BY <1>4
<1> DEFINE Next(i) == IF i = 1 THEN s[i] ELSE g[i - 1] \o s[i]
           f == [i \in 1..k |-> Next(i)]
<1>6. \A i \in 1..(k - 1) : g[i] = Next(i)
  BY <1>4, <1>5, FlatAt
<1> HIDE DEF Next
<1>7. \A i \in 1..k : i # 1 => f[i - 1] = g[i - 1]
  BY <1>2, <1>6
<1>8. IsFlat(f, s, k)
  <2> HIDE DEF f
  <2>1. \A i \in 1..k : Next(i) = IF i = 1 THEN s[i] ELSE f[i - 1] \o s[i]
    BY <1>7 DEF Next
  <2>2. f = [i \in 1..k |-> Next(i)]
    BY DEF f
  <2> QED
    BY <2>1, <2>2 DEF IsFlat
<1> QED
  BY <1>8, <1>2

LEMMA FlatAgree ==
  ASSUME NEW f, NEW g, NEW s, NEW t, NEW m \in Nat, NEW n \in Nat, m <= n,
         IsFlat(f, s, m), IsFlat(g, t, n), \A i \in 1..m : s[i] = t[i]
  PROVE  \A i \in 1..m : f[i] = g[i]
<1> DEFINE M == {i \in 1..m : f[i] # g[i]}
<1>1. SUFFICES ASSUME M # {} PROVE FALSE
  OBVIOUS
<1>2. PICK i \in M : \A j \in M : i <= j
  <2>1. M \subseteq Nat
    OBVIOUS
  <2> HIDE DEF M
  <2> QED
    BY <1>1, <2>1, LeastOf
<1>3. i # 1 => f[i - 1] = g[i - 1]
  BY <1>2
<1>4. /\ f[i] = IF i = 1 THEN s[i] ELSE f[i - 1] \o s[i]
      /\ g[i] = IF i = 1 THEN t[i] ELSE g[i - 1] \o t[i]
  <2>1. i \in 1..m /\ i \in 1..n
    OBVIOUS
  <2> QED
    BY <2>1, FlatAt
<1> QED
  BY <1>3, <1>4

LEMMA FlattenIs ==
  ASSUME NEW s, Len(s) \in Nat \ {0}
  PROVE  \E f : IsFlat(f, s, Len(s)) /\ FlattenSeq(s) = f[Len(s)]
<1> DEFINE F == CHOOSE f : IsFlat(f, s, Len(s))
<1>1. IsFlat(F, s, Len(s))
  BY FlatExists, Zenon
<1>2. FlattenSeq(s) = F[Len(s)]
  BY DEF FlattenSeq, IsFlat
<1> QED
  BY <1>1, <1>2

\* What it does: nothing to nothing, and one sequence after the other.
LEMMA FlattenEmpty == FlattenSeq(<<>>) = <<>>
  BY DEF FlattenSeq
LEMMA FlattenAppend ==
  ASSUME NEW X, NEW s \in Seq(Seq(X)), NEW x \in Seq(X)
  PROVE  FlattenSeq(Append(s, x)) = FlattenSeq(s) \o x
<1> DEFINE n == Len(s)
           t == Append(s, x)
           k == Len(t)
<1>1. /\ n \in Nat /\ k \in Nat /\ k = n + 1 /\ t[k] = x /\ \A i \in 1..n : s[i] = t[i]
      /\ n <= n /\ n <= k /\ k \in 1..k /\ k - 1 = n
  OBVIOUS
<1>2. PICK f : IsFlat(f, t, k) /\ FlattenSeq(t) = f[k]
  <2>1. k \in Nat \ {0}
    OBVIOUS
  <2> HIDE DEF t
  <2> QED
    BY <2>1, FlattenIs
<1> HIDE DEF n, t, k
<1>3. f[k] = IF k = 1 THEN x ELSE f[n] \o x
  <2>1. f[k] = IF k = 1 THEN t[k] ELSE f[k - 1] \o t[k]
    BY <1>1, <1>2, FlatAt
  <2> QED
    BY <1>1, <2>1
<1>4. CASE n = 0
  <2>1. s = <<>>
    BY <1>4, EmptySeq DEF n
  <2>2. FlattenSeq(t) = x
    BY <1>1, <1>2, <1>3, <1>4
  <2> QED
    BY <2>1, <2>2, FlattenEmpty, ConcatEmptySeq DEF t
<1>5. CASE n # 0
  <2>1. PICK g : IsFlat(g, s, n) /\ FlattenSeq(s) = g[n]
    <3>1. n \in Nat \ {0}
      BY <1>1, <1>5
    <3> QED
      BY <3>1, FlattenIs DEF n
  <2>2. \A i \in 1..n : g[i] = f[i]
    <3>1. n \in Nat /\ k \in Nat /\ n <= k
      BY <1>1
    <3>2. IsFlat(g, s, n) /\ IsFlat(f, t, k) /\ \A i \in 1..n : s[i] = t[i]
      BY <1>1, <1>2, <2>1
    <3> QED
      BY <3>1, <3>2, FlatAgree
  <2>3. g[n] = f[n] /\ k # 1
    BY <1>1, <1>5, <2>2
  <2> QED
    BY <1>2, <1>3, <2>1, <2>3 DEF t
<1> QED
  BY <1>4, <1>5
LEMMA FlattenTyped ==
  ASSUME NEW X PROVE \A s \in Seq(Seq(X)) : FlattenSeq(s) \in Seq(X)
<1> DEFINE S == {s \in Seq(Seq(X)) : FlattenSeq(s) \in Seq(X)}
<1>1. <<>> \in S
  <2>1. <<>> \in Seq(Seq(X)) /\ <<>> \in Seq(X)
    OBVIOUS
  <2> QED
    BY <2>1, FlattenEmpty
<1>2. ASSUME NEW s \in Seq(Seq(X)), NEW x \in Seq(X), s \in S PROVE Append(s, x) \in S
  <2>1. FlattenSeq(Append(s, x)) = FlattenSeq(s) \o x
    BY <1>2, FlattenAppend
  <2>2. Append(s, x) \in Seq(Seq(X)) /\ FlattenSeq(s) \o x \in Seq(X)
    BY <1>2
  <2> QED
    BY <2>1, <2>2
<1>3. Seq(Seq(X)) \subseteq S
  <2> HIDE DEF S
  <2> QED
    BY <1>1, <1>2, SeqSets
<1> QED
  BY <1>3

\* The same for the sequences that a function makes of the elements.
MapFlat(f, s) == FlattenSeq([i \in DOMAIN s |-> f[s[i]]])

LEMMA MapFlatFacts ==
  ASSUME NEW X, NEW Y, NEW f \in [X -> Seq(Y)]
  PROVE  /\ MapFlat(f, <<>>) = <<>>
         /\ \A s \in Seq(X) : MapFlat(f, s) \in Seq(Y)
         /\ \A s \in Seq(X), x \in X : MapFlat(f, Append(s, x)) = MapFlat(f, s) \o f[x]
<1> DEFINE M(s) == [i \in DOMAIN s |-> f[s[i]]]
<1>1. ASSUME NEW s \in Seq(X) PROVE M(s) \in Seq(Seq(Y)) /\ Len(M(s)) = Len(s)
  <2>1. M(s) = [i \in 1..Len(s) |-> f[s[i]]] /\ Len(s) \in Nat
    OBVIOUS
  <2>2. \A i \in 1..Len(s) : f[s[i]] \in Seq(Y)
    OBVIOUS
  <2> QED
    BY <2>1, <2>2
<1>2. ASSUME NEW s \in Seq(X), NEW x \in X PROVE M(Append(s, x)) = Append(M(s), f[x])
  <2> DEFINE t == Append(s, x)
             u == Append(M(s), f[x])
  <2>1. /\ t \in Seq(X) /\ Len(t) = Len(s) + 1 /\ t[Len(s) + 1] = x
        /\ \A i \in 1..Len(s) : t[i] = s[i]
    OBVIOUS
  <2>2. /\ M(t) \in Seq(Seq(Y)) /\ Len(M(t)) = Len(s) + 1
        /\ \A i \in 1..(Len(s) + 1) : M(t)[i] = f[t[i]]
    <3>1. DOMAIN t = 1..(Len(s) + 1)
      BY <2>1
    <3> HIDE DEF t
    <3>2. \A i \in DOMAIN t : M(t)[i] = f[t[i]]
      OBVIOUS
    <3>3. M(t) \in Seq(Seq(Y)) /\ Len(M(t)) = Len(t)
      BY <1>1, <2>1
    <3> HIDE DEF M
    <3> QED
      BY <2>1, <3>1, <3>2, <3>3
  <2>3. /\ u \in Seq(Seq(Y)) /\ Len(u) = Len(s) + 1 /\ u[Len(s) + 1] = f[x]
        /\ \A i \in 1..Len(s) : u[i] = f[s[i]]
    <3>1. M(s) \in Seq(Seq(Y)) /\ Len(M(s)) = Len(s) /\ \A i \in 1..Len(s) : M(s)[i] = f[s[i]]
      BY <1>1
    <3>2. f[x] \in Seq(Y)
      OBVIOUS
    <3> HIDE DEF M
    <3> QED
      BY <3>1, <3>2
  <2> HIDE DEF M, t, u
  <2>4. ASSUME NEW i \in 1..Len(M(t)) PROVE M(t)[i] = u[i]
    <3>1. Len(s) \in Nat
      OBVIOUS
    <3>2. i \in 1..(Len(s) + 1) /\ M(t)[i] = f[t[i]]
      BY <2>2
    <3>3. CASE i = Len(s) + 1
      BY <2>1, <2>3, <3>2, <3>3
    <3>4. CASE i \in 1..Len(s)
      BY <2>1, <2>3, <3>2, <3>4
    <3> QED
      BY <3>1, <3>2, <3>3, <3>4
  <2>5. M(t) = u
    BY <2>2, <2>3, <2>4, SeqEqual
  <2> QED
    BY <2>5 DEF t, u
<1>3. \A s : MapFlat(f, s) = FlattenSeq(M(s))
  BY DEF MapFlat
<1>4. M(<<>>) = <<>>
  OBVIOUS
<1> HIDE DEF M
<1>5. MapFlat(f, <<>>) = <<>>
  BY <1>3, <1>4, FlattenEmpty
<1>6. \A s \in Seq(X) : MapFlat(f, s) \in Seq(Y)
  BY <1>1, <1>3, FlattenTyped
<1>7. ASSUME NEW s \in Seq(X), NEW x \in X PROVE MapFlat(f, Append(s, x)) = MapFlat(f, s) \o f[x]
  <2>1. M(s) \in Seq(Seq(Y)) /\ f[x] \in Seq(Y)
    BY <1>1
  <2>2. FlattenSeq(Append(M(s), f[x])) = FlattenSeq(M(s)) \o f[x]
    BY <2>1, FlattenAppend
  <2>3. MapFlat(f, Append(s, x)) = FlattenSeq(Append(M(s), f[x]))
    BY <1>2, <1>3
  <2> QED
    BY <1>3, <2>2, <2>3
<1> QED
  BY <1>5, <1>6, <1>7

\* A sequence is its first element and the others.
LEMMA HeadTailFacts ==
  ASSUME NEW X, NEW s \in Seq(X), s # <<>>
  PROVE  Head(s) \in X /\ Tail(s) \in Seq(X) /\ s = <<Head(s)>> \o Tail(s)
<1> DEFINE t == <<Head(s)>> \o Tail(s)
<1>1. Head(s) \in X /\ Tail(s) \in Seq(X) /\ Len(s) \in Nat \ {0} /\ Len(Tail(s)) = Len(s) - 1
  BY EmptySeq
<1>2. t \in Seq(X) /\ Len(t) = Len(s)
  BY <1>1
<1>3. ASSUME NEW i \in 1..Len(s) PROVE s[i] = t[i]
  BY <1>1
<1> HIDE DEF t
<1>4. s = t
  BY <1>2, <1>3, SeqEqual
<1> QED
  BY <1>1, <1>4 DEF t
=============================================================================
