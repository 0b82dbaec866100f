------------------------- MODULE OffsetOrderProofs --------------------------
(***************************************************************************)
(* What InOrder computes: the one sequence that lists a finite set of      *)
(* offsets, each once and ascending.                                       *)
(***************************************************************************)
EXTENDS OffsetOrder, Sequences, FiniteSetTheorems, TLAPS

\* A sequence that lists a set of offsets, each once, in ascending order.
Lists(s, S) ==
  /\ s \in Seq(Nat)
  /\ \A i, j \in 1 .. Len(s) : i < j => s[i] < s[j]
  /\ S = {s[i] : i \in 1 .. Len(s)}

Below(S, o) == {p \in S : p < o}

\* Of two members of a finite set of offsets the larger has more below it.
LEMMA BelowGrows ==
  ASSUME NEW S, IsFiniteSet(S), S \subseteq Nat, NEW o \in S, NEW p \in S, o < p
  PROVE  Cardinality(Below(S, o)) < Cardinality(Below(S, p))
<1>1. Below(S, p) \in SUBSET S /\ Below(S, o) \in SUBSET Below(S, p)
  <2>1. \A q \in S : q < o => q < p
    OBVIOUS
  <2> QED BY <2>1 DEF Below
<1>2. o \in Below(S, p) /\ o \notin Below(S, o)
  BY DEF Below
<1>3. IsFiniteSet(Below(S, p))
  BY <1>1, FS_Subset
<1>4. /\ IsFiniteSet(Below(S, o))
      /\ Cardinality(Below(S, o)) <= Cardinality(Below(S, p))
      /\ Cardinality(Below(S, p)) # Cardinality(Below(S, o))
  BY <1>1, <1>2, <1>3, FS_Subset
<1>5. Cardinality(Below(S, o)) \in Nat /\ Cardinality(Below(S, p)) \in Nat
  BY <1>3, <1>4, FS_CardinalityType
<1> QED BY <1>4, <1>5

\* The i-th element of an ascending sequence has i - 1 elements below it.
LEMMA IthHasBelow ==
  ASSUME NEW S, NEW s, Lists(s, S), NEW i \in 1 .. Len(s)
  PROVE  Cardinality(Below(S, s[i])) = i - 1
<1>1. s \in Seq(Nat) /\ Len(s) \in Nat /\ \A j \in 1 .. Len(s) : s[j] \in Nat
  BY DEF Lists
<1> DEFINE f == [j \in 1 .. i - 1 |-> s[j]]
<1>2. Below(S, s[i]) = {s[j] : j \in 1 .. i - 1}
  <2>1. \A j \in 1 .. Len(s) : s[j] < s[i] <=> j < i
    BY <1>1 DEF Lists
  <2> QED BY <1>1, <2>1 DEF Lists, Below
<1>3. f \in [1 .. i - 1 -> Below(S, s[i])]
  BY <1>2
<1>4. \A j, k \in 1 .. i - 1 : f[j] = f[k] => j = k
  <2> SUFFICES ASSUME NEW j \in 1 .. i - 1, NEW k \in 1 .. i - 1, f[j] = f[k] PROVE j = k
    OBVIOUS
  <2>1. j \in 1 .. Len(s) /\ k \in 1 .. Len(s) /\ s[j] = s[k]
    BY <1>1
  <2>2. ~(j < k) /\ ~(k < j)
    BY <2>1, <1>1 DEF Lists
  <2> QED BY <2>1, <2>2, <1>1
<1>5. \A o \in Below(S, s[i]) : \E j \in 1 .. i - 1 : f[j] = o
  BY <1>2
<1>6. f \in Bijection(1 .. i - 1, Below(S, s[i]))
  BY <1>3, <1>4, <1>5 DEF Bijection, Injection, Surjection, IsInjective
<1>7. ExistsBijection(1 .. i - 1, Below(S, s[i]))
  BY <1>6 DEF ExistsBijection
<1>8. i - 1 \in Nat
  BY <1>1
<1> QED BY <1>7, <1>8, FS_CountingElements

\* The sequence that lists a finite set of offsets is unique: InOrder.
LEMMA ListsIsInOrder ==
  ASSUME NEW S, NEW s, Lists(s, S)
  PROVE  s = InOrder(S)
<1>1. s \in Seq(Nat) /\ Len(s) \in Nat /\ \A j \in 1 .. Len(s) : s[j] \in Nat
  BY DEF Lists
<1>2. \A j, k \in 1 .. Len(s) : s[j] = s[k] => j = k
  <2> SUFFICES ASSUME NEW j \in 1 .. Len(s), NEW k \in 1 .. Len(s), s[j] = s[k] PROVE j = k
    OBVIOUS
  <2>2. ~(j < k) /\ ~(k < j)
    BY <1>1 DEF Lists
  <2> QED BY <2>2, <1>1
<1>3. s \in Bijection(1 .. Len(s), S)
  <2>1. s \in [1 .. Len(s) -> S]
    BY <1>1 DEF Lists
  <2>2. \A o \in S : \E j \in 1 .. Len(s) : s[j] = o
    BY DEF Lists
  <2> QED BY <2>1, <2>2, <1>2 DEF Bijection, Injection, Surjection, IsInjective
<1>4. Cardinality(S) = Len(s) /\ IsFiniteSet(S)
  <2>1. ExistsBijection(1 .. Len(s), S)
    BY <1>3 DEF ExistsBijection
  <2> QED BY <2>1, <1>1, FS_CountingElements, FS_NatBijection
<1>5. ASSUME NEW i \in 1 .. Len(s)
      PROVE  s[i] = CHOOSE o \in S : Cardinality({p \in S : p < o}) = i - 1
  <2> DEFINE P(o) == Cardinality(Below(S, o)) = i - 1
  <2>1. s[i] \in S /\ P(s[i])
    BY <1>1, IthHasBelow DEF Lists
  <2>2. ASSUME NEW o \in S, P(o) PROVE o = s[i]
    <3>1. PICK j \in 1 .. Len(s) : o = s[j]
      BY DEF Lists
    <3>2. Cardinality(Below(S, s[j])) = j - 1
      BY IthHasBelow
    <3> QED BY <3>1, <3>2, <2>2, <1>1
  <2>3. s[i] = CHOOSE o \in S : P(o)
    <3> HIDE DEF P
    <3> QED BY <2>1, <2>2
  <2> QED BY <2>3 DEF Below
<1>6. InOrder(S) = [i \in 1 .. Len(s) |-> s[i]]
  BY <1>4, <1>5 DEF InOrder
<1> QED BY <1>1, <1>6

\* InOrder lists its set: the counts of what is below are 0 .. n - 1, so every
\* position has an offset, and the counts grow with the offsets.
LEMMA InOrderLists ==
  ASSUME NEW S, IsFiniteSet(S), S \subseteq Nat
  PROVE  Lists(InOrder(S), S)
<1> DEFINE n == Cardinality(S)
           rank == [o \in S |-> Cardinality(Below(S, o)) + 1]
           s == InOrder(S)
<1>1. n \in Nat
  BY FS_CardinalityType
<1>2. ASSUME NEW o \in S
      PROVE  rank[o] \in 1 .. n
  <2>1. IsFiniteSet(S \ {o}) /\ Cardinality(S \ {o}) = n - 1
    BY FS_RemoveElement
  <2>2. Below(S, o) \in SUBSET (S \ {o})
    BY DEF Below
  <2>3. IsFiniteSet(Below(S, o)) /\ Cardinality(Below(S, o)) <= n - 1
    BY <2>1, <2>2, FS_Subset
  <2>4. Cardinality(Below(S, o)) \in Nat
    BY <2>3, FS_CardinalityType
  <2> QED BY <2>3, <2>4, <1>1
<1>3. \A o, p \in S : o < p => rank[o] < rank[p]
  <2> SUFFICES ASSUME NEW o \in S, NEW p \in S, o < p PROVE rank[o] < rank[p]
    OBVIOUS
  <2>1. Cardinality(Below(S, o)) < Cardinality(Below(S, p))
    BY BelowGrows
  <2>2. rank[o] \in Int /\ rank[p] \in Int
    BY <1>2, <1>1
  <2>3. IsFiniteSet(Below(S, o)) /\ IsFiniteSet(Below(S, p))
    <3>1. Below(S, o) \in SUBSET S /\ Below(S, p) \in SUBSET S
      BY DEF Below
    <3> QED BY <3>1, FS_Subset
  <2>4. Cardinality(Below(S, o)) \in Nat /\ Cardinality(Below(S, p)) \in Nat
    BY <2>3, FS_CardinalityType
  <2> QED BY <2>1, <2>4
<1>4. rank \in Injection(S, 1 .. n)
  <2>1. rank \in [S -> 1 .. n]
    BY <1>2
  <2>2. ASSUME NEW o \in S, NEW p \in S, rank[o] = rank[p]
        PROVE  o = p
    <3>1. rank[o] \in Int /\ rank[p] \in Int
      BY <1>2, <1>1
    <3>2. ~(o < p) /\ ~(p < o)
      BY <2>2, <3>1, <1>3
    <3> QED BY <3>2
  <2> QED BY <2>1, <2>2 DEF Injection, IsInjective
<1>5. \A k \in 1 .. n : \E o \in S : rank[o] = k
  <2>1. IsFiniteSet(1 .. n) /\ Cardinality(1 .. n) = n
    BY <1>1, FS_Interval
  <2>2. rank \in Surjection(S, 1 .. n)
    BY <1>4, <2>1, FS_Injection
  <2> QED BY <2>2 DEF Surjection
<1>6. ASSUME NEW i \in 1 .. n
      PROVE  s[i] \in S /\ rank[s[i]] = i
  <2>1. PICK o \in S : rank[o] = i
    BY <1>5
  <2>2. Cardinality(Below(S, o)) \in Nat
    <3>1. Below(S, o) \in SUBSET S
      BY DEF Below
    <3>2. IsFiniteSet(Below(S, o))
      BY <3>1, FS_Subset
    <3> QED BY <3>2, FS_CardinalityType
  <2>3. Cardinality({p \in S : p < o}) = i - 1
    <3>1. Cardinality(Below(S, o)) + 1 = i
      BY <2>1
    <3>2. Cardinality(Below(S, o)) = i - 1
      BY <3>1, <2>2
    <3> QED BY <3>2 DEF Below
  <2>4. s[i] = CHOOSE x \in S : Cardinality({p \in S : p < x}) = i - 1
    BY DEF InOrder
  <2>5. s[i] \in S /\ Cardinality({p \in S : p < s[i]}) = i - 1
    BY <2>3, <2>4
  <2>6. Cardinality(Below(S, s[i])) + 1 = i
    BY <2>5 DEF Below
  <2> QED BY <2>5, <2>6
<1>7. DOMAIN s = 1 .. n /\ s \in [1 .. n -> Nat]
  <2> DEFINE g(i) == CHOOSE o \in S : Cardinality({p \in S : p < o}) = i - 1
  <2>1. s = [i \in 1 .. n |-> g(i)]
    BY DEF InOrder
  <2>2. \A i \in 1 .. n : s[i] \in Nat
    BY <1>6
  <2> HIDE DEF g, s, n
  <2> QED BY <2>1, <2>2
<1>8. s \in Seq(Nat) /\ Len(s) = n
  <2> HIDE DEF s, n
  <2> QED BY <1>1, <1>7
<1>9. \A i, j \in 1 .. n : i < j => s[i] < s[j]
  <2> SUFFICES ASSUME NEW i \in 1 .. n, NEW j \in 1 .. n, i < j PROVE s[i] < s[j]
    OBVIOUS
  <2>1. s[i] \in Nat /\ s[j] \in Nat /\ rank[s[i]] = i /\ rank[s[j]] = j
        /\ s[i] \in S /\ s[j] \in S
    BY <1>6
  <2>2. ~(s[j] < s[i]) /\ s[i] # s[j]
    BY <2>1, <1>3, <1>1
  <2> QED BY <2>1, <2>2
<1>10. S = {s[i] : i \in 1 .. n}
  <2>1. ASSUME NEW o \in S PROVE \E i \in 1 .. n : o = s[i]
    <3>1. rank[o] \in 1 .. n /\ s[rank[o]] \in S /\ rank[s[rank[o]]] = rank[o]
      BY <1>2, <1>6
    <3>2. s[rank[o]] = o
      BY <3>1, <1>4 DEF Injection, IsInjective
    <3> QED BY <3>1, <3>2
  <2> QED BY <2>1, <1>6
<1> QED BY <1>8, <1>9, <1>10 DEF Lists

\* What is read of two adjacent stretches is what is read of both.
LEMMA ListsConcat ==
  ASSUME NEW S, NEW T, NEW s, NEW t, Lists(s, S), Lists(t, T),
         \A o \in S, p \in T : o < p
  PROVE  Lists(s \o t, S \union T)
<1>1. s \in Seq(Nat) /\ t \in Seq(Nat) /\ Len(s) \in Nat /\ Len(t) \in Nat
  BY DEF Lists
<1>2. /\ s \o t \in Seq(Nat) /\ Len(s \o t) = Len(s) + Len(t)
      /\ \A i \in 1 .. Len(s) : (s \o t)[i] = s[i]
      /\ \A i \in 1 .. Len(t) : (s \o t)[Len(s) + i] = t[i]
  BY <1>1
<1> DEFINE u == s \o t
<1>3. ASSUME NEW i \in 1 .. Len(u)
      PROVE  \/ i <= Len(s) /\ i \in 1 .. Len(s) /\ u[i] = s[i] /\ s[i] \in S
             \/ i > Len(s) /\ i - Len(s) \in 1 .. Len(t) /\ u[i] = t[i - Len(s)] /\ t[i - Len(s)] \in T
  <2>1. CASE i <= Len(s)
    <3>1. i \in 1 .. Len(s)
      BY <2>1, <1>1, <1>2
    <3> QED BY <2>1, <3>1, <1>2 DEF Lists
  <2>2. CASE i > Len(s)
    <3>1. i - Len(s) \in 1 .. Len(t) /\ Len(s) + (i - Len(s)) = i
      BY <2>2, <1>1, <1>2
    <3> QED BY <2>2, <3>1, <1>2 DEF Lists
  <2> QED BY <2>1, <2>2, <1>1, <1>2
<1>4. \A i, j \in 1 .. Len(u) : i < j => u[i] < u[j]
  <2> SUFFICES ASSUME NEW i \in 1 .. Len(u), NEW j \in 1 .. Len(u), i < j PROVE u[i] < u[j]
    OBVIOUS
  <2>1. CASE i > Len(s)
    <3>1. /\ i - Len(s) \in 1 .. Len(t) /\ u[i] = t[i - Len(s)]
          /\ j - Len(s) \in 1 .. Len(t) /\ u[j] = t[j - Len(s)]
      BY <2>1, <1>1, <1>2, <1>3
    <3>2. i - Len(s) < j - Len(s)
      BY <1>1, <1>2
    <3> QED BY <3>1, <3>2 DEF Lists
  <2>2. CASE i <= Len(s) /\ j > Len(s)
    BY <2>2, <1>1, <1>2, <1>3
  <2>3. CASE j <= Len(s)
    <3>1. /\ i \in 1 .. Len(s) /\ u[i] = s[i]
          /\ j \in 1 .. Len(s) /\ u[j] = s[j]
      BY <2>3, <1>1, <1>2, <1>3
    <3> QED BY <3>1 DEF Lists
  <2> QED BY <2>1, <2>2, <2>3, <1>1, <1>2
<1>5. S \union T = {u[i] : i \in 1 .. Len(u)}
  <2>1. ASSUME NEW o \in S \union T PROVE \E i \in 1 .. Len(u) : o = u[i]
    <3>1. CASE o \in S
      <4>1. PICK i \in 1 .. Len(s) : o = s[i]
        BY <3>1 DEF Lists
      <4>2. i \in 1 .. Len(u) /\ u[i] = s[i]
        BY <1>1, <1>2
      <4> QED BY <4>1, <4>2
    <3>2. CASE o \in T
      <4>1. PICK i \in 1 .. Len(t) : o = t[i]
        BY <3>2 DEF Lists
      <4>2. Len(s) + i \in 1 .. Len(u) /\ u[Len(s) + i] = t[i]
        BY <1>1, <1>2
      <4> QED BY <4>1, <4>2
    <3> QED BY <3>1, <3>2
  <2>2. \A i \in 1 .. Len(u) : u[i] \in S \union T
    BY <1>3
  <2> QED BY <2>1, <2>2
<1> QED BY <1>2, <1>4, <1>5 DEF Lists

-----------------------------------------------------------------------------
\* A stretch of offsets without a gap, in order.
Stretch(from, to) == [i \in 1 .. to - from |-> from + i - 1]

\* Of a stretch without gaps nothing is left out.
LEMMA StretchInOrder ==
  ASSUME NEW from \in Nat, NEW to \in Nat, from <= to
  PROVE  InOrder(from .. to - 1) = Stretch(from, to)
<1> DEFINE s == Stretch(from, to)
<1>1. s \in Seq(Nat) /\ Len(s) = to - from
      /\ \A i \in 1 .. to - from : s[i] = from + i - 1
  BY DEF Stretch
<1>2. from .. to - 1 = {s[i] : i \in 1 .. to - from}
  <2>1. ASSUME NEW o \in from .. to - 1 PROVE \E i \in 1 .. to - from : o = s[i]
    <3>1. o - from + 1 \in 1 .. to - from /\ s[o - from + 1] = o
      BY <1>1
    <3> QED BY <3>1
  <2>2. \A i \in 1 .. to - from : s[i] \in from .. to - 1
    BY <1>1
  <2> QED BY <2>1, <2>2
<1>3. Lists(s, from .. to - 1)
  BY <1>1, <1>2 DEF Lists
<1> QED BY <1>3, ListsIsInOrder
=============================================================================
