------------------------ MODULE ResponseService_proofs ------------------------
EXTENDS ResponseService, WellFoundedInduction, FiniteSetTheorems, FunctionTheorems, SequenceTheorems, TLAPS

-----------------------------------------------------------------------------
(* Recursive functions on sets of numbers, as Segment, Conversation and     *)
(* Without are.  They exist, and what they compute is shown by induction on *)
(* the number: a set with no element has no least one.                      *)

\* A set with a least element by a well-founded order,
LEMMA LeastIn ==
  ASSUME NEW R, IsWellFoundedOn(R, Nat), \A x, y \in Nat : y < x => <<y, x>> \in R,
         NEW S \in SUBSET Nat, S # {}
  PROVE  \E x \in S : \A y \in S : x <= y
<1>1. PICK x \in S : \A y \in S : ~(<<y, x>> \in R)
  BY WFMin
<1>2. \A y \in S : ~(y < x)
  <2> SUFFICES ASSUME NEW y \in S, y < x
               PROVE  FALSE
    OBVIOUS
  <2>1. x \in Nat /\ y \in Nat
    OBVIOUS
  <2>2. <<y, x>> \in R
    BY <2>1, Zenon
  <2> QED BY <1>1, <2>2, Zenon
<1>3. \A y \in S : x \in Nat /\ y \in Nat
  OBVIOUS
<1> QED BY <1>2, <1>3

\* so every set of numbers has one.
LEMMA HasLeast ==
  \A S \in SUBSET Nat : S # {} => \E x \in S : \A y \in S : x <= y
<1> DEFINE R == OpToRel(<, Nat)
<1>1. \A x, y \in Nat : y < x => <<y, x>> \in R
  BY Zenon DEF OpToRel
<1>2. IsWellFoundedOn(R, Nat)
  BY NatLessThanWellFounded
<1> HIDE DEF R
<1> QED BY <1>1, <1>2, LeastIn

\* A function on I that is given at the roots, and elsewhere by its value further up.
Below(I, n) == {i \in I : i < n}
Obeys(f, J, R, up, base, step) ==
  \A i \in J : f[i] = IF i \in R THEN base[i] ELSE step[<<i, f[up[i]]>>]

\* Such a function on the numbers below n extends to n,
LEMMA Extends ==
  ASSUME NEW I \in SUBSET Nat, NEW R, NEW V, NEW up, NEW base \in [I -> V], NEW step \in [I \X V -> V],
         \A i \in I \ R : up[i] \in I /\ up[i] < i,
         NEW n \in Nat, NEW g \in [Below(I, n) -> V], Obeys(g, Below(I, n), R, up, base, step)
  PROVE  \E h \in [Below(I, n + 1) -> V] : Obeys(h, Below(I, n + 1), R, up, base, step)
<1> DEFINE next == IF n \in R THEN base[n] ELSE step[<<n, g[up[n]]>>]
           h == [i \in Below(I, n + 1) |-> IF i = n THEN next ELSE g[i]]
<1>0. \A i \in I : i \in Nat /\ (i < n + 1 <=> i < n \/ i = n)
  <2> SUFFICES ASSUME NEW i \in I
               PROVE  i \in Nat /\ (i < n + 1 <=> i < n \/ i = n)
    OBVIOUS
  <2>1. i \in Nat
    OBVIOUS
  <2> QED BY <2>1
<1>1. Below(I, n + 1) = Below(I, n) \cup ({n} \cap I)
  BY <1>0 DEF Below
<1>2. n \notin Below(I, n)
  BY DEF Below
<1>3. n \in I => next \in V
  <2>1. CASE n \in R
    BY <2>1
  <2>2. CASE n \in I \ R
    <3>1. up[n] \in Below(I, n)
      BY <2>2 DEF Below
    <3> QED BY <2>2, <3>1
  <2> QED BY <2>1, <2>2
<1>4. h \in [Below(I, n + 1) -> V]
  BY <1>1, <1>2, <1>3
<1>5. ASSUME NEW i \in Below(I, n + 1)
      PROVE  h[i] = IF i \in R THEN base[i] ELSE step[<<i, h[up[i]]>>]
  <2>1. i \notin R => up[i] \in Below(I, i) /\ up[i] \in Below(I, n + 1) /\ up[i] # n
    <3>1. i \in I /\ i \in Nat /\ i < n + 1
      BY <1>0, <1>5 DEF Below
    <3>2. ASSUME i \notin R
          PROVE  up[i] \in I /\ up[i] \in Nat /\ up[i] < i
      BY <3>1, <3>2, <1>0
    <3>3. ASSUME i \notin R
          PROVE  up[i] < n + 1 /\ up[i] # n
      BY <3>1, <3>2, <3>3
    <3> QED BY <3>2, <3>3 DEF Below
  <2>2. i \notin R => h[up[i]] = g[up[i]]
    BY <2>1
  <2>3. CASE i = n
    BY <2>2, <2>3
  <2>4. CASE i # n
    <3>1. i \in Below(I, n)
      BY <1>1, <2>4
    <3>2. h[i] = g[i]
      BY <2>4
    <3> QED BY <2>2, <3>1, <3>2 DEF Obeys
  <2> QED BY <2>3, <2>4
<1> HIDE DEF h
<1> QED BY <1>4, <1>5 DEF Obeys

\* so there is one below every n,
LEMMA Parts ==
  ASSUME NEW I \in SUBSET Nat, NEW R, NEW V, NEW up, NEW base \in [I -> V], NEW step \in [I \X V -> V],
         \A i \in I \ R : up[i] \in I /\ up[i] < i
  PROVE  \A n \in Nat : \E g \in [Below(I, n) -> V] : Obeys(g, Below(I, n), R, up, base, step)
<1> DEFINE Has(n) == \E g \in [Below(I, n) -> V] : Obeys(g, Below(I, n), R, up, base, step)
           S == {n \in Nat : ~Has(n)}
<1> SUFFICES ASSUME S # {}
             PROVE  FALSE
  OBVIOUS
<1>1. PICK n \in S : \A m \in S : n <= m
  BY HasLeast
<1>2. n # 0
  <2>1. Below(I, 0) = {}
    <3> SUFFICES ASSUME NEW i \in I, i < 0
                 PROVE  FALSE
      BY DEF Below
    <3>1. i \in Nat
      OBVIOUS
    <3> QED BY <3>1
  <2>2. [i \in {} |-> i] \in [{} -> V]
    OBVIOUS
  <2>3. Has(0)
    BY <2>1, <2>2 DEF Obeys
  <2> QED BY <2>3
<1>3. n - 1 \in Nat /\ (n - 1) + 1 = n /\ n - 1 \notin S
  BY <1>1, <1>2
<1>4. Has(n - 1)
  BY <1>3
<1>5. PICK g \in [Below(I, n - 1) -> V] : Obeys(g, Below(I, n - 1), R, up, base, step)
  BY <1>4
<1>6. Has((n - 1) + 1)
  BY <1>3, <1>5, Extends
<1> QED BY <1>3, <1>6

\* What holds at a number when it holds at those below, holds.
LEMMA Induction ==
  ASSUME NEW I \in SUBSET Nat, NEW S, \A i \in I : (\A j \in I : j < i => j \in S) => i \in S
  PROVE  I \subseteq S
<1> SUFFICES ASSUME I \ S # {}
             PROVE  FALSE
  OBVIOUS
<1>1. PICK i \in I \ S : \A j \in I \ S : i <= j
  BY HasLeast
<1>2. \A j \in I : j < i => j \in S
  <2> SUFFICES ASSUME NEW j \in I, j < i, j \notin S
               PROVE  FALSE
    OBVIOUS
  <2>1. i \in Nat /\ j \in Nat
    OBVIOUS
  <2>2. i <= j
    BY <1>1
  <2> QED BY <2>1, <2>2
<1> QED BY <1>1, <1>2

\* and they agree where they meet,
LEMMA Agree ==
  ASSUME NEW I \in SUBSET Nat, NEW R, NEW up, NEW base, NEW step,
         \A i \in I \ R : up[i] \in I /\ up[i] < i,
         NEW m \in Nat, NEW n \in Nat, NEW g, NEW h,
         Obeys(g, Below(I, m), R, up, base, step), Obeys(h, Below(I, n), R, up, base, step)
  PROVE  \A i \in Below(I, m) \cap Below(I, n) : g[i] = h[i]
<1> DEFINE S == {i \in Below(I, m) \cap Below(I, n) : g[i] # h[i]}
<1> SUFFICES ASSUME S # {}
             PROVE  FALSE
  OBVIOUS
<1>1. S \in SUBSET Nat
  BY DEF Below
<1>2. PICK i \in S : \A j \in S : i <= j
  BY <1>1, HasLeast
<1>3. i \notin R => up[i] \in Below(I, m) \cap Below(I, n) /\ up[i] \notin S
  <2> SUFFICES ASSUME i \notin R
               PROVE  up[i] \in Below(I, m) \cap Below(I, n) /\ up[i] \notin S
    OBVIOUS
  <2>1. i \in Nat /\ i \in I /\ i < m /\ i < n
    BY <1>2 DEF Below
  <2>2. up[i] \in I /\ up[i] < i
    BY <2>1
  <2>3. up[i] \in Nat
    BY <2>2
  <2>4. up[i] < m /\ up[i] < n /\ ~(i <= up[i])
    BY <2>1, <2>2, <2>3
  <2> QED BY <1>2, <2>2, <2>4 DEF Below
<1>4. i \notin R => g[up[i]] = h[up[i]]
  BY <1>3
<1> QED BY <1>2, <1>4 DEF Obeys

\* so there is one on I.
LEMMA Recursion ==
  ASSUME NEW I \in SUBSET Nat, NEW R, NEW V, NEW up, NEW base \in [I -> V], NEW step \in [I \X V -> V],
         \A i \in I \ R : up[i] \in I /\ up[i] < i
  PROVE  \E f \in [I -> V] : Obeys(f, I, R, up, base, step)
<1> DEFINE Is(n, g) == g \in [Below(I, n) -> V] /\ Obeys(g, Below(I, n), R, up, base, step)
           G(n) == CHOOSE g : Is(n, g)
           f == [i \in I |-> G(i + 1)[i]]
<1>1. \A n \in Nat : Is(n, G(n))
  BY Parts
<1> HIDE DEF G
<1>2. ASSUME NEW i \in I
      PROVE  /\ f[i] \in V
             /\ f[i] = IF i \in R THEN base[i] ELSE step[<<i, f[up[i]]>>]
  <2>1. i \in Nat /\ i + 1 \in Nat /\ i \in Below(I, i + 1) /\ Is(i + 1, G(i + 1))
    <3>1. i \in Nat
      OBVIOUS
    <3>2. i + 1 \in Nat /\ i < i + 1
      BY <3>1
    <3> QED BY <1>1, <3>1, <3>2 DEF Below
  <2>2. f[i] \in V
    BY <2>1
  <2>3. f[i] = IF i \in R THEN base[i] ELSE step[<<i, G(i + 1)[up[i]]>>]
    BY <2>1 DEF Obeys
  <2>4. ASSUME i \notin R
        PROVE  G(i + 1)[up[i]] = f[up[i]]
    <3> DEFINE j == up[i]
    <3>1. j \in I /\ j \in Nat /\ j + 1 \in Nat /\ j \in Below(I, j + 1) \cap Below(I, i + 1) /\ Is(j + 1, G(j + 1))
      <4>1. j \in I /\ j < i
        BY <2>4
      <4>2. j \in Nat
        BY <4>1
      <4>3. j + 1 \in Nat /\ j < j + 1 /\ j < i + 1
        BY <2>1, <4>1, <4>2
      <4> QED BY <1>1, <4>1, <4>2, <4>3 DEF Below
    <3> HIDE DEF j
    <3>2. G(j + 1)[j] = G(i + 1)[j]
      BY <2>1, <3>1, Agree
    <3>3. f[j] = G(j + 1)[j]
      BY <3>1
    <3> QED BY <3>2, <3>3 DEF j
  <2> QED BY <2>2, <2>3, <2>4
<1> HIDE DEF f
<1>3. f \in [I -> V]
  BY <1>2 DEF f
<1> QED BY <1>2, <1>3 DEF Obeys

-----------------------------------------------------------------------------
(* Sequences.                                                               *)

\* No element occurs twice.
Distinct(s) == \A m, n \in 1 .. Len(s) : s[m] = s[n] => m = n

\* One sequence after another,
LEMMA ConcatFacts ==
  ASSUME NEW T, NEW s \in Seq(T), NEW t \in Seq(T)
  PROVE  /\ s \o t \in Seq(T) /\ Len(s \o t) = Len(s) + Len(t)
         /\ ToSet(s \o t) = ToSet(s) \cup ToSet(t)
         /\ Distinct(s) /\ Distinct(t) /\ ToSet(s) \cap ToSet(t) = {} => Distinct(s \o t)
<1>1. /\ s \o t \in Seq(T) /\ Len(s \o t) = Len(s) + Len(t) /\ Len(s) \in Nat /\ Len(t) \in Nat
      /\ \A n \in 1 .. Len(s) + Len(t) : (s \o t)[n] = IF n <= Len(s) THEN s[n] ELSE t[n - Len(s)]
  BY ConcatProperties
<1> DEFINE u == s \o t
<1> HIDE DEF u
<1>2. \A n \in 1 .. Len(s) : n \in 1 .. Len(u) /\ u[n] = s[n]
  BY <1>1 DEF u
<1>3. \A n \in 1 .. Len(t) : n + Len(s) \in 1 .. Len(u) /\ u[n + Len(s)] = t[n]
  BY <1>1 DEF u
<1>4. \A n \in 1 .. Len(u) : \/ n \in 1 .. Len(s) /\ u[n] = s[n]
                             \/ n - Len(s) \in 1 .. Len(t) /\ u[n] = t[n - Len(s)]
  BY <1>1 DEF u
<1>5. ToSet(u) = ToSet(s) \cup ToSet(t)
  <2>1. /\ ToSet(s) = {s[n] : n \in 1 .. Len(s)} /\ ToSet(t) = {t[n] : n \in 1 .. Len(t)}
        /\ ToSet(u) = {u[n] : n \in 1 .. Len(u)}
    BY <1>1 DEF ToSet, u
  <2> QED BY <1>2, <1>3, <1>4, <2>1
<1>6. ASSUME Distinct(s), Distinct(t), ToSet(s) \cap ToSet(t) = {}
      PROVE  Distinct(u)
  <2> SUFFICES ASSUME NEW m \in 1 .. Len(u), NEW n \in 1 .. Len(u), u[m] = u[n]
               PROVE  m = n
    BY DEF Distinct
  <2>1. \A k \in 1 .. Len(s) : s[k] \in ToSet(s)
    BY DEF ToSet
  <2>2. \A k \in 1 .. Len(t) : t[k] \in ToSet(t)
    BY DEF ToSet
  <2>3. CASE m \in 1 .. Len(s) /\ n \in 1 .. Len(s)
    BY <1>2, <1>6, <2>3 DEF Distinct
  <2>4. CASE m - Len(s) \in 1 .. Len(t) /\ n - Len(s) \in 1 .. Len(t) /\ u[m] = t[m - Len(s)] /\ u[n] = t[n - Len(s)]
    <3>1. m - Len(s) = n - Len(s)
      BY <1>6, <2>4 DEF Distinct
    <3>2. m \in Nat /\ n \in Nat
      BY <1>1 DEF u
    <3> QED BY <1>1, <3>1, <3>2
  <2>5. CASE m \in 1 .. Len(s) /\ n - Len(s) \in 1 .. Len(t) /\ u[m] = s[m] /\ u[n] = t[n - Len(s)]
    BY <1>6, <2>1, <2>2, <2>5
  <2>6. CASE n \in 1 .. Len(s) /\ m - Len(s) \in 1 .. Len(t) /\ u[n] = s[n] /\ u[m] = t[m - Len(s)]
    BY <1>6, <2>1, <2>2, <2>6
  <2> QED BY <1>4, <2>3, <2>4, <2>5, <2>6
<1> QED BY <1>1, <1>5, <1>6 DEF u

\* an element at the end,
LEMMA AppendIs ==
  ASSUME NEW T, NEW s \in Seq(T), NEW x \in T
  PROVE  Append(s, x) = s \o <<x>>
OBVIOUS

LEMMA AppendFacts ==
  ASSUME NEW T, NEW s \in Seq(T), NEW x \in T
  PROVE  /\ Append(s, x) \in Seq(T) /\ Len(Append(s, x)) = Len(s) + 1
         /\ ToSet(Append(s, x)) = ToSet(s) \cup {x}
         /\ Last(Append(s, x)) = x
         /\ Distinct(s) /\ x \notin ToSet(s) => Distinct(Append(s, x))
<1>1. Append(s, x) = s \o <<x>> /\ Append(s, x) \in Seq(T) /\ Len(Append(s, x)) = Len(s) + 1
      /\ Append(s, x)[Len(s) + 1] = x
  OBVIOUS
<1>2. <<x>> \in Seq(T) /\ Distinct(<<x>>) /\ ToSet(<<x>>) = {x}
  BY DEF Distinct, ToSet
<1>3. Last(Append(s, x)) = x
  BY <1>1 DEF Last
<1>4. ToSet(s \o <<x>>) = ToSet(s) \cup {x}
  <2> DEFINE t == <<x>>
  <2>1. t \in Seq(T) /\ ToSet(t) = {x}
    BY <1>2
  <2> HIDE DEF t
  <2>2. ToSet(s \o t) = ToSet(s) \cup ToSet(t)
    BY <2>1, ConcatFacts
  <2> QED BY <2>1, <2>2 DEF t
<1>5. Distinct(s) /\ x \notin ToSet(s) => Distinct(s \o <<x>>)
  <2>1. x \notin ToSet(s) => ToSet(s) \cap ToSet(<<x>>) = {}
    BY <1>2
  <2> QED BY <1>2, <2>1, ConcatFacts
<1> QED BY <1>1, <1>3, <1>4, <1>5

\* and one alone.
LEMMA SingleFacts ==
  ASSUME NEW T, NEW x \in T
  PROVE  /\ <<x>> \in Seq(T) /\ Len(<<x>>) = 1 /\ ToSet(<<x>>) = {x} /\ Last(<<x>>) = x
         /\ Distinct(<<x>>) /\ Reverse(<<x>>) = <<x>>
<1>1. <<x>> \in Seq(T) /\ Len(<<x>>) = 1 /\ ToSet(<<x>>) = {x} /\ Last(<<x>>) = x
      /\ Distinct(<<x>>)
  BY DEF ToSet, Last, Distinct
<1>2. Reverse(<<x>>) = <<x>>
  BY DEF Reverse
<1> QED BY <1>1, <1>2

\* The last element.
LEMMA LastFacts ==
  ASSUME NEW T, NEW s \in Seq(T), s # <<>>
  PROVE  /\ Last(s) \in ToSet(s)
         /\ \A x \in T : Last(<<x>> \o s) = Last(s)
<1>1. Len(s) \in Nat /\ Len(s) # 0
  OBVIOUS
<1>2. Last(s) \in ToSet(s)
  BY <1>1 DEF Last, ToSet
<1>3. ASSUME NEW x \in T
      PROVE  Last(<<x>> \o s) = Last(s)
  BY <1>1 DEF Last
<1> QED BY <1>2, <1>3

\* The empty sequence.
LEMMA EmptyFacts ==
  /\ ToSet(<<>>) = {} /\ Distinct(<<>>) /\ Len(<<>>) = 0
  /\ \A T : <<>> \in Seq(T) /\ \A s \in Seq(T) : <<>> \o s = s /\ s \o <<>> = s
BY DEF ToSet, Distinct

\* A sequence and the set of its elements.
LEMMA SetFacts ==
  ASSUME NEW T, NEW s \in Seq(T)
  PROVE  /\ ToSet(s) \subseteq T
         /\ \A U : ToSet(s) \subseteq U => s \in Seq(U)
         /\ s # <<>> => \E n \in 1 .. Len(s) : s[n] \in ToSet(s)
<1>1. ToSet(s) = {s[n] : n \in 1 .. Len(s)} /\ \A n \in 1 .. Len(s) : s[n] \in ToSet(s)
  BY DEF ToSet
<1>2. ASSUME NEW U, ToSet(s) \subseteq U
      PROVE  s \in Seq(U)
  <2>1. Len(s) \in Nat /\ s \in [1 .. Len(s) -> U]
    BY <1>1, <1>2
  <2> QED BY <2>1, SeqDef
<1>3. s # <<>> => 1 \in 1 .. Len(s)
  OBVIOUS
<1> QED BY <1>1, <1>2, <1>3

\* A reversed sequence.
LEMMA ReverseFacts ==
  ASSUME NEW T, NEW s \in Seq(T)
  PROVE  /\ Reverse(s) \in Seq(T) /\ Len(Reverse(s)) = Len(s) /\ ToSet(Reverse(s)) = ToSet(s)
         /\ \A x \in T : Reverse(<<x>> \o s) = Append(Reverse(s), x)
<1> DEFINE r == Reverse(s)
<1>1. Len(s) \in Nat /\ r = [n \in 1 .. Len(s) |-> s[(Len(s) - n) + 1]]
  BY DEF Reverse
<1>2. \A n \in 1 .. Len(s) : (Len(s) - n) + 1 \in 1 .. Len(s) /\ s[(Len(s) - n) + 1] \in T
  BY <1>1
<1>3. r \in [1 .. Len(s) -> T]
  BY <1>1, <1>2
<1>4. r \in Seq(T) /\ Len(r) = Len(s)
  BY <1>1, <1>3
<1> HIDE DEF r
<1>5. ToSet(r) = ToSet(s)
  <2>1. ToSet(s) = {s[n] : n \in 1 .. Len(s)} /\ ToSet(r) = {r[n] : n \in 1 .. Len(s)}
    BY <1>4 DEF ToSet
  <2>2. \A n \in 1 .. Len(s) : r[n] \in ToSet(s)
    BY <1>1, <1>2, <2>1
  <2>3. \A n \in 1 .. Len(s) : s[n] \in ToSet(r)
    <3> SUFFICES ASSUME NEW n \in 1 .. Len(s)
                 PROVE  s[n] \in ToSet(r)
      OBVIOUS
    <3>1. (Len(s) - n) + 1 \in 1 .. Len(s) /\ (Len(s) - ((Len(s) - n) + 1)) + 1 = n
      BY <1>1
    <3>2. r[(Len(s) - n) + 1] = s[n]
      BY <1>1, <3>1
    <3> QED BY <2>1, <3>1, <3>2
  <2> QED BY <2>1, <2>2, <2>3
<1>6. ASSUME NEW x \in T
      PROVE  Reverse(<<x>> \o s) = Append(r, x)
  <2> DEFINE u == <<x>> \o s
             v == Append(r, x)
             w == Reverse(u)
  <2>1. u \in Seq(T) /\ Len(u) = Len(s) + 1 /\ u[1] = x /\ \A n \in 1 .. Len(s) : u[n + 1] = s[n]
    OBVIOUS
  <2>2. v \in Seq(T) /\ Len(v) = Len(s) + 1 /\ v[Len(s) + 1] = x /\ \A n \in 1 .. Len(s) : v[n] = r[n]
    BY <1>4
  <2> HIDE DEF u, v
  <2>3. w = [n \in 1 .. Len(s) + 1 |-> u[((Len(s) + 1) - n) + 1]]
    BY <2>1 DEF Reverse
  <2> HIDE DEF w
  <2>4. ASSUME NEW n \in 1 .. Len(s) + 1
        PROVE  w[n] = v[n]
    <3>1. CASE n = Len(s) + 1
      <4>1. ((Len(s) + 1) - n) + 1 = 1
        BY <1>1, <3>1
      <4> QED BY <1>1, <2>1, <2>2, <2>3, <3>1, <4>1
    <3>2. CASE n \in 1 .. Len(s)
      <4>1. (Len(s) - n) + 1 \in 1 .. Len(s) /\ ((Len(s) + 1) - n) + 1 = ((Len(s) - n) + 1) + 1
        BY <1>1, <3>2
      <4>2. w[n] = u[((Len(s) - n) + 1) + 1]
        BY <2>3, <2>4, <4>1
      <4>3. w[n] = s[(Len(s) - n) + 1]
        BY <2>1, <4>1, <4>2
      <4> QED BY <1>1, <2>2, <3>2, <4>3
    <3> QED BY <1>1, <3>1, <3>2
  <2>5. v \in [1 .. Len(s) + 1 -> T]
    BY <2>2
  <2> QED BY <2>3, <2>4, <2>5 DEF u, v, w
<1> QED BY <1>4, <1>5, <1>6 DEF r

-----------------------------------------------------------------------------
(* Without.                                                                 *)

\* Without is a recursive function.
KeptBy(kept, s, S) ==
  \A n \in 0 .. Len(s) :
    kept[n] = IF n = 0 THEN <<>>
              ELSE IF s[n] \in S THEN kept[n - 1] ELSE Append(kept[n - 1], s[n])

\* There is such a function,
LEMMA KeptExists ==
  ASSUME NEW T, NEW s \in Seq(T), NEW S
  PROVE  \E kept \in [0 .. Len(s) -> Seq(T)] : KeptBy(kept, s, S)
<1> DEFINE I == 0 .. Len(s)
           up == [n \in I |-> n - 1]
           base == [n \in I |-> <<>>]
           step == [p \in I \X Seq(T) |-> 
              IF p[1] = 0 THEN <<>> ELSE IF s[p[1]] \in S THEN p[2] ELSE Append(p[2], s[p[1]])]
<1>1. I \in SUBSET Nat /\ base \in [I -> Seq(T)]
  OBVIOUS
<1>2. step \in [I \X Seq(T) -> Seq(T)]
  OBVIOUS
<1>3. \A n \in I \ {0} : up[n] \in I /\ up[n] < n
  OBVIOUS
<1> HIDE DEF step, base, up
<1>4. PICK f \in [I -> Seq(T)] : Obeys(f, I, {0}, up, base, step)
  BY <1>1, <1>2, <1>3, Recursion
<1>5. ASSUME NEW n \in I
      PROVE  f[n] = IF n = 0 THEN <<>>
                         ELSE IF s[n] \in S THEN f[n - 1] ELSE Append(f[n - 1], s[n])
  BY <1>4, <1>3 DEF Obeys, step, base, up
<1> QED BY <1>5 DEF KeptBy

\* and Without is its last value.
LEMMA WithoutDef ==
  ASSUME NEW T, NEW s \in Seq(T), NEW S
  PROVE  \E kept \in [0 .. Len(s) -> Seq(T)] :
           Without(s, S) = kept[Len(s)] /\ KeptBy(kept, s, S)
<1> DEFINE Is(kept) == kept = [n \in 0 .. Len(s) |->
                         IF n = 0 THEN <<>>
                         ELSE IF s[n] \in S THEN kept[n - 1] ELSE Append(kept[n - 1], s[n])]
           K == CHOOSE kept : Is(kept)
<1>1. Without(s, S) = K[Len(s)]
  BY DEF Without
<1>2. PICK f \in [0 .. Len(s) -> Seq(T)] : KeptBy(f, s, S)
  BY KeptExists
<1>3. Is(f)
  BY <1>2 DEF KeptBy
<1>4. Is(K)
  BY <1>3
<1> HIDE DEF K
<1>5. ASSUME NEW n \in 0 .. Len(s)
      PROVE  K[n] = IF n = 0 THEN <<>>
                    ELSE IF s[n] \in S THEN K[n - 1] ELSE Append(K[n - 1], s[n])
  BY <1>4
<1>6. 0 .. Len(s) \subseteq {n \in 0 .. Len(s) : K[n] \in Seq(T)}
  <2> DEFINE S0 == {n \in 0 .. Len(s) : K[n] \in Seq(T)}
  <2>1. ASSUME NEW n \in 0 .. Len(s), \A m \in 0 .. Len(s) : m < n => m \in S0
        PROVE  n \in S0
    <3>1. CASE n = 0
      <4>1. K[n] = <<>>
        BY <1>5, <3>1
      <4> QED BY <4>1, EmptyFacts
    <3>2. CASE n # 0
      <4>1. n - 1 \in S0 /\ s[n] \in T
        BY <2>1, <3>2
      <4>2. K[n] = K[n - 1] \/ K[n] = Append(K[n - 1], s[n])
        BY <1>5, <3>2, Zenon
      <4>3. K[n - 1] \in Seq(T)
        BY <4>1
      <4>4. Append(K[n - 1], s[n]) \in Seq(T)
        BY <4>1, <4>3
      <4> QED BY <4>2, <4>3, <4>4
    <3> QED BY <3>1, <3>2
  <2> HIDE DEF S0
  <2>2. 0 .. Len(s) \in SUBSET Nat
    OBVIOUS
  <2>3. 0 .. Len(s) \subseteq S0
    BY <2>1, <2>2, Induction
  <2> QED BY <2>3 DEF S0
<1>7. K \in [0 .. Len(s) -> Seq(T)]
  BY <1>4, <1>6
<1> QED BY <1>1, <1>5, <1>7 DEF KeptBy

\* What Without keeps.
LEMMA WithoutFacts ==
  ASSUME NEW T, NEW s \in Seq(T), NEW S
  PROVE  /\ Without(s, S) \in Seq(T) /\ Len(Without(s, S)) <= Len(s)
         /\ ToSet(Without(s, S)) = ToSet(s) \ S
         /\ Distinct(s) => Distinct(Without(s, S))
<1>1. PICK k \in [0 .. Len(s) -> Seq(T)] : Without(s, S) = k[Len(s)] /\ KeptBy(k, s, S)
  BY WithoutDef
<1> DEFINE I == 0 .. Len(s)
           Upto(n) == {s[m] : m \in 1 .. n}
           Fine(n) == /\ Len(k[n]) <= n /\ ToSet(k[n]) = Upto(n) \ S
                      /\ Distinct(s) => Distinct(k[n])
           G == {n \in I : Fine(n)}
<1>2. I \in SUBSET Nat /\ Len(s) \in I
  OBVIOUS
<1>3. ASSUME NEW n \in I, \A m \in I : m < n => m \in G
      PROVE  n \in G
  <2>1. CASE n = 0
    <3>1. k[n] = <<>> /\ Upto(n) = {}
      BY <1>1, <2>1 DEF KeptBy
    <3> QED BY <2>1, <3>1, EmptyFacts
  <2>2. CASE n # 0
    <3>1. n - 1 \in I /\ n - 1 < n /\ n \in 1 .. Len(s) /\ s[n] \in T
      BY <2>2
    <3>2. Fine(n - 1) /\ k[n - 1] \in Seq(T) /\ Len(k[n - 1]) \in Nat
      BY <1>1, <1>3, <3>1
    <3>3. Upto(n) = Upto(n - 1) \cup {s[n]}
      <4>1. 1 .. n = (1 .. (n - 1)) \cup {n}
        BY <3>1
      <4> QED BY <4>1
    <3>4. Distinct(s) => s[n] \notin Upto(n - 1)
      BY <3>1 DEF Distinct
    <3> HIDE DEF Upto
    <3>5. CASE s[n] \in S
      <4>1. k[n] = k[n - 1]
        BY <1>1, <2>2, <3>5 DEF KeptBy
      <4>2. Len(k[n]) <= n
        BY <3>1, <3>2, <4>1
      <4>3. Upto(n) \ S = Upto(n - 1) \ S
        BY <3>3, <3>5
      <4> QED BY <3>2, <4>1, <4>2, <4>3
    <3>6. CASE s[n] \notin S
      <4>1. k[n] = Append(k[n - 1], s[n])
        BY <1>1, <2>2, <3>6 DEF KeptBy
      <4>2. /\ Len(k[n]) = Len(k[n - 1]) + 1 /\ ToSet(k[n]) = ToSet(k[n - 1]) \cup {s[n]}
            /\ Distinct(k[n - 1]) /\ s[n] \notin ToSet(k[n - 1]) => Distinct(k[n])
        <5> DEFINE u == k[n - 1]
                   x == s[n]
        <5>1. u \in Seq(T) /\ x \in T
          BY <3>1, <3>2
        <5> HIDE DEF u, x
        <5>2. /\ Len(Append(u, x)) = Len(u) + 1 /\ ToSet(Append(u, x)) = ToSet(u) \cup {x}
              /\ Distinct(u) /\ x \notin ToSet(u) => Distinct(Append(u, x))
          BY <5>1, AppendFacts
        <5> QED BY <4>1, <5>2 DEF u, x
      <4>3. Len(k[n]) <= n
        BY <3>1, <3>2, <4>2
      <4>4. Upto(n) \ S = (Upto(n - 1) \ S) \cup {s[n]}
        BY <3>3, <3>6
      <4> QED BY <3>2, <3>4, <4>2, <4>3, <4>4
    <3> QED BY <3>5, <3>6
  <2> QED BY <2>1, <2>2
<1> HIDE DEF G
<1>4. Len(s) \in G
  BY <1>2, <1>3, Induction
<1>5. ToSet(s) = Upto(Len(s)) /\ k[Len(s)] \in Seq(T)
  BY <1>1, <1>2 DEF ToSet
<1> QED BY <1>1, <1>4, <1>5 DEF G

\* A sequence of different elements is as long as its set is large.
LEMMA DistinctLength ==
  ASSUME NEW T, NEW s \in Seq(T), Distinct(s)
  PROVE  IsFiniteSet(ToSet(s)) /\ Cardinality(ToSet(s)) = Len(s)
<1>1. Len(s) \in Nat /\ s \in [1 .. Len(s) -> T] /\ ToSet(s) = {s[n] : n \in 1 .. Len(s)}
  BY DEF ToSet
<1>2. s \in Bijection(1 .. Len(s), ToSet(s))
  BY <1>1, Fun_IsBij DEF Distinct
<1>3. IsFiniteSet(1 .. Len(s)) /\ Cardinality(1 .. Len(s)) = Len(s)
  BY <1>1, FS_Interval, SMTT(30)
<1>4. ExistsBijection(1 .. Len(s), ToSet(s))
  BY <1>2 DEF ExistsBijection
<1> QED BY <1>3, <1>4, FS_Bijection

-----------------------------------------------------------------------------
(* Conversations: every response comes after the one it continues.          *)

\* Conversation, under these links.
Convo(p, id) ==
  LET upTo[i \in Ids] == IF p[i] = None THEN <<i>> ELSE Append(upTo[p[i]], i)
  IN  upTo[id]

\* A response continues one before it.
Links(p) == p \in [Ids -> Ids \cup {None}] /\ \A i \in Ids : p[i] # None => p[i] < i

Linked(st) == Links(st.parent) /\ st.entries \in Seq(Ids)

\* A conversation is that of the parent, and the response.
LEMMA ConvoDef ==
  ASSUME NEW p, Links(p)
  PROVE  \A i \in Ids :
           /\ Convo(p, i) \in Seq(Ids)
           /\ Convo(p, i) = IF p[i] = None THEN <<i>> ELSE Append(Convo(p, p[i]), i)
<1> DEFINE Is(upTo) == upTo = [i \in Ids |-> IF p[i] = None THEN <<i>> ELSE Append(upTo[p[i]], i)]
           W == CHOOSE upTo : Is(upTo)
<1>1. \A i : Convo(p, i) = W[i]
  BY DEF Convo
<1>3. \E f \in [Ids -> Seq(Ids)] : Is(f)
  <2> DEFINE R == {i \in Ids : p[i] = None}
             base == [i \in Ids |-> <<i>>]
             step == [x \in Ids \X Seq(Ids) |-> Append(x[2], x[1])]
  <2>1. Ids \in SUBSET Nat /\ base \in [Ids -> Seq(Ids)]
    BY IdAssumption
  <2>2. step \in [Ids \X Seq(Ids) -> Seq(Ids)]
    OBVIOUS
  <2>3. \A i \in Ids \ R : p[i] \in Ids /\ p[i] < i
    BY DEF Links
  <2> HIDE DEF step, base, R
  <2>4. PICK f \in [Ids -> Seq(Ids)] : Obeys(f, Ids, R, p, base, step)
    BY <2>1, <2>2, <2>3, Recursion
  <2>5. ASSUME NEW i \in Ids
        PROVE  f[i] = IF p[i] = None THEN <<i>> ELSE Append(f[p[i]], i)
    BY <2>3, <2>4 DEF Obeys, step, base, R
  <2> QED BY <2>5
<1>4. Is(W)
  <2>1. PICK f : Is(f)
    BY <1>3
  <2> QED BY <2>1
<1> HIDE DEF W
<1>5. \A i \in Ids : W[i] = IF p[i] = None THEN <<i>> ELSE Append(W[p[i]], i)
  BY <1>4
<1>6. \A i \in Ids : W[i] \in Seq(Ids)
  <2> DEFINE S == {i \in Ids : W[i] \in Seq(Ids)}
  <2>1. ASSUME NEW i \in Ids, \A j \in Ids : j < i => j \in S
        PROVE  i \in S
    <3>1. p[i] # None => W[p[i]] \in Seq(Ids)
      BY <2>1 DEF Links
    <3>2. W[i] = <<i>> \/ (p[i] # None /\ W[i] = Append(W[p[i]], i))
      BY <1>5, Zenon
    <3>4. <<i>> \in Seq(Ids) /\ \A v \in Seq(Ids) : Append(v, i) \in Seq(Ids)
      OBVIOUS
    <3>3. W[i] \in Seq(Ids)
      BY <3>1, <3>2, <3>4, Zenon
    <3> QED BY <3>3
  <2> HIDE DEF S
  <2>2. Ids \subseteq S
    BY <2>1, IdAssumption, Induction
  <2> QED BY <2>2 DEF S
<1> QED BY <1>1, <1>5, <1>6

\* What a conversation consists of.
LEMMA ConvoFacts ==
  ASSUME NEW p, Links(p)
  PROVE  \A i \in Ids :
           /\ Convo(p, i) \in Seq(Ids) /\ Convo(p, i) # <<>> /\ Last(Convo(p, i)) = i
           /\ i \in ToSet(Convo(p, i)) /\ \A j \in ToSet(Convo(p, i)) : j <= i
           /\ Distinct(Convo(p, i))
           /\ ToSet(Convo(p, i)) = {i} \cup (IF p[i] = None THEN {} ELSE ToSet(Convo(p, p[i])))
<1> DEFINE Fine(i) == /\ Convo(p, i) # <<>> /\ Last(Convo(p, i)) = i
                      /\ i \in ToSet(Convo(p, i)) /\ \A j \in ToSet(Convo(p, i)) : j <= i
                      /\ Distinct(Convo(p, i))
                      /\ ToSet(Convo(p, i)) = {i} \cup (IF p[i] = None THEN {} ELSE ToSet(Convo(p, p[i])))
           S == {i \in Ids : Fine(i)}
<1>1. \A i \in Ids : /\ Convo(p, i) \in Seq(Ids)
                     /\ Convo(p, i) = IF p[i] = None THEN <<i>> ELSE Append(Convo(p, p[i]), i)
  BY ConvoDef
<1>2. ASSUME NEW i \in Ids, \A j \in Ids : j < i => j \in S
      PROVE  i \in S
  <2>0. i \in Nat
    BY IdAssumption
  <2>1. CASE p[i] = None
    <3>1. Convo(p, i) = <<i>>
      BY <1>1, <2>1
    <3>2. Convo(p, i) # <<>>
      BY <3>1
    <3> QED BY <2>0, <2>1, <3>1, <3>2, SingleFacts
  <2>2. CASE p[i] # None
    <3> DEFINE j == p[i]
               u == Convo(p, j)
    <3>1. j \in Ids /\ j < i /\ j \in Nat
      BY <2>2, IdAssumption DEF Links
    <3>2. Fine(j)
      BY <1>2, <3>1
    <3>3. u \in Seq(Ids) /\ Convo(p, i) = Append(u, i)
      BY <1>1, <2>2, <3>1
    <3>4. \A k \in ToSet(u) : k \in Nat /\ k <= j
      BY <3>2, <3>3, SetFacts, IdAssumption
    <3>5. /\ Distinct(u)
          /\ ToSet(Convo(p, i)) = ToSet(u) \cup {i} /\ Last(Convo(p, i)) = i /\ Convo(p, i) # <<>>
          /\ Distinct(u) /\ i \notin ToSet(u) => Distinct(Convo(p, i))
      <4> HIDE DEF u
      <4>1. Append(u, i) # <<>>
        BY <3>3
      <4>2. /\ ToSet(Append(u, i)) = ToSet(u) \cup {i} /\ Last(Append(u, i)) = i
            /\ Distinct(u) /\ i \notin ToSet(u) => Distinct(Append(u, i))
        BY <3>3, AppendFacts
      <4>3. Distinct(u)
        BY <3>2 DEF u
      <4> QED BY <3>3, <4>1, <4>2, <4>3
    <3>6. \A k \in ToSet(u) : k <= i /\ k # i
      BY <2>0, <3>1, <3>4
    <3> HIDE DEF u
    <3>7. i <= i
      BY <2>0
    <3> QED BY <2>2, <3>5, <3>6, <3>7 DEF u
  <2> QED BY <2>1, <2>2
<1> HIDE DEF S
<1>3. Ids \subseteq S
  BY <1>2, IdAssumption, Induction
<1> QED BY <1>1, <1>3 DEF S

\* It is among the ids that the links lead to,
LEMMA ConvoWithin ==
  ASSUME NEW p, Links(p), NEW U, \A i \in Ids : p[i] # None => p[i] \in U
  PROVE  \A i \in Ids : i \in U => ToSet(Convo(p, i)) \subseteq U /\ Convo(p, i) \in Seq(U)
<1> DEFINE S == {i \in Ids : i \in U => ToSet(Convo(p, i)) \subseteq U}
<1>1. ASSUME NEW i \in Ids, \A j \in Ids : j < i => j \in S
      PROVE  i \in S
  <2>1. p[i] # None => p[i] \in Ids /\ p[i] < i /\ p[i] \in S /\ p[i] \in U
    BY <1>1 DEF Links
  <2>2. ToSet(Convo(p, i)) = {i} \cup (IF p[i] = None THEN {} ELSE ToSet(Convo(p, p[i])))
    BY ConvoFacts
  <2> QED BY <2>1, <2>2
<1> HIDE DEF S
<1>2. Ids \subseteq S
  BY <1>1, IdAssumption, Induction
<1>3. \A i \in Ids : Convo(p, i) \in Seq(Ids)
  BY ConvoFacts
<1>4. ASSUME NEW i \in Ids, i \in U
      PROVE  ToSet(Convo(p, i)) \subseteq U /\ Convo(p, i) \in Seq(U)
  <2> DEFINE c == Convo(p, i)
  <2>1. ToSet(c) \subseteq U /\ c \in Seq(Ids)
    BY <1>2, <1>3, <1>4 DEF S
  <2> HIDE DEF c
  <2>2. c \in Seq(U)
    BY <2>1, SetFacts
  <2> QED BY <2>1, <2>2 DEF c
<1> QED BY <1>4

\* and it is not changed by a link of what comes later.
LEMMA ConvoSame ==
  ASSUME NEW p, NEW r, Links(p), Links(r), NEW n, \A i \in Ids : i < n => p[i] = r[i], n \in Nat
  PROVE  \A i \in Ids : i < n => Convo(p, i) = Convo(r, i)
<1> DEFINE S == {i \in Ids : i < n => Convo(p, i) = Convo(r, i)}
<1>1. ASSUME NEW i \in Ids, \A j \in Ids : j < i => j \in S
      PROVE  i \in S
  <2> SUFFICES ASSUME i < n
               PROVE  Convo(p, i) = Convo(r, i)
    OBVIOUS
  <2>1. /\ Convo(p, i) = IF p[i] = None THEN <<i>> ELSE Append(Convo(p, p[i]), i)
        /\ Convo(r, i) = IF r[i] = None THEN <<i>> ELSE Append(Convo(r, r[i]), i)
    BY ConvoDef
  <2>2. p[i] = r[i]
    OBVIOUS
  <2>3. p[i] # None => Convo(p, p[i]) = Convo(r, p[i])
    <3> SUFFICES ASSUME p[i] # None
                 PROVE  Convo(p, p[i]) = Convo(r, p[i])
      OBVIOUS
    <3>1. p[i] \in Ids /\ p[i] < i
      BY DEF Links
    <3>2. p[i] \in Nat /\ i \in Nat
      BY <3>1, IdAssumption
    <3>3. p[i] < n
      BY <3>1, <3>2
    <3> QED BY <1>1, <3>1, <3>3
  <2> QED BY <2>1, <2>2, <2>3
<1> HIDE DEF S
<1>2. Ids \subseteq S
  BY <1>1, IdAssumption, Induction
<1> QED BY <1>2 DEF S

-----------------------------------------------------------------------------
(* The walk through the entries.                                            *)

\* The walk goes on where the parent is an entry.
LEMMA SegmentDef ==
  ASSUME NEW st, Linked(st)
  PROVE  \A i \in ToSet(st.entries) : 
           /\ Segment(st, i) \in Seq(Ids)
           /\ Segment(st, i) = IF st.parent[i] \in ToSet(st.entries)
                               THEN <<i>> \o Segment(st, st.parent[i]) ELSE <<i>>
<1> DEFINE E == ToSet(st.entries)
           Is(walk) == walk = [i \in Ids |-> <<i>> \o (IF st.parent[i] \in ToSet(st.entries)
                                                     THEN walk[st.parent[i]] ELSE <<>>)]
           W == CHOOSE walk : Is(walk)
<1>1. \A i \in E : Segment(st, i) = W[i]
  BY DEF Segment
<1>2. E \subseteq Ids
  BY DEF Linked, Links, ToSet
<1> HIDE DEF E
<1>3. \E f \in [Ids -> Seq(Ids)] : Is(f)
  <2> DEFINE R == {i \in Ids : st.parent[i] \notin E}
             base == [i \in Ids |-> <<i>>]
             step == [p \in Ids \X Seq(Ids) |-> <<p[1]>> \o p[2]]
  <2>1. Ids \in SUBSET Nat /\ base \in [Ids -> Seq(Ids)]
    BY IdAssumption
  <2>2. step \in [Ids \X Seq(Ids) -> Seq(Ids)]
    OBVIOUS
  <2>3. \A i \in Ids \ R : st.parent[i] \in Ids /\ st.parent[i] < i
    BY <1>2, IdAssumption DEF Linked, Links
  <2> HIDE DEF step, base, R
  <2>4. PICK f \in [Ids -> Seq(Ids)] : Obeys(f, Ids, R, st.parent, base, step)
    BY <2>1, <2>2, <2>3, Recursion
  <2>5. ASSUME NEW i \in Ids
        PROVE  f[i] = <<i>> \o (IF st.parent[i] \in E THEN f[st.parent[i]] ELSE <<>>)
    <3>1. CASE i \in R
      <4>1. f[i] = <<i>> /\ st.parent[i] \notin E
        BY <2>4, <3>1 DEF Obeys, base, R
      <4> QED BY <4>1
    <3>2. CASE i \notin R
      <4>1. f[i] = step[<<i, f[st.parent[i]]>>] /\ st.parent[i] \in E
        BY <2>4, <3>2 DEF Obeys, R
      <4>2. st.parent[i] \in Ids /\ f[st.parent[i]] \in Seq(Ids)
        BY <2>3, <3>2 DEF R
      <4>3. step[<<i, f[st.parent[i]]>>] = <<i>> \o f[st.parent[i]]
        BY <4>2 DEF step
      <4> QED BY <4>1, <4>3
    <3> QED BY <3>1, <3>2
  <2> QED BY <2>5 DEF E
<1>4. Is(W)
  <2>1. PICK f : Is(f)
    BY <1>3
  <2> QED BY <2>1
<1> HIDE DEF W
<1>5. \A i \in Ids : W[i] = <<i>> \o (IF st.parent[i] \in E THEN W[st.parent[i]] ELSE <<>>)
  BY <1>4 DEF E
<1>6. \A i \in Ids : W[i] \in Seq(Ids)
  <2> DEFINE S == {i \in Ids : W[i] \in Seq(Ids)}
  <2>1. ASSUME NEW i \in Ids, \A j \in Ids : j < i => j \in S
        PROVE  i \in S
    <3>1. st.parent[i] \in E => W[st.parent[i]] \in Seq(Ids)
      BY <1>2, <2>1, IdAssumption DEF Linked, Links
    <3>2. (W[i] = <<i>> \o W[st.parent[i]] /\ st.parent[i] \in E) \/ W[i] = <<i>> \o <<>>
      BY <1>5, Zenon
    <3>3. <<i>> \in Seq(Ids) /\ <<>> \in Seq(Ids)
      OBVIOUS
    <3>5. \A v \in Seq(Ids) : <<i>> \o v \in Seq(Ids)
      BY <3>3
    <3>4. W[i] \in Seq(Ids)
      BY <3>1, <3>2, <3>3, <3>5, Zenon
    <3> QED BY <3>4
  <2> HIDE DEF S
  <2>2. Ids \subseteq S
    BY <2>1, IdAssumption, Induction
  <2> QED BY <2>2 DEF S
<1>7. SUFFICES ASSUME NEW i \in E
               PROVE  /\ Segment(st, i) \in Seq(Ids)
                      /\ Segment(st, i) = IF st.parent[i] \in E THEN <<i>> \o Segment(st, st.parent[i]) ELSE <<i>>
  BY DEF E
<1>8. Segment(st, i) = W[i] /\ W[i] \in Seq(Ids)
  BY <1>1, <1>2, <1>6
<1>9. CASE st.parent[i] \in E
  BY <1>1, <1>2, <1>5, <1>8, <1>9
<1>10. CASE st.parent[i] \notin E
  <2>1. W[i] = <<i>> \o <<>>
    BY <1>2, <1>5, <1>10, Zenon
  <2>2. <<i>> \o <<>> = <<i>>
    OBVIOUS
  <2> QED BY <1>8, <1>10, <2>1, <2>2
<1> QED BY <1>8, <1>9, <1>10

Entries(st) == ToSet(st.entries)

\* Two ways to write a sequence with one more element after the second of its halves,
Longer(s, t, x) == Append(s \o t, x)
Joined(s, t, x) == s \o Append(t, x)

\* and that they agree.
LEMMA AppendConcat ==
  ASSUME NEW T, NEW s \in Seq(T), NEW t \in Seq(T), NEW x \in T
  PROVE  Longer(s, t, x) = Joined(s, t, x)
<1> DEFINE u == Append(s \o t, x)
           v == s \o Append(t, x)
<1>1. /\ Len(s) \in Nat /\ Len(t) \in Nat
      /\ u \in Seq(T) /\ v \in Seq(T)
      /\ Len(u) = (Len(s) + Len(t)) + 1 /\ Len(v) = Len(s) + (Len(t) + 1)
  OBVIOUS
<1>2. ASSUME NEW n \in 1 .. Len(s)
      PROVE  u[n] = s[n] /\ v[n] = s[n]
  OBVIOUS
<1>3. ASSUME NEW n \in 1 .. Len(t)
      PROVE  u[Len(s) + n] = t[n] /\ v[Len(s) + n] = t[n]
  OBVIOUS
<1>4. u[Len(u)] = x /\ v[Len(u)] = x
  OBVIOUS
<1> HIDE DEF u, v
<1>5. ASSUME NEW n \in 1 .. Len(u)
      PROVE  u[n] = v[n]
  <2>1. n \in 1 .. Len(s) \/ n = Len(u) \/ (n - Len(s) \in 1 .. Len(t) /\ n = Len(s) + (n - Len(s)))
    <3>1. \A a, b \in Nat : \A k \in 1 .. (a + b) + 1 :
            k \in 1 .. a \/ k = (a + b) + 1 \/ (k - a \in 1 .. b /\ k = a + (k - a))
      OBVIOUS
    <3> QED BY <1>1, <3>1
  <2> QED BY <1>2, <1>3, <1>4, <2>1
<1>6. u \in [1 .. Len(u) -> T] /\ v \in [1 .. Len(u) -> T]
  BY <1>1
<1>7. u = v
  BY <1>5, <1>6
<1> QED BY <1>7 DEF u, v, Longer, Joined

\* The walk from an entry up to the oldest.
Walked(st, i, seg) ==
  /\ seg \in Seq(Ids) /\ seg # <<>> /\ i \in ToSet(seg) /\ ToSet(seg) \subseteq Entries(st)
  /\ \A j \in ToSet(seg) : j <= i
  /\ Distinct(seg)
  /\ Last(seg) \in ToSet(seg) /\ st.parent[Last(seg)] \notin Entries(st)
  /\ \A j \in ToSet(seg) : j # Last(seg) => st.parent[j] \in Entries(st)
  /\ Convo(st.parent, i) = IF st.parent[Last(seg)] = None THEN Reverse(seg)
                           ELSE Convo(st.parent, st.parent[Last(seg)]) \o Reverse(seg)

\* The walk goes on from the parent,
LEMMA WalkedOn ==
  ASSUME NEW st, Linked(st), NEW i \in Entries(st), st.parent[i] \in Entries(st),
         NEW t, Walked(st, st.parent[i], t)
  PROVE  Walked(st, i, <<i>> \o t)
<1> DEFINE j == st.parent[i]
           r == Last(t)
           seg == <<i>> \o t
<1>1. /\ i \in Ids /\ j \in Ids /\ j # None /\ j < i /\ i \in Nat /\ j \in Nat
      /\ st.entries \in Seq(Ids) /\ Entries(st) \subseteq Ids
  BY IdAssumption, SetFacts DEF Linked, Links, Entries
<1>2. t \in Seq(Ids) /\ t # <<>> /\ r \in ToSet(t) /\ r \in Ids /\ ToSet(t) \subseteq Ids
  BY SetFacts DEF Walked
<1>3. <<i>> \in Seq(Ids) /\ ToSet(<<i>>) = {i} /\ Distinct(<<i>>)
  BY <1>1, SingleFacts
<1>4. i \notin ToSet(t) /\ \A k \in ToSet(t) : k <= i
  <2>1. \A k \in ToSet(t) : k \in Nat /\ k <= j
    BY <1>2, IdAssumption DEF Walked
  <2> QED BY <1>1, <2>1
<1>5. seg \in Seq(Ids) /\ Len(seg) = Len(<<i>>) + Len(t) /\ ToSet(seg) = {i} \cup ToSet(t) /\ Distinct(seg)
  <2>1. Distinct(t) /\ ToSet(<<i>>) \cap ToSet(t) = {}
    BY <1>3, <1>4 DEF Walked
  <2> HIDE DEF seg
  <2>2. \A u \in Seq(Ids) : Distinct(u) /\ Distinct(t) /\ ToSet(u) \cap ToSet(t) = {} => Distinct(u \o t)
    BY <1>2, ConcatFacts
  <2>3. \A u \in Seq(Ids) : /\ u \o t \in Seq(Ids) /\ Len(u \o t) = Len(u) + Len(t)
                            /\ ToSet(u \o t) = ToSet(u) \cup ToSet(t)
    BY <1>2, ConcatFacts
  <2> QED BY <1>3, <2>1, <2>2, <2>3 DEF seg
<1>6. Last(seg) = r /\ seg # <<>>
  <2>1. Last(seg) = r
    BY <1>1, <1>2, LastFacts
  <2>2. Len(seg) = 1 + Len(t)
    BY <1>1, <1>2
  <2> QED BY <1>2, <2>1, <2>2, EmptyFacts
<1>7. Reverse(seg) = Append(Reverse(t), i) /\ Reverse(t) \in Seq(Ids)
  BY <1>1, <1>2, ReverseFacts
<1>8. Convo(st.parent, i) = Append(Convo(st.parent, j), i)
  BY <1>1, ConvoDef DEF Linked
<1>9. Convo(st.parent, i) = IF st.parent[r] = None THEN Reverse(seg)
                            ELSE Convo(st.parent, st.parent[r]) \o Reverse(seg)
  <2>1. CASE st.parent[r] = None
    BY <1>7, <1>8, <2>1 DEF Walked
  <2>2. CASE st.parent[r] # None
    <3> DEFINE c == Convo(st.parent, st.parent[r])
    <3>1. c \in Seq(Ids)
      BY <1>2, <2>2, ConvoDef DEF Linked, Links
    <3>2. Convo(st.parent, j) = c \o Reverse(t)
      BY <2>2 DEF Walked
    <3> HIDE DEF c
    <3>3. Append(c \o Reverse(t), i) = c \o Append(Reverse(t), i)
      <4> DEFINE z == Reverse(t)
      <4>1. z \in Seq(Ids)
        BY <1>7
      <4> HIDE DEF z
      <4>2. i \in Ids
        BY <1>1
      <4>3. Longer(c, z, i) = Joined(c, z, i)
        BY <3>1, <4>1, <4>2, AppendConcat
      <4> QED BY <4>3 DEF z, Longer, Joined
    <3> QED BY <1>7, <1>8, <2>2, <3>2, <3>3 DEF c
  <2> QED BY <2>1, <2>2
<1> HIDE DEF seg
<1>10. /\ i \in ToSet(seg) /\ ToSet(seg) \subseteq Entries(st) /\ \A k \in ToSet(seg) : k <= i
       /\ r \in ToSet(seg) /\ st.parent[r] \notin Entries(st)
       /\ \A k \in ToSet(seg) : k # r => st.parent[k] \in Entries(st)
  <2>1. i <= i
    BY <1>1
  <2> QED BY <1>2, <1>4, <1>5, <2>1 DEF Walked
<1> QED BY <1>5, <1>6, <1>9, <1>10 DEF Walked, seg

\* or ends,
LEMMA WalkedOne ==
  ASSUME NEW st, Linked(st), NEW i \in Entries(st), st.parent[i] \notin Entries(st)
  PROVE  Walked(st, i, <<i>>)
<1>1. i \in Ids /\ i \in Nat /\ st.parent[i] \in Ids \cup {None}
  BY IdAssumption, SetFacts DEF Linked, Links, Entries
<1>2. /\ <<i>> \in Seq(Ids) /\ ToSet(<<i>>) = {i} /\ Distinct(<<i>>) /\ Last(<<i>>) = i /\ <<i>> # <<>>
      /\ Reverse(<<i>>) = <<i>> /\ i <= i
  BY <1>1, SingleFacts
<1>3. Convo(st.parent, i) = IF st.parent[i] = None THEN <<i>>
                            ELSE Convo(st.parent, st.parent[i]) \o <<i>>
  <2>1. Convo(st.parent, i) = IF st.parent[i] = None THEN <<i>> ELSE Append(Convo(st.parent, st.parent[i]), i)
    BY <1>1, ConvoDef DEF Linked
  <2>2. st.parent[i] # None => Convo(st.parent, st.parent[i]) \in Seq(Ids)
    BY <1>1, ConvoDef DEF Linked
  <2>3. \A u \in Seq(Ids) : Append(u, i) = u \o <<i>>
    BY <1>1, AppendIs
  <2> QED BY <2>1, <2>2, <2>3
<1> QED BY <1>2, <1>3 DEF Walked

\* and so Segment walks from every entry.
LEMMA SegmentFacts ==
  ASSUME NEW st, Linked(st)
  PROVE  \A i \in Entries(st) : Walked(st, i, Segment(st, i))
<1> DEFINE S == {i \in Ids : i \in Entries(st) => Walked(st, i, Segment(st, i))}
<1>0. Entries(st) \subseteq Ids
  BY SetFacts DEF Linked, Entries
<1>1. ASSUME NEW i \in Ids, \A j \in Ids : j < i => j \in S
      PROVE  i \in S
  <2> SUFFICES ASSUME i \in Entries(st)
               PROVE  Walked(st, i, Segment(st, i))
    OBVIOUS
  <2>1. Segment(st, i) = IF st.parent[i] \in Entries(st) THEN <<i>> \o Segment(st, st.parent[i]) ELSE <<i>>
    BY SegmentDef DEF Entries
  <2>2. CASE st.parent[i] \in Entries(st)
    <3>1. st.parent[i] \in Ids /\ st.parent[i] < i
      BY <1>0, <2>2, IdAssumption DEF Linked, Links
    <3>2. Walked(st, st.parent[i], Segment(st, st.parent[i]))
      BY <1>1, <2>2, <3>1
    <3> QED BY <2>1, <2>2, <3>2, WalkedOn
  <2>3. CASE st.parent[i] \notin Entries(st)
    BY <2>1, <2>3, WalkedOne
  <2> QED BY <2>2, <2>3
<1> HIDE DEF S
<1>2. Ids \subseteq S
  BY <1>1, IdAssumption, Induction
<1> QED BY <1>0, <1>2 DEF S

-----------------------------------------------------------------------------
(* Entries and their prefixes: an entry whose parent is not one has all     *)
(* that precedes it as its prefix, and no other has a prefix.               *)

\* The parent was evicted: then the prefix is the conversation up to it.
Missing(st, i) == i \in Entries(st) /\ st.parent[i] # None /\ st.parent[i] \notin Entries(st)
Right(st, i) == st.prefix[i] = IF Missing(st, i) THEN Convo(st.parent, st.parent[i]) ELSE <<>>
\* A store, and one that is whole.
Stores == [entries : Seq(Ids), parent : [Ids -> Ids \cup {None}], prefix : [Ids -> Seq(Ids)]]
Formed(st) == st \in Stores /\ Links(st.parent) /\ Distinct(st.entries)
Whole(st) == Formed(st) /\ \A i \in Ids : Right(st, i)

LEMMA FormedFacts ==
  ASSUME NEW st, Formed(st)
  PROVE  Linked(st) /\ Entries(st) \subseteq Ids /\ None \notin Entries(st)
<1>1. st.entries \in Seq(Ids)
  BY DEF Formed, Stores
<1> QED BY <1>1, SetFacts, IdAssumption DEF Formed, Linked, Entries

\* The chain of an entry is its conversation;
LEMMA WalkFacts ==
  ASSUME NEW st, Whole(st), NEW i \in Entries(st)
  PROVE  WalkChain(st, i) = Convo(st.parent, i)
<1> DEFINE seg == Segment(st, i)
           r == Last(seg)
           prefix == IF st.parent[r] = None \/ EndsWith(st.prefix[r], st.parent[r])
                       THEN st.prefix[r]
                     ELSE IF EndsWith(st.prefix[i], st.parent[r]) THEN st.prefix[i] ELSE None
<1>1. Walked(st, i, seg)
  BY FormedFacts, SegmentFacts DEF Whole
<1>2. WalkChain(st, i) = IF seg = <<>> \/ prefix = None THEN None ELSE prefix \o Reverse(seg)
  BY DEF WalkChain
<1> HIDE DEF seg, prefix
<1>3. r \in Ids /\ r \in Entries(st) /\ st.parent[r] \notin Entries(st) /\ seg # <<>> /\ seg \in Seq(Ids)
  BY <1>1, FormedFacts DEF Walked, Whole
<1>4. Right(st, r) /\ Links(st.parent) /\ Reverse(seg) \in Seq(Ids)
  BY <1>3, ReverseFacts DEF Whole, Formed
<1>5. CASE st.parent[r] = None
  <2>1. prefix = <<>> /\ prefix # None
    BY <1>4, <1>5, EmptyFacts, ChainAssumption DEF Right, Missing, prefix
  <2>2. <<>> \o Reverse(seg) = Reverse(seg)
    BY <1>4, EmptyFacts
  <2> QED BY <1>1, <1>2, <1>3, <1>5, <2>1, <2>2 DEF Walked
<1>6. CASE st.parent[r] # None
  <2>1. st.prefix[r] = Convo(st.parent, st.parent[r])
    BY <1>3, <1>4, <1>6 DEF Right, Missing
  <2>2. st.parent[r] \in Ids
    BY <1>3, <1>4, <1>6 DEF Links
  <2>3. st.prefix[r] \in Seq(Ids) /\ EndsWith(st.prefix[r], st.parent[r])
    BY <1>4, <2>1, <2>2, ConvoFacts DEF EndsWith
  <2>4. prefix = st.prefix[r] /\ prefix # None
    BY <2>3, ChainAssumption DEF prefix
  <2> QED BY <1>1, <1>2, <1>3, <1>6, <2>1, <2>4 DEF Walked
<1> QED BY <1>5, <1>6

\* what is no entry has no chain.
LEMMA WalkNone ==
  ASSUME NEW st, NEW i, i \notin Entries(st)
  PROVE  WalkChain(st, i) = None
BY DEF WalkChain, Segment, Entries

\* What depends on a response is what continues it.
LEMMA DependsFacts ==
  ASSUME NEW st, Whole(st), NEW e \in Entries(st), NEW id
  PROVE  DependsOn(st, e, id) <=> id \in ToSet(Convo(st.parent, e))
<1> DEFINE seg == Segment(st, e)
           r == Last(seg)
<1>1. Walked(st, e, seg)
  BY FormedFacts, SegmentFacts DEF Whole
<1>2. DependsOn(st, e, id) <=> \E i \in ToSet(seg) : i = id \/ id \in ToSet(st.prefix[i])
  BY DEF DependsOn
<1> HIDE DEF seg
<1>3. /\ r \in Ids /\ r \in ToSet(seg) /\ r \in Entries(st) /\ st.parent[r] \notin Entries(st)
      /\ seg \in Seq(Ids) /\ ToSet(seg) \subseteq Ids
      /\ \A j \in ToSet(seg) : j # r => st.parent[j] \in Entries(st)
  BY <1>1, FormedFacts DEF Walked, Whole
<1>4. Reverse(seg) \in Seq(Ids) /\ ToSet(Reverse(seg)) = ToSet(seg)
  BY <1>3, ReverseFacts
<1>5. ASSUME NEW j \in ToSet(seg), j # r
      PROVE  ToSet(st.prefix[j]) = {}
  BY <1>3, <1>5, EmptyFacts DEF Whole, Right, Missing
<1>6. CASE st.parent[r] = None
  <2>1. ToSet(st.prefix[r]) = {}
    BY <1>3, <1>6, EmptyFacts DEF Whole, Right, Missing
  <2>2. Convo(st.parent, e) = Reverse(seg)
    BY <1>1, <1>6 DEF Walked
  <2>3. ToSet(Convo(st.parent, e)) = ToSet(seg)
    BY <1>4, <2>2
  <2> QED BY <1>2, <1>5, <2>1, <2>3
<1>7. CASE st.parent[r] # None
  <2> DEFINE c == Convo(st.parent, st.parent[r])
  <2>1. st.prefix[r] = c
    BY <1>3, <1>7 DEF Whole, Right, Missing
  <2>2. c \in Seq(Ids)
    BY <1>3, <1>7, ConvoFacts DEF Whole, Formed, Links
  <2>3. Convo(st.parent, e) = c \o Reverse(seg)
    BY <1>1, <1>7 DEF Walked
  <2> HIDE DEF c
  <2>4. ToSet(Convo(st.parent, e)) = ToSet(c) \cup ToSet(seg)
    BY <1>4, <2>2, <2>3, ConcatFacts
  <2> QED BY <1>2, <1>3, <1>5, <2>1, <2>4
<1> QED BY <1>6, <1>7

\* Only the order of the entries changes.
LEMMA Resorted ==
  ASSUME NEW st, Whole(st), NEW e \in Seq(Ids), Distinct(e), ToSet(e) = Entries(st)
  PROVE  LET new == [st EXCEPT !.entries = e]
         IN  /\ Whole(new) /\ new.parent = st.parent
             /\ Entries(new) = Entries(st) /\ Len(new.entries) = Len(st.entries)
<1> DEFINE new == [st EXCEPT !.entries = e]
<1>1. st \in Stores /\ st.entries \in Seq(Ids) /\ Distinct(st.entries)
  BY DEF Whole, Formed, Stores
<1>2. /\ new \in Stores /\ new.entries = e /\ new.parent = st.parent /\ new.prefix = st.prefix
  BY <1>1 DEF Stores
<1> HIDE DEF new
<1>3. Entries(new) = Entries(st)
  BY <1>2 DEF Entries
<1>4. \A i \in Ids : Right(new, i)
  BY <1>2, <1>3 DEF Whole, Right, Missing
<1>5. Len(e) = Len(st.entries)
  BY <1>1, DistinctLength DEF Entries
<1> QED BY <1>2, <1>3, <1>4, <1>5 DEF Whole, Formed, new

\* Touch.
LEMMA TouchFacts ==
  ASSUME NEW st, Whole(st), NEW ids \in Seq(Ids), Distinct(ids), ToSet(ids) \subseteq Entries(st)
  PROVE  LET new == Touch(st, ids)
         IN  /\ Whole(new) /\ new.parent = st.parent
             /\ Entries(new) = Entries(st) /\ Len(new.entries) = Len(st.entries)
<1> DEFINE rest == Without(st.entries, ToSet(ids))
<1>1. st \in Stores /\ st.entries \in Seq(Ids) /\ Distinct(st.entries)
  BY DEF Whole, Formed, Stores
<1>2. rest \in Seq(Ids) /\ ToSet(rest) = ToSet(st.entries) \ ToSet(ids) /\ Distinct(rest)
  BY <1>1, WithoutFacts
<1>3. Touch(st, ids) = [st EXCEPT !.entries = ids \o rest]
  BY <1>1 DEF Touch
<1> HIDE DEF rest
<1>4. ids \o rest \in Seq(Ids) /\ ToSet(ids \o rest) = ToSet(ids) \cup ToSet(rest)
      /\ (ToSet(ids) \cap ToSet(rest) = {} => Distinct(ids \o rest))
  BY <1>2, ConcatFacts
<1>5. Distinct(ids \o rest) /\ ToSet(ids \o rest) = Entries(st)
  BY <1>2, <1>4 DEF Entries
<1> DEFINE e == ids \o rest
<1>6. e \in Seq(Ids) /\ Distinct(e) /\ ToSet(e) = Entries(st) /\ Touch(st, ids) = [st EXCEPT !.entries = e]
  BY <1>3, <1>4, <1>5
<1> HIDE DEF e
<1> QED BY <1>6, Resorted

\* Touching what was walked, or an entry.
LEMMA TouchWalk ==
  ASSUME NEW st, Whole(st), NEW i \in Entries(st), NEW new,
         new = Touch(st, Segment(st, i)) \/ new = Touch(st, <<i>>)
  PROVE  /\ Whole(new) /\ new.parent = st.parent
         /\ Entries(new) = Entries(st) /\ Len(new.entries) = Len(st.entries)
<1>1. Walked(st, i, Segment(st, i)) /\ i \in Ids
  BY FormedFacts, SegmentFacts DEF Whole
<1>2. <<i>> \in Seq(Ids) /\ Distinct(<<i>>) /\ ToSet(<<i>>) = {i}
  BY <1>1, SingleFacts
<1>3. PICK ids \in Seq(Ids) : new = Touch(st, ids) /\ Distinct(ids) /\ ToSet(ids) \subseteq Entries(st)
  BY <1>1, <1>2 DEF Walked
<1> QED BY <1>3, TouchFacts

\* CompactAndErase: the children of the root get what precedes them as their prefix.
LEMMA CompactFacts ==
  ASSUME NEW st, Formed(st), NEW root \in Entries(st), st.parent[root] \notin Entries(st), Right(st, root),
         NEW new, new = CompactAndErase(st, root)
  PROVE  /\ Formed(new) /\ new.parent = st.parent
         /\ Entries(new) = Entries(st) \ {root} /\ Len(new.entries) + 1 = Len(st.entries)
         /\ \A i \in Ids : Right(st, i) => Right(new, i)
         /\ \A i \in Ids : i # root /\ st.parent[i] # root => new.prefix[i] = st.prefix[i]
<1> DEFINE left == Without(st.entries, {root})
           whole == st.parent[root] = None \/ st.prefix[root] # <<>>
           folded == st.prefix[root] \o <<root>>
           given == [i \in Ids |-> IF i = root THEN <<>>
                       ELSE IF whole /\ i \in Entries(st) /\ st.parent[i] = root THEN folded
                       ELSE st.prefix[i]]
<1>1. st \in Stores /\ st.entries \in Seq(Ids) /\ Distinct(st.entries) /\ Links(st.parent)
      /\ st.prefix \in [Ids -> Seq(Ids)] /\ root \in Ids /\ Entries(st) \subseteq Ids
  BY FormedFacts DEF Formed, Stores
<1>2. left \in Seq(Ids) /\ ToSet(left) = Entries(st) \ {root} /\ Distinct(left)
  BY <1>1, WithoutFacts DEF Entries
<1>3. new = [st EXCEPT !.entries = left, !.prefix = given]
  BY <1>1 DEF CompactAndErase, Entries
<1>4. whole /\ folded = Convo(st.parent, root) /\ folded \in Seq(Ids)
  <2>1. Convo(st.parent, root) = IF st.parent[root] = None THEN <<root>>
                                 ELSE Append(Convo(st.parent, st.parent[root]), root)
    BY <1>1, ConvoDef
  <2>2. CASE st.parent[root] = None
    <3>1. st.prefix[root] = <<>>
      BY <2>2 DEF Right, Missing
    <3>2. <<root>> \in Seq(Ids) /\ <<>> \o <<root>> = <<root>>
      BY <1>1
    <3> QED BY <2>1, <2>2, <3>1, <3>2
  <2>3. CASE st.parent[root] # None
    <3> DEFINE c == Convo(st.parent, st.parent[root])
    <3>1. st.parent[root] \in Ids
      BY <1>1, <2>3 DEF Links
    <3>2. st.prefix[root] = c /\ c \in Seq(Ids) /\ c # <<>>
      BY <1>1, <2>3, <3>1, ConvoFacts DEF Right, Missing
    <3> HIDE DEF c
    <3>3. Append(c, root) = c \o <<root>> /\ Append(c, root) \in Seq(Ids)
      BY <1>1, <3>2, AppendFacts, AppendIs
    <3> QED BY <2>1, <2>3, <3>2, <3>3 DEF c
  <2> QED BY <2>2, <2>3
<1>5. given \in [Ids -> Seq(Ids)] /\ \A i \in Ids : given[i] = IF i = root THEN <<>>
        ELSE IF i \in Entries(st) /\ st.parent[i] = root THEN Convo(st.parent, root) ELSE st.prefix[i]
  <2>1. <<>> \in Seq(Ids)
    OBVIOUS
  <2> HIDE DEF whole, folded
  <2> QED BY <1>1, <1>4, <2>1
<1> HIDE DEF left, whole, folded, given
<1>6. /\ new \in Stores /\ new.entries = left /\ new.parent = st.parent /\ new.prefix = given
      /\ Entries(new) = Entries(st) \ {root}
  BY <1>1, <1>2, <1>3, <1>5 DEF Stores, Entries
<1>7. Len(left) + 1 = Len(st.entries)
  <2>1. /\ IsFiniteSet(Entries(st)) /\ Cardinality(Entries(st)) = Len(st.entries)
        /\ Cardinality(ToSet(left)) = Len(left)
    BY <1>1, <1>2, DistinctLength DEF Entries
  <2>2. Cardinality(Entries(st) \ {root}) = Cardinality(Entries(st)) - 1
    BY <2>1, FS_RemoveElement
  <2>3. Len(left) \in Nat /\ Len(st.entries) \in Nat
    BY <1>1, <1>2
  <2> QED BY <1>2, <2>1, <2>2, <2>3
<1>8. ASSUME NEW i \in Ids, Right(st, i)
      PROVE  Right(new, i)
  <2>1. CASE i = root
    BY <1>5, <1>6, <2>1 DEF Right, Missing
  <2>2. CASE i # root /\ st.parent[i] = root
    <3>1. root # None
      BY <1>1, IdAssumption
    <3>2. CASE i \in Entries(st)
      BY <1>5, <1>6, <2>2, <3>1, <3>2 DEF Right, Missing
    <3>3. CASE i \notin Entries(st)
      BY <1>5, <1>6, <1>8, <2>2, <3>3 DEF Right, Missing
    <3> QED BY <3>2, <3>3
  <2>3. CASE i # root /\ st.parent[i] # root
    BY <1>5, <1>6, <1>8, <2>3 DEF Right, Missing
  <2> QED BY <2>1, <2>2, <2>3
<1> QED BY <1>1, <1>2, <1>5, <1>6, <1>7, <1>8 DEF Formed

\* A response is evicted after another has been inserted, which is not it.
LEMMA EvictFacts ==
  ASSUME NEW st, Formed(st), NEW n \in Entries(st), st.entries[1] = n,
         \A i \in Entries(st) : i # n => i < n,
         \A i \in Ids : i # n => Right(st, i), Len(st.entries) <= Capacity + 1,
         NEW new, new = Evict(st)
  PROVE  /\ Formed(new) /\ new.parent = st.parent
         /\ Entries(new) = Entries(st) \ Evicted(st) /\ n \in Entries(new) /\ Len(new.entries) <= Capacity
         /\ \A i \in Ids : Right(st, i) => Right(new, i)
         /\ st.parent[n] \notin Entries(st) => new.prefix[n] = st.prefix[n]
<1>0. /\ Entries(st) \subseteq Ids /\ Linked(st) /\ st.entries \in Seq(Ids) /\ Len(st.entries) \in Nat
      /\ Capacity \in Nat \ {0} /\ Distinct(st.entries)
  BY FormedFacts, CapacityAssumption DEF Formed, Linked
<1>1. CASE Len(st.entries) <= Capacity
  BY <1>1 DEF Evict, Evicted
<1>2. CASE ~(Len(st.entries) <= Capacity)
  <2> DEFINE l == Last(st.entries)
             seg == Segment(st, l)
             r == Last(seg)
  <2>1. Evicted(st) = {r}
    BY <1>2 DEF Evicted
  <2>2. new = CompactAndErase(st, r)
    BY <2>1 DEF Evict
  <2>3. l \in Entries(st) /\ l # n
    <3>1. Len(st.entries) \in 2 .. Len(st.entries) /\ 1 \in 1 .. Len(st.entries)
      BY <1>0, <1>2
    <3>2. l = st.entries[Len(st.entries)]
      BY DEF Last
    <3>3. l # n
      BY <3>1, <3>2, <1>0 DEF Distinct
    <3>4. l \in ToSet(st.entries)
      BY <3>1, <3>2 DEF ToSet
    <3> QED BY <3>3, <3>4 DEF Entries
  <2>4. Walked(st, l, seg)
    BY <1>0, <2>3, SegmentFacts
  <2> HIDE DEF seg, l
  <2>5. r \in Entries(st) /\ st.parent[r] \notin Entries(st) /\ r <= l
    BY <2>4 DEF Walked
  <2>6. r # n
    <3>1. l < n /\ l \in Nat /\ n \in Nat
      BY <1>0, <2>3, IdAssumption
    <3> QED BY <2>5, <3>1
  <2> HIDE DEF r
  <2>7. Right(st, r)
    BY <1>0, <2>5, <2>6
  <2>8. /\ Formed(new) /\ new.parent = st.parent
        /\ Entries(new) = Entries(st) \ {r} /\ Len(new.entries) + 1 = Len(st.entries)
        /\ \A i \in Ids : Right(st, i) => Right(new, i)
        /\ \A i \in Ids : i # r /\ st.parent[i] # r => new.prefix[i] = st.prefix[i]
    BY <2>2, <2>5, <2>7, CompactFacts
  <2>9. Len(new.entries) \in Nat
    BY <2>8, FormedFacts DEF Linked
  <2>10. Len(new.entries) <= Capacity
    BY <1>0, <2>8, <2>9
  <2> QED BY <1>0, <2>1, <2>5, <2>6, <2>8, <2>10
<1> QED BY <1>1, <1>2

-----------------------------------------------------------------------------
(* Insertion, repair and deletion.                                          *)

\* A new response is inserted after all the others, and continues one of them.
LEMMA InsertFacts ==
  ASSUME NEW st, Whole(st), NEW n \in Ids, n \notin Entries(st), \A i \in Entries(st) : i < n,
         NEW p \in Ids \cup {None}, p # None => p < n,
         NEW new, new = Insert(st, n, p)
  PROVE  /\ Formed(new) /\ new.parent = [st.parent EXCEPT ![n] = p]
         /\ Entries(new) = Entries(st) \cup {n} /\ new.entries[1] = n
         /\ Len(new.entries) = Len(st.entries) + 1
         /\ \A i \in Ids : i < n => Convo(new.parent, i) = Convo(st.parent, i)
         /\ Convo(new.parent, n) = IF p = None THEN <<n>> ELSE Append(Convo(st.parent, p), n)
         /\ \A i \in Ids : i # n => Right(new, i)
         /\ new.prefix[n] = <<>>
<1>1. /\ st.entries \in Seq(Ids) /\ Distinct(st.entries) /\ st.parent \in [Ids -> Ids \cup {None}]
      /\ st.prefix \in [Ids -> Seq(Ids)] /\ Links(st.parent) /\ st \in Stores /\ n \in Nat
      /\ Entries(st) \subseteq Ids
  BY FormedFacts, IdAssumption DEF Whole, Formed, Stores
<1> DEFINE entries == <<n>> \o st.entries
           parent == [st.parent EXCEPT ![n] = p]
           prefix == [st.prefix EXCEPT ![n] = <<>>]
<1>2. new.entries = entries /\ new.parent = parent /\ new.prefix = prefix
      /\ new = [entries |-> entries, parent |-> parent, prefix |-> prefix]
  BY <1>1 DEF Insert, Stores
<1>3. /\ entries \in Seq(Ids) /\ Len(entries) = Len(st.entries) + 1 /\ entries[1] = n
      /\ ToSet(entries) = Entries(st) \cup {n} /\ Distinct(entries)
  <2>1. /\ <<n>> \in Seq(Ids) /\ Distinct(<<n>>) /\ ToSet(<<n>>) = {n} /\ Len(<<n>>) = 1
    BY SingleFacts
  <2>2. \A u \in Seq(Ids) : /\ u \o st.entries \in Seq(Ids)
                            /\ Len(u \o st.entries) = Len(u) + Len(st.entries)
                            /\ ToSet(u \o st.entries) = ToSet(u) \cup ToSet(st.entries)
                            /\ Distinct(u) /\ ToSet(u) \cap ToSet(st.entries) = {} => Distinct(u \o st.entries)
    BY <1>1, ConcatFacts
  <2>3. ToSet(<<n>>) \cap ToSet(st.entries) = {}
    BY <2>1 DEF Entries
  <2>4. entries[1] = n
    BY <1>1
  <2>5. Len(st.entries) \in Nat
    BY <1>1
  <2> HIDE DEF entries
  <2>6. /\ entries \in Seq(Ids) /\ Len(entries) = 1 + Len(st.entries)
        /\ ToSet(entries) = {n} \cup ToSet(st.entries) /\ Distinct(entries)
    BY <2>1, <2>2, <2>3 DEF entries
  <2> QED BY <2>4, <2>5, <2>6 DEF Entries
<1>4. Links(parent) /\ parent \in [Ids -> Ids \cup {None}] /\ parent[n] = p
      /\ \A i \in Ids : i # n => parent[i] = st.parent[i]
  BY <1>1 DEF Links
<1>5. prefix \in [Ids -> Seq(Ids)] /\ prefix[n] = <<>> /\ \A i \in Ids : i # n => prefix[i] = st.prefix[i]
  <2>1. <<>> \in Seq(Ids)
    OBVIOUS
  <2> QED BY <1>1, <2>1
<1> HIDE DEF entries, parent, prefix
<1>6. \A i \in Ids : i < n => Convo(parent, i) = Convo(st.parent, i)
  <2>1. \A i \in Ids : i < n => parent[i] = st.parent[i]
    BY <1>1, <1>4
  <2> QED BY <1>1, <1>4, <2>1, ConvoSame
<1>7. Convo(parent, n) = IF p = None THEN <<n>> ELSE Append(Convo(st.parent, p), n)
  <2>1. Convo(parent, n) = IF p = None THEN <<n>> ELSE Append(Convo(parent, p), n)
    BY <1>4, ConvoDef
  <2> QED BY <1>6, <2>1
<1>8. ASSUME NEW i \in Ids, i # n
      PROVE  Right(new, i)
  <2>1. Right(st, i) /\ prefix[i] = st.prefix[i] /\ parent[i] = st.parent[i]
    BY <1>4, <1>5, <1>8 DEF Whole
  <2>2. CASE i \notin Entries(st)
    <3>1. ~Missing(st, i) /\ ~Missing(new, i)
      BY <1>2, <1>3, <1>8, <2>2 DEF Missing, Entries
    <3> QED BY <1>2, <2>1, <3>1 DEF Right
  <2>3. CASE i \in Entries(st) /\ parent[i] = None
    <3>1. ~Missing(st, i) /\ ~Missing(new, i)
      BY <1>2, <2>1, <2>3 DEF Missing
    <3> QED BY <1>2, <2>1, <3>1 DEF Right
  <2>4. CASE i \in Entries(st) /\ parent[i] # None
    <3>1. parent[i] \in Ids /\ parent[i] < i /\ i < n
      BY <1>4, <2>4 DEF Links
    <3>2. parent[i] < n /\ parent[i] # n
      <4>1. parent[i] \in Nat /\ i \in Nat
        BY <3>1, IdAssumption
      <4> QED BY <1>1, <3>1, <4>1
    <3>3. Missing(st, i) <=> Missing(new, i)
      BY <1>2, <1>3, <2>1, <2>4, <3>2 DEF Missing, Entries
    <3>4. Convo(parent, parent[i]) = Convo(st.parent, parent[i])
      BY <1>6, <3>1, <3>2
    <3> QED BY <1>2, <2>1, <3>3, <3>4 DEF Right
  <2> QED BY <2>2, <2>3, <2>4
<1>9. new \in Stores
  BY <1>2, <1>3, <1>4, <1>5 DEF Stores
<1>10. Formed(new)
  BY <1>2, <1>3, <1>4, <1>9 DEF Formed
<1> QED BY <1>2, <1>3, <1>5, <1>6, <1>7, <1>8, <1>10 DEF Entries, parent

\* What was evicted during the generation is repaired from the snapshot.
LEMMA AttachFacts ==
  ASSUME NEW st, Formed(st), NEW n \in Entries(st), \A i \in Ids : i # n => Right(st, i),
         Right(st, n) \/ (st.prefix[n] = <<>> /\ st.parent[n] \notin Entries(st)),
         NEW new, NEW chain, st.parent[n] # None => chain = Convo(st.parent, st.parent[n]),
         new = AttachReplaySnapshot(st, n, chain)
  PROVE  Whole(new) /\ new.parent = st.parent /\ new.entries = st.entries
<1> DEFINE seg == Segment(st, n)
           oldest == Last(seg)
           missing == st.parent[oldest]
           upTo == {m \in 1 .. Len(chain) : chain[m] = missing}
<1>1. Walked(st, n, seg) /\ n \in Ids /\ Linked(st)
  BY FormedFacts, SegmentFacts
<1>2. new = IF missing = None \/ EndsWith(st.prefix[oldest], missing) \/ upTo = {} THEN st
            ELSE [st EXCEPT !.prefix[n] = SubSeq(chain, 1, CHOOSE m \in upTo : TRUE)]
  BY DEF AttachReplaySnapshot
<1>3. oldest \in Entries(st) /\ oldest \in Ids /\ missing \notin Entries(st)
  BY <1>1, FormedFacts DEF Walked
<1>4. CASE Right(st, n)
  <2>1. missing # None => EndsWith(st.prefix[oldest], missing)
    <3> SUFFICES ASSUME missing # None
                 PROVE  EndsWith(st.prefix[oldest], missing)
      OBVIOUS
    <3> HIDE DEF seg
    <3>1. missing \in Ids /\ Links(st.parent)
      BY <1>3 DEF Formed, Links
    <3>2. Right(st, oldest)
      BY <1>3, <1>4
    <3>3. st.prefix[oldest] = Convo(st.parent, missing)
      BY <1>3, <3>2 DEF Right, Missing
    <3> QED BY <3>1, <3>3, ConvoFacts DEF EndsWith
  <2>2. new = st
    BY <1>2, <2>1
  <2> QED BY <1>4, <2>2 DEF Whole
<1>5. CASE ~Right(st, n)
  <2>1. st.prefix[n] = <<>> /\ st.parent[n] \notin Entries(st)
    BY <1>5
  <2>2. seg = <<n>> /\ oldest = n
    <3>1. seg = <<n>>
      BY <1>1, <2>1, SegmentDef DEF Entries
    <3> QED BY <1>1, <3>1, SingleFacts
  <2> HIDE DEF seg
  <2>3. missing = st.parent[n] /\ missing # None /\ missing \in Ids /\ Links(st.parent)
    BY <1>1, <1>5, <2>1, <2>2 DEF Right, Missing, Formed, Links
  <2>4. chain = Convo(st.parent, missing) /\ chain \in Seq(Ids) /\ chain # <<>> /\ Last(chain) = missing
        /\ Distinct(chain)
    BY <2>3, ConvoFacts
  <2>5. upTo = {Len(chain)}
    <3>1. Len(chain) \in 1 .. Len(chain) /\ chain[Len(chain)] = missing
      BY <2>4 DEF Last
    <3> QED BY <2>4, <3>1 DEF Distinct
  <2>6. SubSeq(chain, 1, Len(chain)) = chain
    BY <2>4
  <2>7. ~EndsWith(st.prefix[oldest], missing)
    BY <2>1, <2>2 DEF EndsWith
  <2>8. new = [st EXCEPT !.prefix[n] = chain]
    <3> HIDE DEF upTo, missing, oldest
    <3>1. (CHOOSE m \in upTo : TRUE) = Len(chain)
      BY <2>5
    <3> QED BY <1>2, <2>3, <2>5, <2>6, <2>7, <3>1
  <2>9. st \in Stores /\ st.prefix \in [Ids -> Seq(Ids)]
    BY DEF Formed, Stores
  <2>10. /\ new \in Stores /\ new.parent = st.parent /\ new.entries = st.entries
         /\ new.prefix = [st.prefix EXCEPT ![n] = chain]
    <3> DEFINE prefix == [st.prefix EXCEPT ![n] = chain]
    <3>1. prefix \in [Ids -> Seq(Ids)]
      BY <2>4, <2>9
    <3>2. new = [st EXCEPT !.prefix = prefix]
      BY <2>8, <2>9 DEF Stores
    <3> HIDE DEF prefix
    <3>3. new \in Stores /\ new.parent = st.parent /\ new.entries = st.entries /\ new.prefix = prefix
      BY <2>9, <3>1, <3>2 DEF Stores
    <3> QED BY <3>3 DEF prefix
  <2>11. ASSUME NEW i \in Ids
         PROVE  Right(new, i)
    <3>1. Missing(new, i) <=> Missing(st, i)
      BY <2>10 DEF Missing, Entries
    <3>2. CASE i = n
      BY <1>1, <2>1, <2>3, <2>4, <2>9, <2>10, <3>1, <3>2 DEF Right, Missing
    <3>3. CASE i # n
      BY <2>9, <2>10, <3>1, <3>3 DEF Right
    <3> QED BY <3>2, <3>3
  <2> QED BY <2>10, <2>11 DEF Whole, Formed
<1> QED BY <1>4, <1>5

\* Commit.
LEMMA CommitFacts ==
  ASSUME NEW st, Whole(st), Len(st.entries) <= Capacity,
         NEW n \in Ids, n \notin Entries(st), \A i \in Entries(st) : i < n,
         NEW p \in Ids \cup {None}, p # None => p < n,
         NEW chain, chain = IF p = None THEN <<>> ELSE Convo(st.parent, p),
         NEW new, new = AttachReplaySnapshot(Evict(Insert(st, n, p)), n, chain)
  PROVE  /\ Whole(new) /\ Len(new.entries) <= Capacity
         /\ new.parent = [st.parent EXCEPT ![n] = p]
         /\ Entries(new) = (Entries(st) \cup {n}) \ Evicted(Insert(st, n, p)) /\ n \in Entries(new)
         /\ \A i \in Ids : i < n => Convo(new.parent, i) = Convo(st.parent, i)
         /\ Convo(new.parent, n) = Append(chain, n)
<1> DEFINE in == Insert(st, n, p)
           out == Evict(in)
<1>1. /\ Formed(in) /\ in.parent = [st.parent EXCEPT ![n] = p]
      /\ Entries(in) = Entries(st) \cup {n} /\ in.entries[1] = n
      /\ Len(in.entries) = Len(st.entries) + 1
      /\ \A i \in Ids : i < n => Convo(in.parent, i) = Convo(st.parent, i)
      /\ Convo(in.parent, n) = IF p = None THEN <<n>> ELSE Append(Convo(st.parent, p), n)
      /\ \A i \in Ids : i # n => Right(in, i)
      /\ in.prefix[n] = <<>>
  BY InsertFacts, SMTT(60)
<1>0. Links(st.parent) /\ st.parent \in [Ids -> Ids \cup {None}] /\ st.entries \in Seq(Ids)
      /\ Capacity \in Nat
  BY CapacityAssumption DEF Whole, Formed, Links, Stores
<1> HIDE DEF in
<1>2. Len(in.entries) <= Capacity + 1
  <2>1. Len(st.entries) \in Nat
    BY <1>0
  <2> QED BY <1>0, <1>1, <2>1
<1>3. /\ Formed(out) /\ out.parent = in.parent
      /\ Entries(out) = Entries(in) \ Evicted(in) /\ n \in Entries(out) /\ Len(out.entries) <= Capacity
      /\ \A i \in Ids : Right(in, i) => Right(out, i)
      /\ in.parent[n] \notin Entries(in) => out.prefix[n] = in.prefix[n]
  <2>1. n \in Entries(in) /\ \A i \in Entries(in) : i # n => i < n
    BY <1>1
  <2>2. Formed(in) /\ in.entries[1] = n /\ \A i \in Ids : i # n => Right(in, i)
    BY <1>1
  <2> QED BY <1>2, <2>1, <2>2, EvictFacts
<1> HIDE DEF out
<1>4. in.parent[n] = p
  BY <1>0, <1>1
<1>5. Right(out, n) \/ (out.prefix[n] = <<>> /\ out.parent[n] \notin Entries(out))
  <2>1. CASE p \in Entries(in) \/ p = None
    <3>1. Right(in, n)
      BY <1>1, <1>4, <2>1 DEF Right, Missing
    <3> QED BY <1>3, <3>1
  <2>2. CASE p \notin Entries(in)
    BY <1>1, <1>3, <1>4, <2>2
  <2> QED BY <2>1, <2>2
<1>6. out.parent[n] # None => chain = Convo(out.parent, out.parent[n])
  <2> SUFFICES ASSUME p # None
               PROVE  chain = Convo(in.parent, p)
    BY <1>3, <1>4
  <2>1. Convo(in.parent, p) = Convo(st.parent, p)
    BY <1>1
  <2> QED BY <2>1
<1>7. new = AttachReplaySnapshot(out, n, chain)
  BY DEF in, out
<1>8. Whole(new) /\ new.parent = out.parent /\ new.entries = out.entries
  <2>1. \A i \in Ids : i # n => Right(out, i)
    BY <1>1, <1>3
  <2> QED BY <1>3, <1>5, <1>6, <1>7, <2>1, AttachFacts
<1>9. Convo(in.parent, n) = Append(chain, n)
  <2>1. Append(<<>>, n) = <<n>>
    OBVIOUS
  <2>2. CASE p = None
    BY <1>1, <2>1, <2>2, Zenon
  <2>3. CASE p # None
    BY <1>1, <2>3, Zenon
  <2> QED BY <2>2, <2>3
<1>10. Entries(new) = Entries(out)
  BY <1>8 DEF Entries
<1> QED BY <1>1, <1>3, <1>8, <1>9, <1>10 DEF in

\* DeleteWithDependents.
LEMMA EraseFacts ==
  ASSUME NEW st, Whole(st), NEW id \in Ids, NEW new, new = Erase(st, DeletedIds(st, id))
  PROVE  /\ Whole(new) /\ new.parent = st.parent /\ Len(new.entries) <= Len(st.entries)
         /\ Entries(new) = Entries(st) \ DeletedIds(st, id)
         /\ \A e \in Entries(new) : id \notin ToSet(Convo(st.parent, e))
<1> DEFINE D == {e \in Entries(st) : id \in ToSet(Convo(st.parent, e))}
           ids == DeletedIds(st, id)
           left == Without(st.entries, ids)
           prefix == [i \in Ids |-> IF i \in ids THEN <<>> ELSE st.prefix[i]]
<1>1. /\ st.entries \in Seq(Ids) /\ Distinct(st.entries) /\ Links(st.parent) /\ st \in Stores
      /\ st.prefix \in [Ids -> Seq(Ids)] /\ Entries(st) \subseteq Ids
  BY FormedFacts DEF Whole, Formed, Stores
<1>2. ids = IF D = {} THEN {} ELSE D \cup {id}
  <2>1. {e \in Entries(st) : DependsOn(st, e, id)} = D
    BY DependsFacts
  <2> QED BY <2>1 DEF DeletedIds, Entries
<1>3. id \in Entries(st) => id \in D
  BY ConvoFacts, <1>1
<1>4. Entries(st) \ ids = Entries(st) \ D
  BY <1>2, <1>3
<1> HIDE DEF D
<1>5. left \in Seq(Ids) /\ ToSet(left) = Entries(st) \ ids /\ Distinct(left) /\ Len(left) <= Len(st.entries)
  BY <1>1, WithoutFacts DEF Entries
<1>6. prefix \in [Ids -> Seq(Ids)]
  <2>1. <<>> \in Seq(Ids)
    OBVIOUS
  <2> QED BY <1>1, <2>1
<1>7. new = [st EXCEPT !.entries = left, !.prefix = prefix]
  BY <1>1 DEF Erase
<1> HIDE DEF left, ids
<1>8. /\ new \in Stores /\ new.entries = left /\ new.parent = st.parent /\ new.prefix = prefix
  BY <1>1, <1>5, <1>6, <1>7 DEF Stores
<1>9. Entries(new) = Entries(st) \ D /\ Entries(new) = Entries(st) \ ids
  BY <1>4, <1>5, <1>8 DEF Entries
<1>10. ASSUME NEW i \in Ids
       PROVE  Right(new, i)
  <2>1. CASE i \notin Entries(new)
    <3>1. ~Missing(new, i)
      BY <2>1 DEF Missing
    <3>2. i \in ids \/ ~Missing(st, i)
      BY <1>9, <2>1 DEF Missing
    <3> QED BY <1>8, <3>1, <3>2 DEF Right, Whole
  <2>2. CASE i \in Entries(new)
    <3>1. i \in Entries(st) /\ i \notin ids /\ i \notin D
      BY <1>9, <2>2
    <3>2. st.parent[i] # None => st.parent[i] \notin D
      <4>1. st.parent[i] # None => ToSet(Convo(st.parent, st.parent[i])) \subseteq ToSet(Convo(st.parent, i))
        BY <1>1, ConvoFacts, SMTT(40)
      <4> QED BY <3>1, <4>1 DEF D
    <3>3. Missing(new, i) <=> Missing(st, i)
      BY <1>8, <1>9, <2>2, <3>1, <3>2 DEF Missing
    <3>4. new.prefix[i] = st.prefix[i] /\ Right(st, i)
      BY <1>8, <3>1 DEF Whole
    <3> QED BY <1>8, <3>3, <3>4 DEF Right
  <2> QED BY <2>1, <2>2
<1>11. Formed(new)
  BY <1>1, <1>5, <1>8 DEF Formed
<1> QED BY <1>5, <1>8, <1>9, <1>10, <1>11 DEF Whole, D, ids

-----------------------------------------------------------------------------
(* The store's steps.                                                       *)

\* What a request holds, and the invariant of the store.
Leases == [chain : Seq(Ids), invalidated : BOOLEAN]
Stored == Whole(store) /\ Len(store.entries) <= Capacity
Issued ==
  /\ published \subseteq Ids /\ Entries(store) \subseteq published /\ deleted \subseteq published
  /\ \A i \in Ids : store.parent[i] \in published \cup {None}
  /\ \A i \in published, j \in Ids \ published : i < j
  /\ previous \in [Requests -> published \cup {None}]
Before(q) == IF previous[q] = None THEN <<>> ELSE Convo(store.parent, previous[q])
Leased ==
  /\ pending \in [Requests -> Leases \cup {None}]
  /\ \A q \in Requests :
       pending[q] # None =>
         /\ pending[q].chain = Before(q)
         /\ ~pending[q].invalidated => ToSet(Before(q)) \cap deleted = {}
Clean == \A i \in Entries(store) : ToSet(Convo(store.parent, i)) \cap deleted = {}
StoreInv == Stored /\ Issued /\ Leased /\ Clean

LEMMA StoreInvInit == StoreInit => StoreInv
<1> SUFFICES ASSUME StoreInit
             PROVE  StoreInv
  OBVIOUS
<1>1. /\ store.entries = <<>> /\ store.parent = [i \in Ids |-> None]
      /\ store.prefix = [i \in Ids |-> <<>>] /\ store \in Stores /\ Links(store.parent)
  <2>1. <<>> \in Seq(Ids)
    OBVIOUS
  <2> QED BY <2>1 DEF StoreInit, Stores, Links
<1>2. Entries(store) = {} /\ Distinct(store.entries) /\ Len(store.entries) <= Capacity
  BY <1>1, EmptyFacts, CapacityAssumption DEF Entries
<1>3. Stored
  BY <1>1, <1>2 DEF Stored, Whole, Formed, Right, Missing
<1>4. Issued /\ Leased /\ Clean
  BY <1>1, <1>2 DEF StoreInit, Issued, Leased, Clean
<1> QED BY <1>3, <1>4 DEF StoreInv

\* What is touched is what was there, and the leases that are not released stay.
StoreSame ==
  /\ Whole(store') /\ store'.parent = store.parent
  /\ Entries(store') = Entries(store) /\ Len(store'.entries) = Len(store.entries)
Touched ==
  \E i \in Entries(store) : store' = Touch(store, Segment(store, i)) \/ store' = Touch(store, <<i>>)
LeasesKept ==
  /\ previous' \in [Requests -> published \cup {None}] /\ pending' \in [Requests -> Leases \cup {None}]
  /\ \A q \in Requests : pending'[q] # None => pending'[q] = pending[q] /\ previous'[q] = previous[q]

LEMMA TouchedSame ==
  ASSUME StoreInv, store' = store \/ Touched
  PROVE  StoreSame
<1>1. Whole(store)
  BY DEF StoreInv, Stored
<1>2. CASE store' = store
  BY <1>1, <1>2 DEF StoreSame
<1>3. CASE Touched
  BY <1>1, <1>3, TouchWalk DEF StoreSame, Touched
<1> QED BY <1>2, <1>3

LEMMA KeptStep ==
  ASSUME StoreInv, StoreSame, LeasesKept, UNCHANGED <<published, deleted>>
  PROVE  StoreInv'
<1> USE DEF StoreInv
<1>1. Stored'
  BY DEF Stored, StoreSame
<1>2. Issued'
  BY DEF Issued, StoreSame, LeasesKept
<1>3. Leased'
  <2>1. \A q \in Requests : pending'[q] # None => Before(q)' = Before(q)
    BY DEF Before, LeasesKept, StoreSame
  <2> QED BY <2>1 DEF Leased, LeasesKept
<1>4. Clean'
  BY DEF Clean, StoreSame
<1> QED BY <1>1, <1>2, <1>3, <1>4

\* A request that ends keeps the other leases.
LEMMA ReleasedKept ==
  ASSUME StoreInv, NEW q \in Requests, Released(q)
  PROVE  LeasesKept
BY DEF StoreInv, Issued, Leased, LeasesKept, Released

\* Nor does a lease that stays.
LEMMA UnchangedKept ==
  ASSUME StoreInv, UNCHANGED <<previous, pending>>
  PROVE  LeasesKept
BY DEF StoreInv, Issued, Leased, LeasesKept

\* What has a chain is an entry, and its chain is its conversation.
LEMMA Walkable ==
  ASSUME StoreInv, NEW i, WalkChain(store, i) # None
  PROVE  i \in Entries(store) /\ WalkChain(store, i) = Convo(store.parent, i)
BY WalkNone, WalkFacts DEF StoreInv, Stored

\* A request begins, and its lease has the conversation it continues.
LEMMA BeginStep ==
  ASSUME StoreInv, NEW q \in Requests, NEW p \in Ids \cup {None}, BeginResponse(q, p)
  PROVE  /\ StoreInv' /\ StoreSame /\ UNCHANGED <<published, deleted>>
         /\ pending' = [pending EXCEPT ![q] = pending'[q]] /\ pending'[q] # None
<1> USE DEF StoreInv
<1>1. p # None => p \in Entries(store) /\ WalkChain(store, p) = Convo(store.parent, p)
  BY Walkable DEF BeginResponse
<1> DEFINE chain == IF p = None THEN <<>> ELSE Convo(store.parent, p)
           lease == [chain |-> chain, invalidated |-> FALSE]
<1>2. previous' = [previous EXCEPT ![q] = p] /\ pending' = [pending EXCEPT ![q] = lease]
      /\ UNCHANGED <<published, deleted>>
  BY <1>1 DEF BeginResponse
<1>3. store' = store \/ Touched
  BY <1>1 DEF BeginResponse, Touched
<1>4. StoreSame
  BY <1>3, TouchedSame
<1>5. Entries(store) \subseteq published /\ published \subseteq Ids /\ Links(store.parent)
  BY DEF Issued, Stored, Whole, Formed
<1>6. chain \in Seq(Ids) /\ ToSet(chain) \cap deleted = {}
  <2>1. p # None => p \in Ids
    BY <1>1, <1>5
  <2>2. p # None => Convo(store.parent, p) \in Seq(Ids) /\ ToSet(Convo(store.parent, p)) \cap deleted = {}
    BY <1>1, <1>5, <2>1, ConvoFacts DEF Clean
  <2> QED BY <2>2, EmptyFacts
<1> HIDE DEF chain
<1>7. lease \in Leases /\ lease # None
  <2>1. lease \in Leases
    BY <1>6 DEF Leases
  <2> HIDE DEF lease
  <2> QED BY <2>1, ChainAssumption DEF Leases
<1>8. Stored' /\ Clean'
  BY <1>2, <1>4 DEF Stored, StoreSame, Clean
<1>9. Issued'
  BY <1>1, <1>2, <1>4, <1>5 DEF Issued, StoreSame
<1>10. Leased'
  <2>1. pending' \in [Requests -> Leases \cup {None}]
    BY <1>2, <1>7 DEF Leased
  <2>2. Before(q)' = chain
    BY <1>2, <1>4 DEF Before, chain, StoreSame, Issued
  <2>3. \A r \in Requests : r # q => Before(r)' = Before(r) /\ pending'[r] = pending[r]
    BY <1>2, <1>4 DEF Before, StoreSame, Issued, Leased
  <2>4. pending'[q].chain = chain /\ ToSet(chain) \cap deleted' = {}
    BY <1>2, <1>6 DEF Leased
  <2>5. ASSUME NEW r \in Requests, pending'[r] # None
        PROVE  /\ pending'[r].chain = Before(r)'
               /\ ~pending'[r].invalidated => ToSet(Before(r)') \cap deleted' = {}
    <3>1. CASE r = q
      BY <2>2, <2>4, <3>1
    <3>2. CASE r # q
      BY <1>2, <2>3, <2>5, <3>2 DEF Leased
    <3> QED BY <3>1, <3>2
  <2> QED BY <2>1, <2>5 DEF Leased
<1>11. pending' = [pending EXCEPT ![q] = pending'[q]] /\ pending'[q] # None
  BY <1>2, <1>7 DEF Leased
<1> QED BY <1>2, <1>4, <1>8, <1>9, <1>10, <1>11

\* A response is published: nothing that was deleted is in its conversation.
LEMMA CommitStep ==
  ASSUME StoreInv, NEW q \in Requests, NEW n \in Ids, Commit(q, n)
  PROVE  /\ StoreInv' /\ LeasesKept /\ Released(q)
         /\ n \notin published /\ published' = published \cup {n}
         /\ Entries(store') = (Entries(store) \cup {n}) \ Evicted(Insert(store, n, previous[q]))
         /\ n \in Entries(store')
         /\ \A i \in published : Convo(store'.parent, i) = Convo(store.parent, i)
         /\ Convo(store'.parent, n) = Append(pending[q].chain, n)
<1> USE DEF StoreInv
<1> DEFINE p == previous[q]
           chain == pending[q].chain
<1>1. /\ pending[q] # None /\ ~pending[q].invalidated /\ n \in NextId
      /\ store' = AttachReplaySnapshot(Evict(Insert(store, n, p)), n, chain)
      /\ Released(q) /\ published' = published \cup {n} /\ deleted' = deleted
  BY DEF Commit, Commits
<1>2. /\ n \notin published /\ \A j \in Ids \ published : n <= j
      /\ published \subseteq Ids /\ Entries(store) \subseteq published /\ Ids \subseteq Nat
      /\ Links(store.parent) /\ Whole(store) /\ Len(store.entries) <= Capacity
      /\ store.parent \in [Ids -> Ids \cup {None}]
  BY <1>1, IdAssumption DEF NextId, Issued, Stored, Whole, Formed, Links
<1>3. /\ p \in Ids \cup {None} /\ p \in published \cup {None}
      /\ p # None => p < n
      /\ \A i \in published : i < n
  BY <1>2 DEF Issued
<1>4. chain = IF p = None THEN <<>> ELSE Convo(store.parent, p)
  BY <1>1 DEF Leased, Before
<1>5. n \notin Entries(store) /\ \A i \in Entries(store) : i < n
  BY <1>2, <1>3
<1> HIDE DEF p, chain
<1>6. /\ Whole(store') /\ Len(store'.entries) <= Capacity
      /\ store'.parent = [store.parent EXCEPT ![n] = p]
      /\ Entries(store') = (Entries(store) \cup {n}) \ Evicted(Insert(store, n, p)) /\ n \in Entries(store')
      /\ \A i \in Ids : i < n => Convo(store'.parent, i) = Convo(store.parent, i)
      /\ Convo(store'.parent, n) = Append(chain, n)
  <2>1. store' = AttachReplaySnapshot(Evict(Insert(store, n, p)), n, chain)
    BY <1>1
  <2>2. Whole(store) /\ Len(store.entries) <= Capacity
    BY <1>2
  <2>3. p \in Ids \cup {None} /\ (p # None => p < n)
    BY <1>3
  <2> QED BY <1>4, <1>5, <2>1, <2>2, <2>3, CommitFacts, SMTT(60)
<1>7. LeasesKept
  BY <1>1, ReleasedKept
<1>8. \A i \in published : Convo(store'.parent, i) = Convo(store.parent, i)
  BY <1>2, <1>3, <1>6
<1>9. Stored'
  BY <1>6 DEF Stored
<1>10. Issued'
  <2>1. /\ published' \subseteq Ids /\ Entries(store)' \subseteq published' /\ deleted' \subseteq published'
        /\ previous' \in [Requests -> published' \cup {None}]
    BY <1>1, <1>2, <1>6, <1>7 DEF Issued, LeasesKept, Entries
  <2>2. \A i \in Ids : store'.parent[i] \in published' \cup {None}
    BY <1>1, <1>2, <1>3, <1>6 DEF Issued
  <2>3. ASSUME NEW i \in published', NEW j \in Ids \ published'
        PROVE  i < j
    <3>1. j \in Ids \ published /\ j # n /\ j \in Nat /\ n \in Nat
      BY <1>1, <1>2
    <3>2. CASE i = n
      BY <1>2, <3>1, <3>2
    <3>3. CASE i \in published
      BY <3>1, <3>3 DEF Issued
    <3> QED BY <1>1, <3>2, <3>3
  <2> QED BY <2>1, <2>2, <2>3 DEF Issued
<1>11. Leased'
  <2>1. ASSUME NEW r \in Requests, pending'[r] # None
        PROVE  Before(r)' = Before(r) /\ pending'[r] = pending[r]
    <3>1. pending'[r] = pending[r] /\ previous'[r] = previous[r] /\ previous[r] \in published \cup {None}
      BY <1>7, <2>1 DEF LeasesKept, Issued
    <3> QED BY <1>8, <3>1 DEF Before
  <2>2. pending' \in [Requests -> Leases \cup {None}]
    BY <1>7 DEF LeasesKept
  <2> QED BY <1>1, <2>1, <2>2 DEF Leased
<1>12. Clean'
  <2> SUFFICES ASSUME NEW i \in Entries(store')
               PROVE  ToSet(Convo(store'.parent, i)) \cap deleted = {}
    BY <1>1 DEF Clean, Entries
  <2>1. CASE i = n
    <3>1. ToSet(chain) \cap deleted = {}
      BY <1>1 DEF Leased, chain
    <3>2. chain \in Seq(Ids)
      BY <1>1 DEF Leased, Leases, chain
    <3>3. ToSet(Append(chain, n)) = ToSet(chain) \cup {n}
      BY <3>2, AppendFacts
    <3>4. n \notin deleted
      BY <1>2 DEF Issued
    <3> QED BY <1>6, <2>1, <3>1, <3>3, <3>4
  <2>2. CASE i # n
    <3>1. i \in Entries(store)
      BY <1>6, <2>2
    <3> QED BY <1>2, <1>8, <3>1 DEF Clean
  <2> QED BY <2>1, <2>2
<1> QED BY <1>1, <1>2, <1>6, <1>7, <1>8, <1>9, <1>10, <1>11, <1>12 DEF p, chain

\* A response is deleted with all that continues it; the leases that have it are told.
LEMMA DeleteStep ==
  ASSUME StoreInv, NEW id \in Ids, DeleteWithDependents(id)
  PROVE  /\ StoreInv' /\ store'.parent = store.parent
         /\ Entries(store') = Entries(store) \ DeletedIds(store, id)
         /\ published' = published /\ previous' = previous
         /\ \A q \in Requests : /\ pending'[q] = None <=> pending[q] = None
                                /\ pending[q] # None => pending'[q].chain = pending[q].chain
<1> USE DEF StoreInv
<1>1. /\ id \in published /\ store' = Erase(store, DeletedIds(store, id))
      /\ pending' = [q \in Requests |-> IF q \in Invalidated(id) THEN [pending[q] EXCEPT !.invalidated = TRUE]
                                        ELSE pending[q]]
      /\ deleted' = deleted \cup {id} /\ UNCHANGED <<previous, published>>
  BY DEF DeleteWithDependents
<1>2. /\ Whole(store') /\ store'.parent = store.parent /\ Len(store'.entries) <= Len(store.entries)
      /\ Entries(store') = Entries(store) \ DeletedIds(store, id)
      /\ \A e \in Entries(store') : id \notin ToSet(Convo(store.parent, e))
  BY <1>1, EraseFacts DEF Stored
<1>3. ASSUME NEW q \in Requests
      PROVE  /\ pending'[q] = None <=> pending[q] = None
             /\ pending'[q] \in Leases \cup {None}
             /\ pending[q] # None => /\ pending'[q].chain = pending[q].chain
                                     /\ ~pending'[q].invalidated =>
                                          ~pending[q].invalidated /\ id \notin ToSet(pending[q].chain)
  <2>1. pending[q] \in Leases \cup {None}
    BY DEF Leased
  <2>2. CASE q \in Invalidated(id)
    <3>1. pending[q] \in Leases /\ pending[q] # None /\ pending'[q] = [pending[q] EXCEPT !.invalidated = TRUE]
      BY <1>1, <2>1, <2>2 DEF Invalidated
    <3>2. pending'[q] \in Leases /\ pending'[q].chain = pending[q].chain /\ pending'[q].invalidated
      BY <3>1 DEF Leases
    <3>3. pending'[q] # None
      BY <3>2, ChainAssumption DEF Leases
    <3> QED BY <3>1, <3>2, <3>3
  <2>3. CASE q \notin Invalidated(id)
    <3>1. pending'[q] = pending[q]
      BY <1>1, <2>3
    <3>2. pending[q] # None => id \notin ToSet(pending[q].chain)
      BY <2>3 DEF Invalidated
    <3> QED BY <2>1, <3>1, <3>2
  <2> QED BY <2>2, <2>3
<1>4. Stored'
  <2>1. Len(store.entries) \in Nat /\ Len(store'.entries) \in Nat /\ Capacity \in Nat
    BY <1>2, FormedFacts, CapacityAssumption DEF Stored, Whole, Linked
  <2> QED BY <1>2, <2>1 DEF Stored
<1>5. Issued'
  BY <1>1, <1>2 DEF Issued, Entries
<1>6. Leased'
  <2>1. pending' \in [Requests -> Leases \cup {None}]
    BY <1>1, <1>3
  <2>2. \A q \in Requests : Before(q)' = Before(q)
    BY <1>1, <1>2 DEF Before
  <2>3. ASSUME NEW q \in Requests, pending'[q] # None
        PROVE  /\ pending'[q].chain = Before(q)'
               /\ ~pending'[q].invalidated => ToSet(Before(q)') \cap deleted' = {}
    BY <1>1, <1>3, <2>2, <2>3 DEF Leased
  <2> QED BY <2>1, <2>3 DEF Leased
<1>7. Clean'
  BY <1>1, <1>2 DEF Clean, Entries
<1> QED BY <1>1, <1>2, <1>3, <1>4, <1>5, <1>6, <1>7

LEMMA StoreInvNext == StoreInv /\ [StoreNext]_storeVars => StoreInv'
<1> SUFFICES ASSUME StoreInv, [StoreNext]_storeVars
             PROVE  StoreInv'
  OBVIOUS
<1>1. ASSUME StoreSame \/ store' = store \/ Touched, LeasesKept, UNCHANGED <<published, deleted>>
      PROVE  StoreInv'
  BY <1>1, TouchedSame, KeptStep
<1>2. CASE UNCHANGED storeVars
  BY <1>1, <1>2, UnchangedKept DEF storeVars
<1>3. ASSUME NEW q \in Requests, NEW p \in Ids \cup {None}, BeginResponse(q, p)
      PROVE  StoreInv'
  BY <1>3, BeginStep
<1>4. ASSUME NEW q \in Requests, BuildChainContext(q)
      PROVE  StoreInv'
  <2>1. Touched
    BY <1>4, Walkable DEF BuildChainContext, ChainAvailable, Touched
  <2> QED BY <1>1, <1>4, <2>1, UnchangedKept DEF BuildChainContext
<1>5. ASSUME NEW q \in Requests, ReleaseLease(q)
      PROVE  StoreInv'
  BY <1>1, <1>5, ReleasedKept DEF ReleaseLease
<1>6. ASSUME NEW q \in Requests, NEW i \in Ids, Commit(q, i)
      PROVE  StoreInv'
  BY <1>6, CommitStep
<1>7. ASSUME NEW i \in Ids, Get(i)
      PROVE  StoreInv'
  <2>1. Touched
    BY <1>7 DEF Get, Touched, Entries
  <2> QED BY <1>1, <1>7, <2>1, UnchangedKept DEF Get
<1>8. ASSUME NEW i \in Ids, DeleteWithDependents(i)
      PROVE  StoreInv'
  BY <1>8, DeleteStep
<1> QED BY <1>2, <1>3, <1>4, <1>5, <1>6, <1>7, <1>8 DEF StoreNext

LEMMA StoreInvariance == StoreSpec => []StoreInv
BY StoreInvInit, StoreInvNext, PTL DEF StoreSpec

\* Conversation, under the links of the store.
LEMMA ConvoIs == \A i : Conversation(i) = Convo(store.parent, i)
BY DEF Conversation, Convo

LEMMA InvReplayable == StoreInv => Replayable
<1> SUFFICES ASSUME StoreInv, NEW i \in ToSet(store.entries)
             PROVE  WalkChain(store, i) = Conversation(i)
  BY DEF Replayable
<1> QED BY WalkFacts, ConvoIs DEF StoreInv, Stored, Entries

LEMMA InvGone == StoreInv => DeletedStaysGone
<1> SUFFICES ASSUME StoreInv, NEW i \in Entries(store)
             PROVE  ToSet(Conversation(i) \o store.prefix[i]) \cap deleted = {}
  BY DEF DeletedStaysGone, Entries
<1> DEFINE c == Convo(store.parent, i)
           x == store.prefix[i]
<1>1. i \in Ids /\ Links(store.parent) /\ Right(store, i) /\ x \in Seq(Ids)
  BY FormedFacts DEF StoreInv, Stored, Whole, Formed, Stores
<1>2. /\ c \in Seq(Ids)
      /\ ToSet(c) = {i} \cup (IF store.parent[i] = None THEN {}
                             ELSE ToSet(Convo(store.parent, store.parent[i])))
  BY <1>1, ConvoFacts
<1>3. ToSet(x) \subseteq ToSet(c)
  BY <1>1, <1>2, EmptyFacts DEF Right, Missing
<1>4. ToSet(c) \cap deleted = {}
  BY DEF StoreInv, Clean
<1> HIDE DEF c, x
<1>5. ToSet(c \o x) = ToSet(c) \cup ToSet(x)
  BY <1>1, <1>2, ConcatFacts
<1> QED BY <1>3, <1>4, <1>5, ConvoIs DEF c, x

(***************************************************************************)
(* A retained response can be replayed in full: what capacity has evicted  *)
(* of its conversation is in the prefix of the oldest entry, also when     *)
(* that was evicted while the continuation was being generated.            *)
(***************************************************************************)
THEOREM Replays == StoreSpec => []Replayable
BY StoreInvariance, InvReplayable, PTL

(***************************************************************************)
(* No conversation of a retained response has a hop that was deleted: what *)
(* continued it was deleted with it, and a lease that had it does not      *)
(* publish.                                                                *)
(***************************************************************************)
THEOREM Deletes == StoreSpec => []DeletedStaysGone
BY StoreInvariance, InvGone, PTL

-----------------------------------------------------------------------------
(* The service's steps.                                                     *)

\* A session that generates has seen what its lease continues, a cached one what
\* leads to its response.
Served ==
  /\ pc \in [Requests -> {"idle", "leased", "missed", "running", "generated"}]
  /\ DOMAIN session = Requests
  /\ \A q \in Requests :
       /\ pc[q] = "idle" <=> pending[q] = None
       /\ session[q] = IF pc[q] \in {"running", "generated"} THEN pending[q].chain ELSE None
Cached ==
  /\ cache \in Seq(published) /\ Len(cache) <= CacheCapacity
  /\ DOMAIN transcript = Ids
  /\ \A i \in Ids : transcript[i] = IF i \in ToSet(cache) THEN Convo(store.parent, i) ELSE None
  /\ \A i \in ToSet(cache) : i \notin earlier => i \in Entries(store)
Flags ==
  /\ canceled \in [Requests -> BOOLEAN]
  /\ shutting_down \in BOOLEAN /\ accepting \in BOOLEAN
  /\ canceller \in {"nobody", "api", "http"}
  /\ cancel_all \in {"no", "requested", "cleared", "swept"}
  /\ manager \in {"up", "stopping", "shutdown", "joining", "joined", "unloaded", "cache cleared", "gone"}
  /\ restarts \in 0 .. MaxRestarts /\ earlier \subseteq published
ServiceInv == StoreInv /\ Served /\ Cached /\ Flags

LEMMA ServiceInvInit == Init => ServiceInv
<1> SUFFICES ASSUME Init
             PROVE  ServiceInv
  OBVIOUS
<1>1. StoreInv
  BY StoreInvInit DEF Init
<1>2. Served
  BY DEF Init, StoreInit, Served
<1>3. Cached
  BY EmptyFacts, ServiceAssumption DEF Init, Cached
<1>4. Flags
  <2>1. restarts \in 0 .. MaxRestarts
    BY ServiceAssumption DEF Init
  <2> QED BY <2>1 DEF Init, StoreInit, Flags
<1> QED BY <1>1, <1>2, <1>3, <1>4 DEF ServiceInv

\* The cache stays,
LEMMA CachedSame ==
  ASSUME Cached, UNCHANGED <<cache, transcript, earlier, published>>, store'.parent = store.parent,
         Entries(store) \subseteq Entries(store')
  PROVE  Cached'
BY DEF Cached, Entries

\* some of it goes,
LEMMA CachedLess ==
  ASSUME Cached, NEW K, Uncached(K), UNCHANGED <<earlier, published>>, store'.parent = store.parent,
         Entries(store) \ K \subseteq Entries(store'), StoreInv
  PROVE  Cached'
<1>1. /\ cache' = Without(cache, K)
      /\ transcript' = [i \in Ids |-> IF i \in K THEN None ELSE transcript[i]]
  BY DEF Uncached
<1>2. cache \in Seq(published) /\ Len(cache) <= CacheCapacity
  BY DEF Cached
<1>3. cache' \in Seq(published) /\ Len(cache') <= Len(cache) /\ ToSet(cache') = ToSet(cache) \ K
  BY <1>1, <1>2, WithoutFacts
<1>4. Len(cache') <= CacheCapacity
  <2>1. Len(cache) \in Nat /\ Len(cache') \in Nat /\ CacheCapacity \in Nat
    BY <1>2, <1>3, ServiceAssumption
  <2> QED BY <1>2, <1>3, <2>1
<1>5. \A i \in Ids : transcript'[i] = IF i \in ToSet(cache') THEN Convo(store'.parent, i) ELSE None
  BY <1>1, <1>3 DEF Cached
<1>6. \A i \in ToSet(cache') : i \notin earlier' => i \in Entries(store')
  BY <1>3 DEF Cached
<1> QED BY <1>1, <1>3, <1>4, <1>5, <1>6 DEF Cached, Entries

\* or all of it.
LEMMA CachedNone ==
  ASSUME AllUncached
  PROVE  Cached'
BY EmptyFacts, ServiceAssumption DEF AllUncached, Cached

\* CheckIn, with what the store has evicted.
LEMMA CachedMore ==
  ASSUME Cached, StoreInv, NEW n \in Ids, NEW evicted, NEW seen, CheckedIn(n, seen, evicted), earlier' = earlier,
         published' = published \cup {n}, Entries(store') = (Entries(store) \cup {n}) \ evicted,
         n \in Entries(store'),
         \A i \in published : Convo(store'.parent, i) = Convo(store.parent, i),
         Convo(store'.parent, n) = seen
  PROVE  Cached'
<1> DEFINE full == <<n>> \o cache
           m == IF Len(full) > CacheCapacity THEN CacheCapacity ELSE Len(full)
           cut == SubSeq(full, 1, m)
<1>1. /\ cache' = Without(cut, evicted)
      /\ transcript' = [i \in Ids |-> IF i \notin ToSet(cache') THEN None
                                      ELSE IF i = n THEN seen ELSE transcript[i]]
  BY DEF CheckedIn, Kept
<1>2. cache \in Seq(published) /\ n \in published' /\ CacheCapacity \in Nat /\ published' = published \cup {n}
      /\ ToSet(cache) \subseteq published
  BY SetFacts, ServiceAssumption DEF Cached
<1>3. full \in Seq(published') /\ ToSet(full) = {n} \cup ToSet(cache)
  <2>1. <<n>> \in Seq(published') /\ ToSet(<<n>>) = {n}
    BY <1>2, SingleFacts
  <2>2. cache \in Seq(published')
    BY <1>2, SetFacts
  <2> DEFINE one == <<n>>
  <2>3. one \in Seq(published') /\ ToSet(one) = {n}
    BY <2>1
  <2> HIDE DEF one
  <2>4. one \o cache \in Seq(published') /\ ToSet(one \o cache) = ToSet(one) \cup ToSet(cache)
    BY <2>2, <2>3, ConcatFacts
  <2> QED BY <2>3, <2>4 DEF one
<1> HIDE DEF full
<1>4. m \in Nat /\ m <= CacheCapacity /\ m <= Len(full)
  BY <1>2, <1>3
<1> HIDE DEF m
<1>5. cut \in Seq(published') /\ Len(cut) = m /\ ToSet(cut) \subseteq ToSet(full)
  <2>1. cut \in Seq(published') /\ Len(cut) = m /\ \A k \in 1 .. m : cut[k] = full[k]
    BY <1>3, <1>4
  <2>2. \A k \in 1 .. m : k \in 1 .. Len(full)
    BY <1>3, <1>4
  <2> QED BY <2>1, <2>2 DEF ToSet
<1> HIDE DEF cut
<1>6. cache' \in Seq(published') /\ Len(cache') <= m /\ ToSet(cache') = ToSet(cut) \ evicted
  BY <1>1, <1>5, WithoutFacts
<1>7. Len(cache') <= CacheCapacity
  <2>1. Len(cache') \in Nat
    BY <1>6
  <2> QED BY <1>2, <1>4, <1>6, <2>1
<1>8. ToSet(cache') \subseteq {n} \cup ToSet(cache) /\ ToSet(cache') \cap evicted = {}
  BY <1>3, <1>5, <1>6
<1>9. \A i \in Ids : transcript'[i] = IF i \in ToSet(cache') THEN Convo(store'.parent, i) ELSE None
  BY <1>1, <1>2, <1>8 DEF Cached
<1>10. \A i \in ToSet(cache') : i \notin earlier' => i \in Entries(store')
  BY <1>8 DEF Cached
<1> QED BY <1>1, <1>6, <1>7, <1>9, <1>10 DEF Cached, Entries

\* A session starts with what its lease continues, or the request ends.
LEMMA RegisterKept ==
  ASSUME ServiceInv, NEW q \in Requests, pc[q] \in {"leased", "missed"}, NEW seen, seen = pending[q].chain,
         Register(q, seen)
  PROVE  LeasesKept /\ Served' /\ canceled' \in [Requests -> BOOLEAN]
<1> USE DEF ServiceInv
<1>1. pending[q] # None
  BY DEF Served
<1>2. CASE Admits
  <2>1. /\ pc' = [pc EXCEPT ![q] = "running"] /\ session' = [session EXCEPT ![q] = seen]
        /\ UNCHANGED <<previous, pending, canceled>>
    BY <1>2 DEF Register
  <2>2. LeasesKept
    BY <2>1, UnchangedKept
  <2>3. Served'
    BY <1>1, <2>1 DEF Served
  <2> QED BY <2>1, <2>2, <2>3 DEF Flags
<1>3. CASE ~Admits
  <2>1. Released(q) /\ Leaves(q)
    BY <1>3 DEF Register
  <2>2. LeasesKept
    BY <2>1, ReleasedKept
  <2>3. Served'
    BY <2>1 DEF Served, Released, Leaves, StoreInv, Leased
  <2> QED BY <2>1, <2>2, <2>3 DEF Flags, Leaves
<1> QED BY <1>2, <1>3

\* A request ends.
LEMMA LeavesServed ==
  ASSUME ServiceInv, NEW q \in Requests, Released(q), Leaves(q)
  PROVE  LeasesKept /\ Served' /\ canceled' \in [Requests -> BOOLEAN]
<1> USE DEF ServiceInv
<1>1. LeasesKept
  BY ReleasedKept
<1>2. Served'
  BY DEF Served, Released, Leaves, StoreInv, Leased
<1> QED BY <1>1, <1>2 DEF Flags, Leaves

\* What changes neither a response nor a session's place.
LEMMA QuietStep ==
  ASSUME ServiceInv, store' = store \/ Touched, LeasesKept, UNCHANGED <<published, deleted>>,
         Served', canceled' \in [Requests -> BOOLEAN], UNCHANGED <<shutdown, lifecycle>>,
         UNCHANGED sessions \/ \E K : Uncached(K)
  PROVE  ServiceInv'
<1> USE DEF ServiceInv
<1>1. StoreSame
  BY TouchedSame
<1>2. StoreInv'
  BY <1>1, KeptStep
<1>3. Cached'
  BY <1>1, CachedSame, CachedLess DEF StoreSame, sessions, lifecycle
<1>4. Flags'
  BY DEF Flags, shutdown, lifecycle
<1> QED BY <1>2, <1>3, <1>4

\* The steps of a request,
LEMMA RequestStep ==
  ASSUME ServiceInv, NEW q \in Requests,
         \/ \E p \in Ids \cup {None} : Begin(q, p)
         \/ Proceed(q) \/ Generated(q) \/ Fails(q)
  PROVE  ServiceInv'
<1> USE DEF ServiceInv
<1>1. ASSUME NEW p \in Ids \cup {None}, Begin(q, p)
      PROVE  ServiceInv'
  <2>1. /\ StoreInv' /\ StoreSame /\ UNCHANGED <<published, deleted>>
        /\ pending' = [pending EXCEPT ![q] = pending'[q]] /\ pending'[q] # None
    BY <1>1, BeginStep DEF Begin
  <2>2. Cached'
    BY <1>1, <2>1, CachedSame DEF Begin, StoreSame, sessions, lifecycle
  <2>3. Served'
    BY <1>1, <2>1 DEF Begin, Becomes, Served, StoreInv, Leased
  <2>4. Flags'
    BY <1>1, <2>1 DEF Begin, Flags, shutdown, lifecycle
  <2> QED BY <2>1, <2>2, <2>3, <2>4
<1>2. CASE CheckOut(q)
  <2> DEFINE seen == IF previous[q] = None THEN <<>> ELSE transcript[previous[q]]
  <2>1. /\ pc[q] = "leased" /\ (previous[q] = None \/ previous[q] \in ToSet(cache))
        /\ Register(q, seen) /\ Uncached({previous[q]})
        /\ UNCHANGED <<store, published, deleted, shutdown, lifecycle>>
    BY <1>2 DEF CheckOut
  <2>2. seen = pending[q].chain
    <3>1. pending[q] # None
      BY <2>1 DEF Served
    <3>2. pending[q].chain = Before(q)
      BY <3>1 DEF StoreInv, Leased
    <3>3. previous[q] # None => previous[q] \in Ids
      BY DEF StoreInv, Issued
    <3> QED BY <2>1, <3>2, <3>3 DEF Before, Cached
  <2> HIDE DEF seen
  <2>3. LeasesKept /\ Served' /\ canceled' \in [Requests -> BOOLEAN]
    BY <2>1, <2>2, RegisterKept
  <2> QED BY <2>1, <2>3, QuietStep
<1>3. CASE CheckOutMisses(q)
  <2>1. LeasesKept
    BY <1>3, UnchangedKept DEF CheckOutMisses, storeVars
  <2>2. Served'
    BY <1>3 DEF CheckOutMisses, Becomes, Served, storeVars
  <2> QED BY <1>3, <2>1, <2>2, QuietStep DEF CheckOutMisses, storeVars, Flags
<1>4. CASE Replay(q)
  <2>1. CASE ChainAvailable(q)
    <3>1. /\ pc[q] = "missed" /\ store' = Touch(store, Segment(store, previous[q]))
          /\ Register(q, WalkChain(store, previous[q]))
          /\ UNCHANGED <<published, deleted, sessions, shutdown, lifecycle>>
      BY <1>4, <2>1 DEF Replay
    <3>2. previous[q] \in Entries(store) /\ WalkChain(store, previous[q]) = Convo(store.parent, previous[q])
      BY <2>1, Walkable DEF ChainAvailable
    <3>3. Convo(store.parent, previous[q]) = pending[q].chain
      BY <2>1, <3>1 DEF ChainAvailable, Served, StoreInv, Leased, Before
    <3>4. LeasesKept /\ Served' /\ canceled' \in [Requests -> BOOLEAN]
      BY <3>1, <3>2, <3>3, RegisterKept
    <3>5. Touched
      BY <3>1, <3>2 DEF Touched
    <3> QED BY <3>1, <3>4, <3>5, QuietStep
  <2>2. CASE ~ChainAvailable(q)
    <3>1. Released(q) /\ Leaves(q) /\ UNCHANGED <<store, published, deleted, sessions, shutdown, lifecycle>>
      BY <1>4, <2>2 DEF Replay
    <3> QED BY <3>1, LeavesServed, QuietStep
  <2> QED BY <2>1, <2>2
<1>5. CASE Generated(q)
  <2>1. LeasesKept
    BY <1>5, UnchangedKept DEF Generated, storeVars
  <2>2. Served'
    BY <1>5 DEF Generated, Becomes, Served, storeVars
  <2> QED BY <1>5, <2>1, <2>2, QuietStep DEF Generated, storeVars, Flags
<1>6. CASE Fails(q)
  BY <1>6, LeavesServed, QuietStep DEF Fails, ReleaseLease
<1>7. CASE Publish(q)
  <2>1. PICK n \in Ids : /\ Commit(q, n)
                         /\ CheckedIn(n, Append(session[q], n), Evicted(Insert(store, n, previous[q])))
    BY <1>7 DEF Publish
  <2>2. pc[q] = "generated" /\ Leaves(q) /\ UNCHANGED <<shutdown, lifecycle>>
    BY <1>7 DEF Publish
  <2>3. /\ StoreInv' /\ LeasesKept /\ Released(q)
        /\ n \notin published /\ published' = published \cup {n}
        /\ Entries(store') = (Entries(store) \cup {n}) \ Evicted(Insert(store, n, previous[q]))
        /\ n \in Entries(store')
        /\ \A i \in published : Convo(store'.parent, i) = Convo(store.parent, i)
        /\ Convo(store'.parent, n) = Append(pending[q].chain, n)
    BY <2>1, CommitStep
  <2>4. session[q] = pending[q].chain
    BY <2>2 DEF Served
  <2>5. earlier' = earlier
    BY <2>2 DEF lifecycle
  <2>6. Cached'
    BY <2>1, <2>3, <2>4, <2>5, CachedMore
  <2>7. Served' /\ canceled' \in [Requests -> BOOLEAN]
    BY <2>2, <2>3, LeavesServed
  <2>8. Flags'
    BY <2>2, <2>3, <2>7 DEF Flags, shutdown, lifecycle
  <2> QED BY <2>3, <2>6, <2>7, <2>8
<1> QED BY <1>1, <1>2, <1>3, <1>4, <1>5, <1>6, <1>7 DEF Proceed, CancellationEnds, Unpublished

\* of the other handlers,
LEMMA HandlerStep ==
  ASSUME ServiceInv, NEW i \in Ids, GetResponse(i) \/ DeleteResponse(i)
  PROVE  ServiceInv'
<1> USE DEF ServiceInv
<1>1. CASE GetResponse(i)
  <2>1. Touched /\ UNCHANGED <<previous, pending, published, deleted>>
    BY <1>1 DEF GetResponse, Get, Touched, Entries
  <2>2. LeasesKept
    BY <2>1, UnchangedKept
  <2>3. Served'
    BY <1>1, <2>1 DEF GetResponse, requests, Served
  <2> QED BY <1>1, <2>1, <2>2, <2>3, QuietStep DEF GetResponse, requests, Flags
<1>2. CASE DeleteResponse(i)
  <2>1. /\ StoreInv' /\ store'.parent = store.parent
        /\ Entries(store') = Entries(store) \ DeletedIds(store, i)
        /\ published' = published /\ previous' = previous
        /\ \A q \in Requests : /\ pending'[q] = None <=> pending[q] = None
                               /\ pending[q] # None => pending'[q].chain = pending[q].chain
    BY <1>2, DeleteStep DEF DeleteResponse
  <2>2. Uncached(DeletedIds(store, i)) /\ UNCHANGED <<requests, shutdown, lifecycle>>
    BY <1>2 DEF DeleteResponse, Dropped
  <2>3. Cached'
    BY <2>1, <2>2, CachedLess DEF lifecycle
  <2>4. Served'
    BY <2>1, <2>2 DEF requests, Served
  <2>5. Flags'
    BY <2>1, <2>2 DEF requests, shutdown, lifecycle, Flags
  <2> QED BY <2>1, <2>3, <2>4, <2>5
<1> QED BY <1>1, <1>2

\* The store of a web service dies with it; nothing that was cached is of a later one.
LEMMA GoneStep ==
  ASSUME ServiceInv, ServiceGone, manager' \in {"up", "joined"}, UNCHANGED accepting
  PROVE  ServiceInv'
<1> USE DEF ServiceInv
<1>1. /\ store' = [store EXCEPT !.entries = <<>>, !.prefix = [i \in Ids |-> <<>>]]
      /\ earlier' = published /\ \A q \in Requests : pc[q] = "idle"
      /\ UNCHANGED <<previous, pending, published, deleted, sessions, requests, shutdown, restarts>>
  BY DEF ServiceGone, ThreadsJoined
<1>2. /\ store \in Stores /\ Links(store.parent)
  BY DEF StoreInv, Stored, Whole, Formed
<1>3. /\ store'.entries = <<>> /\ store'.parent = store.parent /\ store'.prefix = [i \in Ids |-> <<>>]
      /\ store' \in Stores
  <2>1. <<>> \in Seq(Ids)
    OBVIOUS
  <2> QED BY <1>1, <1>2, <2>1 DEF Stores
<1>4. Entries(store') = {} /\ Distinct(store'.entries) /\ Len(store'.entries) <= Capacity
  BY <1>3, EmptyFacts, CapacityAssumption DEF Entries
<1>5. Stored'
  BY <1>2, <1>3, <1>4 DEF Stored, Whole, Formed, Right, Missing
<1>6. Issued' /\ Clean'
  BY <1>1, <1>3, <1>4 DEF StoreInv, Issued, Clean, Entries
<1>7. Leased'
  BY <1>1 DEF StoreInv, Leased, Served
<1>8. Cached'
  <2>1. ToSet(cache) \subseteq published
    BY SetFacts DEF Cached
  <2> QED BY <1>1, <1>3, <2>1 DEF Cached, sessions
<1>9. Served' /\ Flags'
  BY <1>1 DEF Served, Flags, requests, shutdown
<1> QED BY <1>5, <1>6, <1>7, <1>8, <1>9 DEF StoreInv

\* and of the manager.
LEMMA LifecycleStep ==
  ASSUME ServiceInv,
         \/ HttpShutdown \/ StopWebService \/ StopReturns \/ StartWebService \/ Shutdown
         \/ ManagerProceeds
  PROVE  ServiceInv'
<1> USE DEF ServiceInv
<1>1. ASSUME UNCHANGED <<storeVars, pc, session, earlier>>, UNCHANGED sessions \/ AllUncached, Flags'
      PROVE  ServiceInv'
  <2>1. StoreInv'
    BY <1>1 DEF StoreInv, Stored, Issued, Leased, Clean, Before, storeVars
  <2>2. Served'
    BY <1>1 DEF Served, storeVars
  <2>3. Cached'
    BY <1>1, CachedSame, CachedNone DEF storeVars, sessions
  <2> QED BY <1>1, <2>1, <2>2, <2>3
<1>2. CASE HttpShutdown \/ ClearCache \/ Sweep
  <2>1. Flags'
    BY <1>2 DEF HttpShutdown, ClearCache, Sweep, Flags, lifecycle, requests, storeVars
  <2> QED BY <1>1, <1>2, <2>1 DEF HttpShutdown, ClearCache, Sweep, lifecycle, requests
<1>3. CASE StopWebService \/ Shutdown \/ ShutdownStops
  <2>1. Flags'
    BY <1>3 DEF StopWebService, Shutdown, ShutdownStops, ManagerMoves, Flags, shutdown, requests, storeVars
  <2> QED BY <1>1, <1>3, <2>1 DEF StopWebService, Shutdown, ShutdownStops, requests
<1>4. CASE StartWebService
  <2>1. Flags'
    BY <1>4, ServiceAssumption DEF StartWebService, Flags, shutdown, requests, storeVars
  <2> QED BY <1>1, <1>4, <2>1 DEF StartWebService, requests
<1>5. CASE Unload \/ DestroySessionManager \/ DestroyModels
  <2>1. Flags'
    BY <1>5 DEF Unload, DestroySessionManager, DestroyModels, ManagerMoves, Flags, shutdown, requests, storeVars
  <2> QED BY <1>1, <1>5, <2>1 DEF Unload, DestroySessionManager, DestroyModels, requests
<1>6. CASE StopReturns \/ ShutdownJoined
  BY <1>6, GoneStep DEF StopReturns, ShutdownJoined, ManagerMoves
<1> QED BY <1>2, <1>3, <1>4, <1>5, <1>6 DEF ManagerProceeds

LEMMA ServiceInvNext == ServiceInv /\ [Next]_vars => ServiceInv'
<1> SUFFICES ASSUME ServiceInv, [Next]_vars
             PROVE  ServiceInv'
  OBVIOUS
<1>1. CASE UNCHANGED vars
  BY <1>1 DEF vars, storeVars, sessions, requests, shutdown, lifecycle, ServiceInv, StoreInv, Stored, Issued,
        Leased, Clean, Before, Served, Cached, Flags
<1> QED BY <1>1, RequestStep, HandlerStep, LifecycleStep DEF Next

LEMMA ServiceInvariance == Spec => []ServiceInv
BY ServiceInvInit, ServiceInvNext, PTL DEF Spec

LEMMA InvWarm == ServiceInv => WarmIsWhole
<1> SUFFICES ASSUME ServiceInv, NEW i \in ToSet(cache)
             PROVE  transcript[i] = Conversation(i) /\ (i \notin earlier => i \in ToSet(store.entries))
  BY DEF WarmIsWhole
<1>1. i \in Ids
  BY SetFacts DEF ServiceInv, Cached, StoreInv, Issued
<1> QED BY <1>1, ConvoIs DEF ServiceInv, Cached, Entries

LEMMA InvType == ServiceInv => TypeOK
<1> SUFFICES ASSUME ServiceInv
             PROVE  TypeOK
  OBVIOUS
<1> USE DEF ServiceInv
<1>1. /\ store \in Stores /\ Links(store.parent) /\ published \subseteq Ids
      /\ Entries(store) \subseteq published /\ store.entries \in Seq(Ids)
      /\ \A i \in Ids : store.parent[i] \in published \cup {None}
  BY DEF StoreInv, Stored, Issued, Whole, Formed, Stores
<1>2. \A i \in Ids : i \in published => Convo(store.parent, i) \in Seq(published)
  <2>1. \A i \in Ids : store.parent[i] # None => store.parent[i] \in published
    BY <1>1
  <2> QED BY <1>1, <2>1, ConvoWithin
<1>3. <<>> \in Seq(published)
  OBVIOUS
<1>4. \A q \in Requests : pending[q] # None =>
        pending[q].chain \in Seq(published) /\ pending[q].invalidated \in BOOLEAN
  <2> SUFFICES ASSUME NEW q \in Requests, pending[q] # None
               PROVE  pending[q].chain \in Seq(published) /\ pending[q].invalidated \in BOOLEAN
    OBVIOUS
  <2>1. pending[q].chain = Before(q) /\ pending[q].invalidated \in BOOLEAN
    BY DEF StoreInv, Leased, Leases
  <2>2. previous[q] # None => previous[q] \in published /\ previous[q] \in Ids
    BY <1>1 DEF StoreInv, Issued
  <2>3. Before(q) \in Seq(published)
    BY <1>2, <1>3, <2>2 DEF Before
  <2> QED BY <2>1, <2>3
<1>5. StoreTypeOK
  <2>1. store.entries \in Seq(published)
    BY <1>1, SetFacts DEF Entries
  <2>2. store.prefix \in [Ids -> Seq(published)]
    <3>1. store.prefix \in [Ids -> Seq(Ids)]
      BY <1>1 DEF Stores
    <3>2. ASSUME NEW i \in Ids
          PROVE  store.prefix[i] \in Seq(published)
      <4>1. Right(store, i)
        BY DEF StoreInv, Stored, Whole
      <4>2. Missing(store, i) => store.parent[i] \in published /\ store.parent[i] \in Ids
        BY <1>1 DEF Missing
      <4> QED BY <1>2, <1>3, <4>1, <4>2 DEF Right
    <3> QED BY <3>1, <3>2
  <2>3. store.parent \in [Ids -> published \cup {None}]
    BY <1>1 DEF Links
  <2> QED BY <1>1, <1>4, <2>1, <2>2, <2>3 DEF StoreTypeOK, StoreInv, Stored, Issued
<1>6. \A i \in Ids : IF i \in ToSet(cache) THEN transcript[i] \in Seq(published) ELSE transcript[i] = None
  <2>1. ToSet(cache) \subseteq published
    BY SetFacts DEF Cached
  <2> QED BY <1>2, <2>1 DEF Cached
<1>7. \A q \in Requests :
        /\ pc[q] = "idle" <=> pending[q] = None
        /\ IF pc[q] \in {"running", "generated"} THEN session[q] \in Seq(published) ELSE session[q] = None
  BY <1>4 DEF Served
<1> QED BY <1>5, <1>6, <1>7 DEF TypeOK, Served, Cached, Flags

(***************************************************************************)
(* The state of the service is well formed: an idle request has no lease,  *)
(* and only one that generates holds a session.                            *)
(***************************************************************************)
THEOREM TypeCorrect == Spec => []TypeOK
BY ServiceInvariance, InvType, PTL

(***************************************************************************)
(* A cached session has seen exactly the conversation that led to its      *)
(* response, and while its web service runs that response is stored.       *)
(***************************************************************************)
THEOREM WarmSessions == Spec => []WarmIsWhole
BY ServiceInvariance, InvWarm, PTL

-----------------------------------------------------------------------------
(* The end of the service.                                                  *)

\* Requests are taken before the service stops; none is left when it has, and none
\* puts a session into the cache after that.
Late ==
  /\ accepting => manager \in {"up", "shutdown"}
  /\ manager \in {"joined", "unloaded", "cache cleared", "gone"} => \A q \in Requests : pc[q] = "idle"
  /\ manager \in {"cache cleared", "gone"} => cache = <<>>

\* Once the threads are joined nobody is left who could cache a session.
LEMMA LateStep ==
  ASSUME Served, Late, [Next]_vars
  PROVE  Late'
<1> USE DEF Late, sessions, requests, shutdown, lifecycle, Becomes, ManagerMoves
<1>1. CASE UNCHANGED vars
  BY <1>1 DEF vars
<1>2. ASSUME NEW q \in Requests, NEW p \in Ids \cup {None}, Begin(q, p)
      PROVE  Late'
  BY <1>2 DEF Begin
<1>3. ASSUME NEW q \in Requests, Proceed(q) \/ Generated(q) \/ Fails(q)
      PROVE  Late'
  <2>1. CASE CheckOut(q) \/ CheckOutMisses(q) \/ Replay(q) \/ Publish(q) \/ Generated(q)
    <3>1. manager \notin {"joined", "unloaded", "cache cleared", "gone"} /\ UNCHANGED lifecycle
      BY <2>1 DEF CheckOut, CheckOutMisses, Replay, Publish, Generated
    <3> QED BY <3>1
  <2>2. CASE CancellationEnds(q) \/ Unpublished(q) \/ Fails(q)
    <3>1. pc' = [pc EXCEPT ![q] = "idle"] /\ UNCHANGED <<sessions, lifecycle>>
      BY <2>2 DEF CancellationEnds, Unpublished, Fails, Leaves
    <3>2. \A r \in Requests : pc[r] = "idle" => pc'[r] = "idle"
      BY <3>1 DEF Served
    <3> QED BY <3>1, <3>2
  <2> QED BY <1>3, <2>1, <2>2 DEF Proceed
<1>4. ASSUME NEW i \in Ids, GetResponse(i) \/ DeleteResponse(i)
      PROVE  Late'
  BY <1>4 DEF GetResponse, DeleteResponse
<1>5. ASSUME HttpShutdown \/ StopWebService \/ StopReturns \/ StartWebService \/ Shutdown \/ ManagerProceeds
      PROVE  Late'
  <2>1. CASE HttpShutdown \/ StopWebService \/ StartWebService \/ Shutdown \/
           ShutdownStops
    BY <2>1 DEF HttpShutdown, StopWebService, StartWebService, Shutdown, ShutdownStops
  <2>2. CASE StopReturns \/ ShutdownJoined
    <3>1. /\ \A r \in Requests : pc[r] = "idle"
          /\ manager' \in {"up", "joined"} /\ UNCHANGED <<accepting, pc>>
      BY <2>2 DEF StopReturns, ShutdownJoined, ServiceGone, ThreadsJoined
    <3>2. accepting => manager' = "up"
      BY <2>2 DEF StopReturns, ShutdownJoined
    <3> QED BY <3>1, <3>2
  <2>3. CASE ClearCache
    BY <2>3 DEF ClearCache, AllUncached
  <2>4. CASE Sweep
    BY <2>4 DEF Sweep
  <2>5. CASE Unload
    BY <2>5 DEF Unload
  <2>6. CASE DestroySessionManager
    BY <2>6 DEF DestroySessionManager, AllUncached
  <2>7. CASE DestroyModels
    BY <2>7 DEF DestroyModels
  <2> QED BY <1>5, <2>1, <2>2, <2>3, <2>4, <2>5, <2>6, <2>7 DEF ManagerProceeds
<1> QED BY <1>1, <1>2, <1>3, <1>4, <1>5 DEF Next

LEMMA LateInvariance == Spec => []Late
<1>1. Init => Late
  BY DEF Init, Late
<1>2. ServiceInv /\ Late /\ [Next]_vars => Late'
  BY LateStep DEF ServiceInv
<1> QED BY <1>1, <1>2, ServiceInvariance, PTL DEF Spec

(***************************************************************************)
(* The models are destroyed after every session that refers to them: the   *)
(* threads that could still cache one are joined before the cache is       *)
(* cleared for the last time.                                              *)
(***************************************************************************)
THEOREM ModelsLast == Spec => []SessionsDieFirst
<1>1. ServiceInv /\ Late => SessionsDieFirst
  BY DEF ServiceInv, Served, Late, SessionsDieFirst
<1> QED BY <1>1, ServiceInvariance, LateInvariance, PTL

(***************************************************************************)
(* What the store promises holds in the service too, through sessions, the *)
(* cache, shutdown and the restarts of the web service.                    *)
(***************************************************************************)
THEOREM ServiceKeeps == Spec => [](Replayable /\ DeletedStaysGone)
<1>1. ServiceInv => Replayable /\ DeletedStaysGone
  BY InvReplayable, InvGone DEF ServiceInv
<1> QED BY <1>1, ServiceInvariance, PTL
=============================================================================
