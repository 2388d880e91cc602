----------------------------- MODULE Lookup_proofs -----------------------------
(***************************************************************************)
(* What the lookup of Lookup returns, and what appending to and removing   *)
(* from a vector leaves of it: the lemmas the proofs about the stores cite. *)
(***************************************************************************)
EXTENDS Lookup, SequenceTheorems, WellFoundedInduction, TLAPS

\* A non-empty set of naturals has a least element.
LEMMA LeastExists ==
  ASSUME NEW I \in SUBSET Nat, I # {}
  PROVE  \E i \in I : \A j \in I : i <= j
<1>1. PICK i \in I : \A j \in I : ~ (<<j, i>> \in OpToRel(<, Nat))
  BY WFMin, NatLessThanWellFounded
<1>2. \A j \in I : ~ (j < i)
  BY <1>1 DEF OpToRel
<1>3. QED
  BY <1>2

\* FirstWith returns 0 exactly when no entry matches, and otherwise the position of an
\* entry that matches and has no match before it (iter().find() of the handlers).
LEMMA FirstWithSpec ==
  ASSUME NEW S, NEW q \in Seq(S), NEW field, NEW x
  PROVE  LET k == FirstWith(q, field, x)
         IN  /\ k \in 0..Len(q)
             /\ k = 0 => \A i \in 1..Len(q) : q[i][field] # x
             /\ k # 0 => /\ q[k][field] = x
                         /\ \A i \in 1..(k - 1) : q[i][field] # x
<1> DEFINE I == {i \in 1..Len(q) : q[i][field] = x}
           k == FirstWith(q, field, x)
<1>1. k = IF I # {} THEN Min(I) ELSE 0
  BY DEF FirstWith, SelectInSeq
<1>2. CASE I = {}
  BY <1>1, <1>2
<1>3. CASE I # {}
  <2>1. I \in SUBSET Nat
    OBVIOUS
  <2>2. \E i \in I : \A j \in I : i <= j
    BY <2>1, <1>3, LeastExists
  <2>3. Min(I) \in I /\ \A j \in I : Min(I) <= j
    BY <2>2 DEF Min
  <2>4. k \in I /\ \A j \in I : k <= j
    BY <2>3, <1>1, <1>3
  <2>5. \A i \in 1..(k - 1) : i \notin I
    BY <2>4
  <2>6. QED
    BY <2>4, <2>5
<1>4. QED
  BY <1>2, <1>3

\* An entry appended later never becomes the first match of a value that has one.
LEMMA FirstIsStable ==
  ASSUME NEW S, NEW q \in Seq(S), NEW e \in S, NEW field, NEW x, FirstWith(q, field, x) # 0
  PROVE  /\ FirstWith(Append(q, e), field, x) = FirstWith(q, field, x)
         /\ Append(q, e)[FirstWith(q, field, x)] = q[FirstWith(q, field, x)]
<1> DEFINE q2 == Append(q, e)
           k == FirstWith(q, field, x)
           l == FirstWith(q2, field, x)
<1>1. q2 \in Seq(S) /\ Len(q2) = Len(q) + 1 /\ \A i \in 1..Len(q) : q2[i] = q[i]
  OBVIOUS
<1>2. k \in 1..Len(q) /\ q[k][field] = x /\ \A i \in 1..(k - 1) : q[i][field] # x
  BY FirstWithSpec
<1> HIDE DEF q2
<1>3. /\ l \in 0..Len(q2)
      /\ l = 0 => \A i \in 1..Len(q2) : q2[i][field] # x
      /\ l # 0 => q2[l][field] = x /\ \A i \in 1..(l - 1) : q2[i][field] # x
  BY <1>1, FirstWithSpec
<1> HIDE DEF k, l
<1>4. l # 0
  BY <1>1, <1>2, <1>3
<1>5. ~ (k < l)
  BY <1>1, <1>2, <1>3, <1>4
<1>6. ~ (l < k)
  BY <1>1, <1>2, <1>3, <1>4
<1>7. QED
  BY <1>1, <1>2, <1>3, <1>5, <1>6 DEF k, l, q2

\* Appending an entry gives a first match to its own value, where that had none.
LEMMA FirstAppended ==
  ASSUME NEW S, NEW q \in Seq(S), NEW e \in S, NEW field, NEW x
  PROVE  FirstWith(Append(q, e), field, x) =
           IF FirstWith(q, field, x) # 0 THEN FirstWith(q, field, x)
           ELSE IF e[field] = x THEN Len(q) + 1 ELSE 0
<1> DEFINE p == Append(q, e)
           k == FirstWith(q, field, x)
           l == FirstWith(p, field, x)
<1>1. /\ p \in Seq(S) /\ Len(q) \in Nat /\ Len(p) = Len(q) + 1 /\ p[Len(q) + 1] = e
      /\ \A i \in 1..Len(q) : p[i] = q[i]
  OBVIOUS
<1> HIDE DEF p
<1>2. /\ l \in 0..Len(p)
      /\ l = 0 => \A i \in 1..Len(p) : p[i][field] # x
      /\ l # 0 => p[l][field] = x /\ \A i \in 1..(l - 1) : p[i][field] # x
  BY <1>1, FirstWithSpec
<1>3. k = 0 => \A i \in 1..Len(q) : q[i][field] # x
  BY FirstWithSpec
<1>4. CASE k # 0
  BY <1>4, FirstIsStable DEF p
<1>5. CASE k = 0
  <2> HIDE DEF k, l
  <2>1. \A i \in 1..Len(q) : p[i][field] # x
    BY <1>1, <1>3, <1>5
  <2>2. l \notin 1..Len(q)
    BY <1>1, <1>2, <2>1
  <2>3. l = 0 \/ l = Len(q) + 1
    BY <1>1, <1>2, <2>2
  <2>4. l = 0 => e[field] # x
    BY <1>1, <1>2
  <2>5. l # 0 => e[field] = x
    BY <1>1, <1>2, <2>3
  <2> QED  BY <1>5, <2>3, <2>4, <2>5 DEF k, l, p
<1> HIDE DEF k, l
<1> QED  BY <1>4, <1>5

\* Two vectors with the same keys have the same first match, whatever else changed.
LEMMA FirstOfSameKeys ==
  ASSUME NEW S, NEW q \in Seq(S), NEW p \in Seq(S), NEW field, NEW x,
         Len(p) = Len(q), \A i \in 1..Len(q) : p[i][field] = q[i][field]
  PROVE  FirstWith(p, field, x) = FirstWith(q, field, x)
<1> DEFINE k == FirstWith(q, field, x)
           l == FirstWith(p, field, x)
<1>1. /\ k \in 0..Len(q)
      /\ k = 0 => \A i \in 1..Len(q) : q[i][field] # x
      /\ k # 0 => q[k][field] = x /\ \A i \in 1..(k - 1) : q[i][field] # x
  BY FirstWithSpec
<1>2. /\ l \in 0..Len(q)
      /\ l = 0 => \A i \in 1..Len(q) : p[i][field] # x
      /\ l # 0 => p[l][field] = x /\ \A i \in 1..(l - 1) : p[i][field] # x
  BY FirstWithSpec
<1> HIDE DEF k, l
<1>3. k = 0 => l = 0
  BY <1>1, <1>2
<1>4. l = 0 => k = 0
  BY <1>1, <1>2
<1>5. k # 0 /\ l # 0 => k = l
  BY <1>1, <1>2
<1>6. QED
  BY <1>3, <1>4, <1>5 DEF k, l

\* Removing the k-th entry of a sequence leaves a sequence of the same kind.
LEMMA RemoveAtType ==
  ASSUME NEW S, NEW q \in Seq(S), NEW k \in 1..Len(q)
  PROVE  RemoveAt(q, k) \in Seq(S)
<1>1. SubSeq(q, 1, k - 1) \in Seq(S) /\ SubSeq(q, k + 1, Len(q)) \in Seq(S)
  BY SubSeqProperties
<1>2. QED
  BY <1>1, ConcatProperties DEF RemoveAt

-----------------------------------------------------------------------------
(* What AllWithin selects. Facts about a recursive function need induction;  *)
(* UpToInduction provides it with a set in the place of a predicate.        *)

\* Induction up to n, with the set of what holds in the place of a predicate.
LEMMA UpToInduction ==
  ASSUME NEW n \in Nat, NEW I \in SUBSET (0..n), 0 \in I, \A i \in 1..n : i - 1 \in I => i \in I
  PROVE  I = 0..n
<1> SUFFICES ASSUME (0..n) \ I # {}  PROVE FALSE
  OBVIOUS
<1>1. (0..n) \ I \in SUBSET Nat
  OBVIOUS
<1>2. PICK m \in (0..n) \ I : \A j \in (0..n) \ I : m <= j
  BY <1>1, LeastExists
<1>3. m \in 1..n /\ m - 1 \in 0..n
  BY <1>2
<1>4. m - 1 \in I
  BY <1>2, <1>3
<1> QED  BY <1>2, <1>3, <1>4

\* f[n] is what the first n entries of q contribute to AllWithin(q, field, X).
CollectsUpTo(f, m, S, q, field, X) ==
  /\ f \in [0..m -> Seq(S)]
  /\ f[0] = <<>>
  /\ \A n \in 1..m : f[n] = IF q[n][field] \in X THEN Append(f[n - 1], q[n]) ELSE f[n - 1]

\* Such an f exists: one step extends it by one entry.
LEMMA CollectingExists ==
  ASSUME NEW S, NEW q \in Seq(S), NEW field, NEW X
  PROVE  \E f : CollectsUpTo(f, Len(q), S, q, field, X)
<1> DEFINE Holds == {m \in 0..Len(q) : \E f : CollectsUpTo(f, m, S, q, field, X)}
<1>1. 0 \in Holds
  <2>1. CollectsUpTo([n \in 0..0 |-> <<>>], 0, S, q, field, X)
    BY DEF CollectsUpTo
  <2> QED  BY <2>1
<1>2. ASSUME NEW m \in 1..Len(q), m - 1 \in Holds  PROVE m \in Holds
  <2>1. PICK f : CollectsUpTo(f, m - 1, S, q, field, X)
    BY <1>2
  <2> DEFINE last == IF q[m][field] \in X THEN Append(f[m - 1], q[m]) ELSE f[m - 1]
             g == [n \in 0..m |-> IF n = m THEN last ELSE f[n]]
  <2>2. q[m] \in S /\ f[m - 1] \in Seq(S)
    BY <2>1 DEF CollectsUpTo
  <2>3. last \in Seq(S)
    BY <2>2
  <2>4. g \in [0..m -> Seq(S)]
    <3> HIDE DEF last
    <3> QED  BY <2>1, <2>3 DEF CollectsUpTo
  <2>5. g[0] = <<>>
    BY <2>1 DEF CollectsUpTo
  <2>6. ASSUME NEW n \in 1..m
        PROVE  g[n] = IF q[n][field] \in X THEN Append(g[n - 1], q[n]) ELSE g[n - 1]
    <3>1. CASE n = m
      <4>1. g[n] = last /\ g[n - 1] = f[n - 1]
        BY <3>1
      <4> QED  BY <4>1, <3>1
    <3>2. CASE n # m
      <4>1. n \in 1..(m - 1) /\ g[n] = f[n] /\ g[n - 1] = f[n - 1]
        BY <3>2
      <4>2. f[n] = IF q[n][field] \in X THEN Append(f[n - 1], q[n]) ELSE f[n - 1]
        BY <4>1, <2>1 DEF CollectsUpTo
      <4> HIDE DEF g
      <4> QED  BY <4>1, <4>2
    <3> QED  BY <3>1, <3>2
  <2> HIDE DEF g
  <2>7. CollectsUpTo(g, m, S, q, field, X)
    BY <2>4, <2>5, <2>6 DEF CollectsUpTo
  <2> QED  BY <2>7
<1> HIDE DEF Holds
<1>3. Holds = 0..Len(q)
  <2>1. Holds \in SUBSET (0..Len(q)) /\ Len(q) \in Nat
    BY DEF Holds
  <2> QED  BY <1>1, <1>2, <2>1, UpToInduction
<1>4. Len(q) \in Holds
  BY <1>3
<1> QED  BY <1>4 DEF Holds

\* AllWithin is the last value of such an f.
LEMMA AllWithinCollects ==
  ASSUME NEW S, NEW q \in Seq(S), NEW field, NEW X
  PROVE  \E f : CollectsUpTo(f, Len(q), S, q, field, X) /\ AllWithin(q, field, X) = f[Len(q)]
<1> DEFINE Among(f) == f = [n \in 0..Len(q) |->
                              IF n = 0 THEN <<>>
                              ELSE IF q[n][field] \in X THEN Append(f[n - 1], q[n]) ELSE f[n - 1]]
           a == CHOOSE f : Among(f)
<1>1. PICK f : CollectsUpTo(f, Len(q), S, q, field, X)
  BY CollectingExists
<1>2. Among(f)
  <2> DEFINE h == [n \in 0..Len(q) |->
                              IF n = 0 THEN <<>>
                              ELSE IF q[n][field] \in X THEN Append(f[n - 1], q[n]) ELSE f[n - 1]]
  <2>1. ASSUME NEW n \in 0..Len(q) PROVE f[n] = h[n]
    <3>1. CASE n = 0
      BY <1>1, <3>1 DEF CollectsUpTo
    <3>2. CASE n # 0
      <4>1. n \in 1..Len(q)
        BY <3>2
      <4> QED  BY <1>1, <3>2, <4>1 DEF CollectsUpTo
    <3> QED  BY <3>1, <3>2
  <2>2. f = [n \in 0..Len(q) |-> f[n]]
    BY <1>1 DEF CollectsUpTo
  <2>3. h = [n \in 0..Len(q) |-> h[n]]
    OBVIOUS
  <2> HIDE DEF h
  <2>4. f = h
    BY <2>1, <2>2, <2>3
  <2> QED  BY <2>4 DEF h
<1>3. Among(a)
  <2> HIDE DEF Among
  <2> QED  BY <1>2
<1>4. AllWithin(q, field, X) = a[Len(q)]
  BY DEF AllWithin
<1> HIDE DEF a
<1>5. CollectsUpTo(a, Len(q), S, q, field, X)
  <2>1. DOMAIN a = 0..Len(q) /\ a = [n \in 0..Len(q) |-> a[n]]
    BY <1>3
  <2>2. a[0] = <<>>
    BY <1>3
  <2>3. ASSUME NEW n \in 1..Len(q)
        PROVE  a[n] = IF q[n][field] \in X THEN Append(a[n - 1], q[n]) ELSE a[n - 1]
    <3>1. n \in 0..Len(q) /\ n # 0
      OBVIOUS
    <3> QED  BY <1>3, <3>1
  <2> HIDE DEF Among
  <2> DEFINE Holds == {n \in 0..Len(q) : a[n] \in Seq(S)}
  <2>4. 0 \in Holds
    <3>1. <<>> \in Seq(S) /\ 0 \in 0..Len(q)
      OBVIOUS
    <3> QED  BY <2>2, <3>1
  <2>5. ASSUME NEW n \in 1..Len(q), n - 1 \in Holds PROVE n \in Holds
    <3>1. a[n - 1] \in Seq(S) /\ q[n] \in S
      BY <2>5
    <3>2. a[n] \in Seq(S)
      <4>1. CASE q[n][field] \in X
        <5>1. a[n] = Append(a[n - 1], q[n])
          BY <2>3, <4>1
        <5> QED  BY <3>1, <5>1
      <4>2. CASE q[n][field] \notin X
        BY <2>3, <3>1, <4>2
      <4> QED  BY <4>1, <4>2
    <3> QED  BY <3>2
  <2>6. Holds = 0..Len(q)
    <3>1. Holds \in SUBSET (0..Len(q)) /\ Len(q) \in Nat
      OBVIOUS
    <3> HIDE DEF Holds
    <3> QED  BY <3>1, <2>4, <2>5, UpToInduction
  <2>7. \A n \in 0..Len(q) : a[n] \in Seq(S)
    BY <2>6
  <2>8. a \in [0..Len(q) -> Seq(S)]
    BY <2>1, <2>7
  <2> QED  BY <2>2, <2>3, <2>8 DEF CollectsUpTo
<1> QED  BY <1>4, <1>5

\* What the first m entries contribute depends on them alone.
LEMMA CollectingAgrees ==
  ASSUME NEW S, NEW p, NEW q, NEW field, NEW X,
         NEW m \in Nat, NEW k \in Nat, NEW l \in Nat, m <= k, m <= l,
         NEW f, NEW g, CollectsUpTo(f, k, S, q, field, X), CollectsUpTo(g, l, S, p, field, X),
         \A i \in 1..m : p[i] = q[i]
  PROVE  f[m] = g[m]
<1> DEFINE Holds == {n \in 0..m : f[n] = g[n]}
<1>1. 0 \in Holds
  BY DEF CollectsUpTo
<1>2. ASSUME NEW n \in 1..m, n - 1 \in Holds PROVE n \in Holds
  <2>1. n \in 1..k /\ n \in 1..l /\ p[n] = q[n] /\ f[n - 1] = g[n - 1]
    BY <1>2
  <2>2. f[n] = IF q[n][field] \in X THEN Append(f[n - 1], q[n]) ELSE f[n - 1]
    BY <2>1 DEF CollectsUpTo
  <2>3. g[n] = IF p[n][field] \in X THEN Append(g[n - 1], p[n]) ELSE g[n - 1]
    BY <2>1 DEF CollectsUpTo
  <2> QED  BY <2>1, <2>2, <2>3
<1>3. Holds = 0..m
  <2>1. Holds \in SUBSET (0..m)
    OBVIOUS
  <2> HIDE DEF Holds
  <2> QED  BY <1>1, <1>2, <2>1, UpToInduction
<1>4. m \in Holds
  BY <1>3
<1> QED  BY <1>4

\* A selection is of the kind of what it is taken from.
LEMMA AllWithinType ==
  ASSUME NEW S, NEW q \in Seq(S), NEW field, NEW X
  PROVE  AllWithin(q, field, X) \in Seq(S)
  BY AllWithinCollects DEF CollectsUpTo

\* Nothing is selected from an empty vector.
LEMMA AllWithinEmpty ==
  ASSUME NEW field, NEW X
  PROVE  AllWithin(<<>>, field, X) = <<>>
<1>1. << >> \in Seq({})
  OBVIOUS
<1>2. PICK f : /\ CollectsUpTo(f, Len(<<>>), {}, <<>>, field, X)
               /\ AllWithin(<<>>, field, X) = f[Len(<<>>)]
  BY <1>1, AllWithinCollects
<1> QED  BY <1>2 DEF CollectsUpTo

\* Appending an entry appends it to the selection, or leaves the selection as it is.
LEMMA AllWithinAppend ==
  ASSUME NEW S, NEW q \in Seq(S), NEW e \in S, NEW field, NEW X
  PROVE  AllWithin(Append(q, e), field, X) =
           IF e[field] \in X THEN Append(AllWithin(q, field, X), e) ELSE AllWithin(q, field, X)
<1> DEFINE p == Append(q, e)
<1>1. p \in Seq(S) /\ Len(p) = Len(q) + 1 /\ p[Len(q) + 1] = e /\ \A i \in 1..Len(q) : p[i] = q[i]
  OBVIOUS
<1>2. Len(q) \in Nat /\ Len(p) \in Nat /\ Len(q) <= Len(p)
  BY <1>1
<1> HIDE DEF p
<1>3. PICK f : CollectsUpTo(f, Len(q), S, q, field, X) /\ AllWithin(q, field, X) = f[Len(q)]
  BY AllWithinCollects
<1>4. PICK g : CollectsUpTo(g, Len(p), S, p, field, X) /\ AllWithin(p, field, X) = g[Len(p)]
  BY <1>1, AllWithinCollects
<1>5. f[Len(q)] = g[Len(q)]
  BY <1>1, <1>2, <1>3, <1>4, CollectingAgrees
<1>6. g[Len(p)] = IF p[Len(p)][field] \in X THEN Append(g[Len(p) - 1], p[Len(p)]) ELSE g[Len(p) - 1]
  BY <1>1, <1>2, <1>4 DEF CollectsUpTo
<1>7. AllWithin(p, field, X) =
        IF e[field] \in X THEN Append(AllWithin(q, field, X), e) ELSE AllWithin(q, field, X)
  BY <1>1, <1>2, <1>3, <1>4, <1>5, <1>6
<1> QED  BY <1>7 DEF p

\* Appending to the second part is appending to the whole.
LEMMA ConcatAppend ==
  ASSUME NEW S, NEW v \in Seq(S), NEW w \in Seq(S), NEW e \in S
  PROVE  v \o Append(w, e) = Append(v \o w, e)
<1>1. <<e>> \in Seq(S) /\ v \o w \in Seq(S)
  OBVIOUS
<1>2. v \o (w \o <<e>>) = (v \o w) \o <<e>>
  BY <1>1, ConcatAssociative
<1> QED  BY <1>1, <1>2, AppendIsConcat

\* The selection from two vectors end to end is the two selections end to end.
LEMMA AllWithinConcat ==
  ASSUME NEW S, NEW p \in Seq(S), NEW q \in Seq(S), NEW field, NEW X
  PROVE  AllWithin(p \o q, field, X) = AllWithin(p, field, X) \o AllWithin(q, field, X)
<1> DEFINE First(n) == SubSeq(q, 1, n)
           Holds == {n \in 0..Len(q) :
             AllWithin(p \o First(n), field, X) = AllWithin(p, field, X) \o AllWithin(First(n), field, X)}
<1>0. Len(q) \in Nat /\ AllWithin(p, field, X) \in Seq(S)
  BY AllWithinType
<1>1. 0 \in Holds
  <2>1. First(0) = <<>> /\ p \o <<>> = p
    OBVIOUS
  <2>2. AllWithin(p, field, X) \o <<>> = AllWithin(p, field, X)
    BY <1>0
  <2>3. 0 \in 0..Len(q)
    BY <1>0
  <2>4. AllWithin(p \o <<>>, field, X) = AllWithin(p, field, X) \o AllWithin(<<>>, field, X)
    BY <2>1, <2>2, AllWithinEmpty
  <2> HIDE DEF First
  <2> QED  BY <2>1, <2>3, <2>4
<1>2. ASSUME NEW n \in 1..Len(q), n - 1 \in Holds PROVE n \in Holds
  <2> DEFINE r == First(n - 1)
  <2>1. r \in Seq(S) /\ q[n] \in S
    OBVIOUS
  <2>2. First(n) = Append(r, q[n])
    OBVIOUS
  <2>3. p \o First(n) = Append(p \o r, q[n]) /\ p \o r \in Seq(S)
    OBVIOUS
  <2>4. AllWithin(p \o r, field, X) = AllWithin(p, field, X) \o AllWithin(r, field, X)
    BY <1>2
  <2>5. AllWithin(r, field, X) \in Seq(S)
    BY <2>1, AllWithinType
  <2> DEFINE e == q[n]
  <2> HIDE DEF r, First
  <2>6. AllWithin(First(n), field, X) =
          IF e[field] \in X THEN Append(AllWithin(r, field, X), e) ELSE AllWithin(r, field, X)
    <3>1. r \in Seq(S) /\ e \in S /\ First(n) = Append(r, e)
      BY <2>1, <2>2
    <3> HIDE DEF e
    <3> QED  BY <3>1, AllWithinAppend
  <2>7. AllWithin(p \o First(n), field, X) =
          IF e[field] \in X THEN Append(AllWithin(p \o r, field, X), e)
                          ELSE AllWithin(p \o r, field, X)
    <3> DEFINE pr == p \o r
    <3>1. pr \in Seq(S) /\ e \in S /\ p \o First(n) = Append(pr, e)
      BY <2>1, <2>3
    <3> HIDE DEF e, pr
    <3>2. AllWithin(Append(pr, e), field, X) =
            IF e[field] \in X THEN Append(AllWithin(pr, field, X), e) ELSE AllWithin(pr, field, X)
      BY <3>1, AllWithinAppend
    <3> QED  BY <3>1, <3>2 DEF pr
  <2>8. \A w, v \in Seq(S) : \A d \in S : w \o Append(v, d) = Append(w \o v, d)
    BY ConcatAppend
  <2>9. AllWithin(p \o First(n), field, X) = AllWithin(p, field, X) \o AllWithin(First(n), field, X)
    <3>1. CASE e[field] \in X
      <4>1. AllWithin(p, field, X) \o Append(AllWithin(r, field, X), e) =
              Append(AllWithin(p, field, X) \o AllWithin(r, field, X), e)
        BY <1>0, <2>1, <2>5, <2>8
      <4> QED  BY <2>4, <2>6, <2>7, <3>1, <4>1
    <3>2. CASE e[field] \notin X
      BY <2>4, <2>6, <2>7, <3>2
    <3> QED  BY <3>1, <3>2
  <2> QED  BY <2>9
<1>3. Holds = 0..Len(q)
  <2>1. Holds \in SUBSET (0..Len(q))
    OBVIOUS
  <2> HIDE DEF Holds
  <2> QED  BY <1>0, <1>1, <1>2, <2>1, UpToInduction
<1>4. Len(q) \in Holds
  BY <1>0, <1>3
<1>5. First(Len(q)) = q
  OBVIOUS
<1> HIDE DEF First
<1> QED  BY <1>4, <1>5

\* Nothing is selected where nothing matches.
LEMMA AllWithinNone ==
  ASSUME NEW S, NEW q \in Seq(S), NEW field, NEW X, \A i \in 1..Len(q) : q[i][field] \notin X
  PROVE  AllWithin(q, field, X) = <<>>
<1>1. PICK f : CollectsUpTo(f, Len(q), S, q, field, X) /\ AllWithin(q, field, X) = f[Len(q)]
  BY AllWithinCollects
<1> DEFINE Holds == {n \in 0..Len(q) : f[n] = <<>>}
<1>2. 0 \in Holds /\ Len(q) \in Nat
  BY <1>1 DEF CollectsUpTo
<1>3. ASSUME NEW n \in 1..Len(q), n - 1 \in Holds PROVE n \in Holds
  BY <1>1, <1>3 DEF CollectsUpTo
<1>4. Holds = 0..Len(q)
  <2>1. Holds \in SUBSET (0..Len(q))
    OBVIOUS
  <2> HIDE DEF Holds
  <2> QED  BY <1>2, <1>3, <2>1, UpToInduction
<1>5. Len(q) \in Holds
  BY <1>2, <1>4
<1> QED  BY <1>1, <1>5

\* The same of AllWith, which selects one value.
LEMMA AllWithType ==
  ASSUME NEW S, NEW q \in Seq(S), NEW field, NEW x
  PROVE  AllWith(q, field, x) \in Seq(S)
  BY AllWithinType DEF AllWith

LEMMA AllWithEmpty ==
  ASSUME NEW field, NEW x
  PROVE  AllWith(<<>>, field, x) = <<>>
  BY AllWithinEmpty DEF AllWith

LEMMA AllWithAppend ==
  ASSUME NEW S, NEW q \in Seq(S), NEW e \in S, NEW field, NEW x
  PROVE  AllWith(Append(q, e), field, x) =
           IF e[field] = x THEN Append(AllWith(q, field, x), e) ELSE AllWith(q, field, x)
<1> DEFINE X == {x}
<1>1. AllWithin(Append(q, e), field, X) =
        IF e[field] \in X THEN Append(AllWithin(q, field, X), e) ELSE AllWithin(q, field, X)
  <2> HIDE DEF X
  <2> QED  BY AllWithinAppend
<1> QED  BY <1>1 DEF AllWith

LEMMA AllWithConcat ==
  ASSUME NEW S, NEW p \in Seq(S), NEW q \in Seq(S), NEW field, NEW x
  PROVE  AllWith(p \o q, field, x) = AllWith(p, field, x) \o AllWith(q, field, x)
  BY AllWithinConcat DEF AllWith

LEMMA AllWithNone ==
  ASSUME NEW S, NEW q \in Seq(S), NEW field, NEW x, \A i \in 1..Len(q) : q[i][field] # x
  PROVE  AllWith(q, field, x) = <<>>
  BY AllWithinNone DEF AllWith

\* Taking the first match out of a vector takes the head off the matches, and leaves the
\* matches of any other value as they are.
LEMMA AllWithRemoveFirst ==
  ASSUME NEW S, NEW q \in Seq(S), NEW field, NEW x, FirstWith(q, field, x) # 0
  PROVE  LET k == FirstWith(q, field, x)
         IN  /\ AllWith(q, field, x) = <<q[k]>> \o AllWith(RemoveAt(q, k), field, x)
             /\ \A y : y # x => AllWith(RemoveAt(q, k), field, y) = AllWith(q, field, y)
<1> DEFINE k == FirstWith(q, field, x)
           a == SubSeq(q, 1, k - 1)
           b == SubSeq(q, k + 1, Len(q))
<1>1. k \in 1..Len(q) /\ q[k][field] = x /\ \A i \in 1..(k - 1) : q[i][field] # x
  BY FirstWithSpec
<1> HIDE DEF k
<1>2. /\ a \in Seq(S) /\ b \in Seq(S) /\ q[k] \in S
      /\ Len(a) = k - 1 /\ \A i \in 1..(k - 1) : a[i] = q[i]
  BY <1>1
<1>3. q = Append(a, q[k]) \o b
  <2>1. SubSeq(q, 1, k) = a \o <<q[k]>>
    BY <1>1, SubSeqRecursiveSecond
  <2>2. SubSeq(q, 1, k) \o b = SubSeq(q, 1, Len(q))
    BY <1>1, ConcatAdjacentSubSeq
  <2>3. SubSeq(q, 1, Len(q)) = q
    BY SubSeqFull
  <2> HIDE DEF a, b
  <2> QED  BY <1>2, <2>1, <2>2, <2>3, AppendIsConcat
<1>4. RemoveAt(q, k) = a \o b
  BY DEF RemoveAt
<1>5. AllWith(a, field, x) = <<>>
  BY <1>1, <1>2, AllWithNone
<1> HIDE DEF a, b
<1> DEFINE e == q[k]
           ae == Append(a, e)
<1>6. e \in S /\ e[field] = x /\ ae \in Seq(S) /\ q = ae \o b
  BY <1>1, <1>2, <1>3
<1> HIDE DEF e
<1>7. ASSUME NEW y
      PROVE  /\ AllWith(q, field, y) =
                  (IF e[field] = y THEN Append(AllWith(a, field, y), e) ELSE AllWith(a, field, y))
                    \o AllWith(b, field, y)
             /\ AllWith(RemoveAt(q, k), field, y) = AllWith(a, field, y) \o AllWith(b, field, y)
             /\ AllWith(b, field, y) \in Seq(S)
  <2>1. AllWith(ae, field, y) =
          IF e[field] = y THEN Append(AllWith(a, field, y), e) ELSE AllWith(a, field, y)
    BY <1>2, <1>6, AllWithAppend
  <2> HIDE DEF ae
  <2>2. AllWith(ae \o b, field, y) = AllWith(ae, field, y) \o AllWith(b, field, y)
    BY <1>2, <1>6, AllWithConcat
  <2>3. AllWith(a \o b, field, y) = AllWith(a, field, y) \o AllWith(b, field, y)
    BY <1>2, AllWithConcat
  <2>4. AllWith(b, field, y) \in Seq(S)
    BY <1>2, AllWithType
  <2> QED  BY <1>4, <1>6, <2>1, <2>2, <2>3, <2>4
<1>8. AllWith(q, field, x) = <<e>> \o AllWith(RemoveAt(q, k), field, x)
  <2>1. AllWith(RemoveAt(q, k), field, x) = AllWith(b, field, x)
    BY <1>5, <1>7, ConcatEmptySeq
  <2>2. AllWith(q, field, x) = <<e>> \o AllWith(b, field, x)
    <3>1. AllWith(q, field, x) = Append(AllWith(a, field, x), e) \o AllWith(b, field, x)
      BY <1>6, <1>7
    <3>2. Append(AllWith(a, field, x), e) = <<e>>
      BY <1>5
    <3> QED  BY <3>1, <3>2
  <2> QED  BY <2>1, <2>2
<1>9. \A y : y # x => AllWith(RemoveAt(q, k), field, y) = AllWith(q, field, y)
  BY <1>6, <1>7
<1> QED  BY <1>8, <1>9 DEF k, e

-----------------------------------------------------------------------------

\* A function on nothing is the empty sequence.
LEMMA EmptyFunction ==
  ASSUME NEW f, f = [x \in {} |-> f[x]]
  PROVE  f = <<>>
<1>1. f \in [1..0 -> {}]
  OBVIOUS
<1>2. f \in Seq({}) /\ Len(f) = 0
  BY <1>1
<1> QED  BY <1>2, EmptySeq

\* Appending an entry adds it to the set of the entries.
LEMMA ToSetAppend ==
  ASSUME NEW S, NEW q \in Seq(S), NEW e \in S
  PROVE  ToSet(Append(q, e)) = ToSet(q) \cup {e}
<1>1. /\ Len(q) \in Nat /\ DOMAIN q = 1..Len(q) /\ DOMAIN Append(q, e) = 1..(Len(q) + 1)
      /\ Append(q, e)[Len(q) + 1] = e /\ \A i \in 1..Len(q) : Append(q, e)[i] = q[i]
  OBVIOUS
<1>2. ASSUME NEW x \in ToSet(Append(q, e)) PROVE x \in ToSet(q) \cup {e}
  BY <1>1 DEF ToSet
<1>3. ASSUME NEW x \in ToSet(q) \cup {e} PROVE x \in ToSet(Append(q, e))
  <2>1. CASE x = e
    <3>1. Len(q) + 1 \in 1..(Len(q) + 1)
      BY <1>1
    <3> QED  BY <1>1, <2>1, <3>1 DEF ToSet
  <2>2. CASE x \in ToSet(q)
    <3>1. PICK i \in 1..Len(q) : q[i] = x
      BY <1>1, <2>2 DEF ToSet
    <3>2. i \in 1..(Len(q) + 1) /\ Append(q, e)[i] = x
      BY <1>1, <3>1
    <3> QED  BY <1>1, <3>2 DEF ToSet
  <2> QED  BY <2>1, <2>2
<1> QED  BY <1>2, <1>3

\* A vector is a sequence of what it holds, and every sequence is a vector.
LEMMA VectorIsSeq ==
  ASSUME NEW q, IsVector(q)
  PROVE  q \in Seq({q[i] : i \in 1..Len(q)}) /\ DOMAIN q = 1..Len(q)
  BY DEF IsVector

LEMMA SeqIsVector ==
  ASSUME NEW S, NEW q \in Seq(S)
  PROVE  IsVector(q)
  BY DEF IsVector

LEMMA VectorEmpty == IsVector(<<>>) /\ Len(<<>>) = 0
  BY DEF IsVector

\* Appending an entry changes none of those there.
LEMMA VectorAppend ==
  ASSUME NEW q, IsVector(q), NEW e
  PROVE  /\ IsVector(Append(q, e)) /\ Len(Append(q, e)) = Len(q) + 1
         /\ Append(q, e)[Len(q) + 1] = e
         /\ \A i \in 1..Len(q) : Append(q, e)[i] = q[i]
<1> DEFINE S == {q[i] : i \in 1..Len(q)} \cup {e}
<1>1. q \in Seq(S) /\ e \in S
  BY DEF IsVector
<1> HIDE DEF S
<1>2. Append(q, e) \in Seq(S)
  BY <1>1
<1>3. IsVector(Append(q, e))
  BY <1>2, SeqIsVector
<1> QED  BY <1>1, <1>3

\* One vector after another.
LEMMA VectorConcat ==
  ASSUME NEW p, IsVector(p), NEW q, IsVector(q)
  PROVE  /\ IsVector(p \o q) /\ Len(p \o q) = Len(p) + Len(q)
         /\ \A i \in 1..Len(p) : (p \o q)[i] = p[i]
         /\ \A i \in 1..Len(q) : (p \o q)[Len(p) + i] = q[i]
<1> DEFINE S == {p[i] : i \in 1..Len(p)} \cup {q[i] : i \in 1..Len(q)}
<1>1. p \in Seq(S) /\ q \in Seq(S)
  BY DEF IsVector
<1>2. p \o q \in Seq(S)
  BY <1>1
<1> HIDE DEF S
<1>3. IsVector(p \o q)
  BY <1>2, SeqIsVector
<1>4. Len(p) \in Nat /\ Len(q) \in Nat /\ Len(p \o q) = Len(p) + Len(q)
  BY <1>1
<1>5. \A i \in 1..Len(p) : (p \o q)[i] = p[i]
  BY <1>1, ConcatProperties
<1>6. \A i \in 1..Len(q) : (p \o q)[Len(p) + i] = q[i]
  BY <1>1, ConcatProperties
<1> QED  BY <1>3, <1>4, <1>5, <1>6

\* A function on the first numbers is a vector.
LEMMA VectorOf ==
  ASSUME NEW n \in Nat, NEW f, DOMAIN f = 1..n, f = [i \in 1..n |-> f[i]]
  PROVE  IsVector(f) /\ Len(f) = n
<1>1. f \in Seq({f[i] : i \in 1..n})
  OBVIOUS
<1> QED  BY <1>1 DEF IsVector

\* A vector of length 0 is the empty one.
LEMMA VectorOfNone ==
  ASSUME NEW q, IsVector(q), Len(q) = 0
  PROVE  q = <<>>
<1>1. q \in Seq({q[i] : i \in 1..Len(q)})
  BY VectorIsSeq
<1> QED  BY <1>1

\* The first elements of a vector.
LEMMA FirstOfVector ==
  ASSUME NEW q, IsVector(q), NEW n \in Nat, n <= Len(q)
  PROVE  SubSeq(q, 1, n) = [k \in 1..n |-> q[k]]
<1> DEFINE S == {q[i] : i \in 1..Len(q)}
           p == SubSeq(q, 1, n)
<1>1. q \in Seq(S)
  BY VectorIsSeq
<1>2. Len(q) \in Nat
  BY DEF IsVector
<1> HIDE DEF S
<1>3. p \in Seq(S) /\ Len(p) = n /\ \A i \in 1..n : p[i] = q[i]
  BY <1>1, <1>2, SubSeqProperties
<1>4. p = [k \in 1..n |-> p[k]]
  BY <1>3
<1> HIDE DEF p
<1>5. p = [k \in 1..n |-> q[k]]
  BY <1>3, <1>4
<1> QED  BY <1>5 DEF p

\* Where all records match, all are kept.
LEMMA AllWithinAll ==
  ASSUME NEW S, NEW q \in Seq(S), NEW field, NEW X, \A i \in 1..Len(q) : q[i][field] \in X
  PROVE  AllWithin(q, field, X) = q
<1>1. PICK f : CollectsUpTo(f, Len(q), S, q, field, X) /\ AllWithin(q, field, X) = f[Len(q)]
  BY AllWithinCollects
<1> DEFINE Holds == {n \in 0..Len(q) : f[n] = SubSeq(q, 1, n)}
<1>2. 0 \in Holds /\ Len(q) \in Nat
  BY <1>1 DEF CollectsUpTo
<1>3. ASSUME NEW n \in 1..Len(q), n - 1 \in Holds PROVE n \in Holds
  <2>1. f[n] = Append(SubSeq(q, 1, n - 1), q[n])
    BY <1>1, <1>3 DEF CollectsUpTo
  <2>2. SubSeq(q, 1, n) = SubSeq(q, 1, n - 1) \o <<q[n]>>
    BY SubSeqRecursiveSecond
  <2>3. SubSeq(q, 1, n - 1) \in Seq(S) /\ q[n] \in S
    OBVIOUS
  <2>4. Append(SubSeq(q, 1, n - 1), q[n]) = SubSeq(q, 1, n - 1) \o <<q[n]>>
    BY <2>3, AppendIsConcat
  <2>5. n \in 0..Len(q) /\ f[n] = SubSeq(q, 1, n)
    BY <2>1, <2>2, <2>4
  <2> QED  BY <2>5
<1>4. Holds = 0..Len(q)
  <2>1. Holds \in SUBSET (0..Len(q))
    OBVIOUS
  <2> HIDE DEF Holds
  <2> QED  BY <1>2, <1>3, <2>1, UpToInduction
<1>5. Len(q) \in Holds
  BY <1>2, <1>4
<1>6. SubSeq(q, 1, Len(q)) = q
  BY SubSeqFull
<1> QED  BY <1>1, <1>5, <1>6

\* What is kept of a vector is a vector.
LEMMA VectorAllWith ==
  ASSUME NEW q, IsVector(q), NEW field, NEW x
  PROVE  IsVector(AllWith(q, field, x))
<1> DEFINE S == {q[i] : i \in 1..Len(q)}
<1>1. q \in Seq(S)
  BY VectorIsSeq
<1> HIDE DEF S
<1> QED  BY <1>1, AllWithType, SeqIsVector

\* The vector of one entry.
LEMMA OneEntry ==
  ASSUME NEW e
  PROVE  IsVector(<<e>>) /\ ToSet(<<e>>) = {e}
<1>1. <<e>> \in Seq({e})
  OBVIOUS
<1>2. ToSet(<<e>>) = {e}
  BY DEF ToSet
<1>3. IsVector(<<e>>)
  BY <1>1, SeqIsVector
<1> QED  BY <1>2, <1>3

\* An appended entry is one more block.
LEMMA AppendedBlock ==
  ASSUME NEW q, IsVector(q), NEW e
  PROVE  Append(q, e) = q \o <<e>>
<1> DEFINE S == {q[i] : i \in 1..Len(q)} \cup {e}
<1>1. q \in Seq(S)
  BY DEF IsVector
<1>2. e \in S
  OBVIOUS
<1> HIDE DEF S
<1> QED  BY <1>1, <1>2

\* The elements of a vector with one more entry.
LEMMA ToSetOneMore ==
  ASSUME NEW q, IsVector(q), NEW e
  PROVE  ToSet(Append(q, e)) = ToSet(q) \cup {e}
<1> DEFINE S == {q[i] : i \in 1..Len(q)} \cup {e}
<1>1. q \in Seq(S)
  BY DEF IsVector
<1>2. e \in S
  OBVIOUS
<1> HIDE DEF S
<1> QED  BY <1>1, <1>2, ToSetAppend

\* The elements of a concatenation are those of its parts.
LEMMA ToSetConcat ==
  ASSUME NEW p, IsVector(p), NEW q, IsVector(q)
  PROVE  ToSet(p \o q) = ToSet(p) \cup ToSet(q)
<1>1. /\ IsVector(p \o q) /\ Len(p \o q) = Len(p) + Len(q)
      /\ \A i \in 1..Len(p) : (p \o q)[i] = p[i]
      /\ \A i \in 1..Len(q) : (p \o q)[Len(p) + i] = q[i]
  BY VectorConcat
<1>2. /\ DOMAIN p = 1..Len(p) /\ DOMAIN q = 1..Len(q) /\ DOMAIN (p \o q) = 1..(Len(p) + Len(q))
      /\ Len(p) \in Nat /\ Len(q) \in Nat
  BY <1>1, VectorIsSeq DEF IsVector
<1>3. ASSUME NEW x \in ToSet(p \o q) PROVE x \in ToSet(p) \cup ToSet(q)
  <2>1. PICK i \in 1..(Len(p) + Len(q)) : x = (p \o q)[i]
    BY <1>2 DEF ToSet
  <2>2. CASE i \in 1..Len(p)
    BY <1>1, <1>2, <2>1, <2>2 DEF ToSet
  <2>3. CASE i \notin 1..Len(p)
    <3>1. i - Len(p) \in 1..Len(q) /\ i = Len(p) + (i - Len(p))
      BY <1>2, <2>3
    <3>2. x = q[i - Len(p)]
      BY <1>1, <2>1, <3>1
    <3> QED  BY <1>2, <3>1, <3>2 DEF ToSet
  <2> QED  BY <2>2, <2>3
<1>4. ASSUME NEW x \in ToSet(p) PROVE x \in ToSet(p \o q)
  <2>1. PICK i \in 1..Len(p) : x = p[i]
    BY <1>2 DEF ToSet
  <2>2. i \in 1..(Len(p) + Len(q)) /\ (p \o q)[i] = x
    BY <1>1, <1>2, <2>1
  <2> QED  BY <1>2, <2>2 DEF ToSet
<1>5. ASSUME NEW x \in ToSet(q) PROVE x \in ToSet(p \o q)
  <2>1. PICK i \in 1..Len(q) : x = q[i]
    BY <1>2 DEF ToSet
  <2>2. Len(p) + i \in 1..(Len(p) + Len(q)) /\ (p \o q)[Len(p) + i] = x
    BY <1>1, <1>2, <2>1
  <2> QED  BY <1>2, <2>2 DEF ToSet
<1> QED  BY <1>3, <1>4, <1>5

\* The only entry of a vector is the first with what it has.
LEMMA FirstOfOne ==
  ASSUME NEW q, IsVector(q), Len(q) = 1, NEW field, NEW x, q[1][field] = x
  PROVE  FirstWith(q, field, x) = 1
<1>1. q \in Seq({q[i] : i \in 1..Len(q)})
  BY VectorIsSeq
<1>2. LET k == FirstWith(q, field, x)
      IN  k \in 0..Len(q) /\ (k = 0 => \A i \in 1..Len(q) : q[i][field] # x)
  BY <1>1, FirstWithSpec
<1> QED  BY <1>2

\* What is appended to nothing is its only entry.
LEMMA FirstEntry ==
  ASSUME NEW e
  PROVE  Len(Append(<<>>, e)) = 1 /\ Append(<<>>, e)[1] = e
<1>1. Append(<<>>, e) = <<e>>
  OBVIOUS
<1> QED  BY <1>1

\* A selection is no longer than what it is from, and all of it if it is as long.
LEMMA AllWithWhole ==
  ASSUME NEW q, IsVector(q), NEW field, NEW x
  PROVE  /\ Len(AllWith(q, field, x)) <= Len(q)
         /\ Len(AllWith(q, field, x)) = Len(q) => AllWith(q, field, x) = q
<1> DEFINE S == {q[i] : i \in 1..Len(q)}
           X == {x}
<1>1. q \in Seq(S) /\ Len(q) \in Nat
  BY VectorIsSeq DEF IsVector
<1> HIDE DEF S, X
<1>2. PICK f : CollectsUpTo(f, Len(q), S, q, field, X) /\ AllWithin(q, field, X) = f[Len(q)]
  BY <1>1, AllWithinCollects
<1>3. /\ f[0] = <<>>
      /\ \A n \in 0..Len(q) : f[n] \in Seq(S)
      /\ \A n \in 1..Len(q) :
           f[n] = IF q[n][field] \in X THEN Append(f[n - 1], q[n]) ELSE f[n - 1]
  BY <1>2 DEF CollectsUpTo
<1> DEFINE Holds == {n \in 0..Len(q) :
             /\ Len(f[n]) <= n
             /\ Len(f[n]) = n => \A i \in 1..n : q[i][field] \in X}
<1>4. 0 \in Holds
  BY <1>1, <1>3
<1>5. \A n \in 1..Len(q) : n - 1 \in Holds => n \in Holds
  <2> TAKE n \in 1..Len(q)
  <2> HAVE n - 1 \in Holds
  <2>a. n - 1 \in 0..Len(q) /\ n \in Nat
    BY <1>1
  <2>b. q[n] \in S
    BY DEF S
  <2>1. f[n - 1] \in Seq(S) /\ q[n] \in S /\ n - 1 \in 0..Len(q) /\ n \in Nat
    BY <1>3, <2>a, <2>b
  <2>2. Len(f[n - 1]) \in Nat /\ Len(f[n - 1]) <= n - 1
    BY <2>1
  <2>3. CASE q[n][field] \in X
    <3>0. f[n] = Append(f[n - 1], q[n])
      BY <1>3, <2>3
    <3>1. Len(f[n]) = Len(f[n - 1]) + 1
      BY <2>1, <3>0
    <3>2. Len(f[n]) = n => \A i \in 1..(n - 1) : q[i][field] \in X
      BY <2>1, <2>2, <3>1
    <3>3. \A i \in 1..n : i \in 1..(n - 1) \/ i = n
      BY <2>1
    <3> QED  BY <1>1, <2>1, <2>2, <2>3, <3>1, <3>2, <3>3
  <2>4. CASE q[n][field] \notin X
    <3>1. f[n] = f[n - 1]
      BY <1>3, <2>4
    <3>2. Len(f[n]) <= n /\ Len(f[n]) # n
      BY <2>1, <2>2, <3>1
    <3> QED  BY <1>1, <3>2
  <2> QED  BY <2>3, <2>4
<1> HIDE DEF Holds
<1>6. Holds = 0..Len(q)
  <2>1. Holds \in SUBSET (0..Len(q))
    BY DEF Holds
  <2> QED  BY <1>1, <1>4, <1>5, <2>1, UpToInduction
<1>7. /\ Len(f[Len(q)]) <= Len(q)
      /\ Len(f[Len(q)]) = Len(q) => \A i \in 1..Len(q) : q[i][field] \in X
  <2>1. Len(q) \in Holds
    BY <1>1, <1>6
  <2> QED  BY <2>1 DEF Holds
<1>8. Len(AllWithin(q, field, X)) = Len(q) => AllWithin(q, field, X) = q
  BY <1>1, <1>2, <1>7, AllWithinAll
<1> QED  BY <1>2, <1>7, <1>8 DEF AllWith, X

-----------------------------------------------------------------------------
(* Where what is selected comes from.                                      *)

\* g tells where in q the records of p are, of those of q whose field is in X and that are
\* among the first n: in order, and all of them.
PositionsIn(g, p, q, n, field, X) ==
  /\ IsVector(g) /\ IsVector(p) /\ Len(g) = Len(p)
  /\ \A k \in 1..Len(p) : g[k] \in 1..n /\ q[g[k]][field] \in X /\ p[k] = q[g[k]]
  /\ \A k, l \in 1..Len(p) : k < l => g[k] < g[l]
  /\ \A i \in 1..n : q[i][field] \in X => \E k \in 1..Len(p) : g[k] = i

\* One record more, which is selected.
LEMMA OnePositionMore ==
  ASSUME NEW q, NEW n \in Nat, n > 0, NEW g, NEW p, NEW field, NEW X,
         PositionsIn(g, p, q, n - 1, field, X), q[n][field] \in X
  PROVE  PositionsIn(Append(g, n), Append(p, q[n]), q, n, field, X)
<1> DEFINE h == Append(g, n)
           r == Append(p, q[n])
<1>1. /\ IsVector(g) /\ IsVector(p) /\ Len(g) = Len(p) /\ Len(p) \in Nat
      /\ \A k \in 1..Len(p) : g[k] \in 1..(n - 1) /\ q[g[k]][field] \in X /\ p[k] = q[g[k]]
      /\ \A k, l \in 1..Len(p) : k < l => g[k] < g[l]
      /\ \A i \in 1..(n - 1) : q[i][field] \in X => \E k \in 1..Len(p) : g[k] = i
  BY DEF PositionsIn, IsVector
<1>2. /\ IsVector(h) /\ Len(h) = Len(p) + 1 /\ h[Len(p) + 1] = n
      /\ \A k \in 1..Len(p) : h[k] = g[k]
  BY <1>1, VectorAppend
<1>3. /\ IsVector(r) /\ Len(r) = Len(p) + 1 /\ r[Len(p) + 1] = q[n]
      /\ \A k \in 1..Len(p) : r[k] = p[k]
  BY <1>1, VectorAppend
<1> HIDE DEF h, r
<1>4. \A k \in 1..(Len(p) + 1) : k \in 1..Len(p) \/ k = Len(p) + 1
  BY <1>1
<1>5. \A k \in 1..Len(r) : h[k] \in 1..n /\ q[h[k]][field] \in X /\ r[k] = q[h[k]]
  <2> TAKE k \in 1..Len(r)
  <2>1. CASE k \in 1..Len(p)
    <3>1. g[k] \in 1..(n - 1) /\ h[k] = g[k] /\ r[k] = p[k]
      BY <1>1, <1>2, <1>3, <2>1
    <3> QED  BY <1>1, <2>1, <3>1
  <2>2. CASE k = Len(p) + 1
    <3>1. h[k] = n /\ r[k] = q[n] /\ n \in 1..n
      BY <1>2, <1>3, <2>2
    <3> QED  BY <3>1
  <2> QED  BY <1>3, <1>4, <2>1, <2>2
<1>6. \A k, l \in 1..Len(r) : k < l => h[k] < h[l]
  <2> TAKE k, l \in 1..Len(r)
  <2> HAVE k < l
  <2>1. k \in 1..Len(p) /\ h[k] = g[k] /\ g[k] \in 1..(n - 1)
    BY <1>1, <1>2, <1>3
  <2>2. CASE l \in 1..Len(p)
    BY <1>1, <1>2, <2>1, <2>2
  <2>3. CASE l = Len(p) + 1
    BY <1>2, <2>1, <2>3
  <2> QED  BY <1>3, <1>4, <2>2, <2>3
<1>7. \A i \in 1..n : q[i][field] \in X => \E k \in 1..Len(r) : h[k] = i
  <2> TAKE i \in 1..n
  <2> HAVE q[i][field] \in X
  <2>1. CASE i = n
    <3>1. Len(p) + 1 \in 1..Len(r)
      BY <1>1, <1>3
    <3> QED  BY <1>2, <2>1, <3>1
  <2>2. CASE i # n
    <3>1. i \in 1..(n - 1)
      BY <2>2
    <3>2. PICK k \in 1..Len(p) : g[k] = i
      BY <1>1, <3>1
    <3>3. k \in 1..Len(r) /\ h[k] = i
      BY <1>1, <1>2, <1>3, <3>2
    <3> QED  BY <3>3
  <2> QED  BY <2>1, <2>2
<1>8. PositionsIn(h, r, q, n, field, X)
  BY <1>2, <1>3, <1>5, <1>6, <1>7 DEF PositionsIn
<1> QED  BY <1>8 DEF h, r

\* One record more, which is not.
LEMMA OnePositionPassed ==
  ASSUME NEW q, NEW n \in Nat, n > 0, NEW g, NEW p, NEW field, NEW X,
         PositionsIn(g, p, q, n - 1, field, X), q[n][field] \notin X
  PROVE  PositionsIn(g, p, q, n, field, X)
<1>1. \A i \in 1..n : i \in 1..(n - 1) \/ i = n
  OBVIOUS
<1>2. 1..(n - 1) \subseteq 1..n
  OBVIOUS
<1> QED  BY <1>1, <1>2 DEF PositionsIn

\* What is selected from a vector is there at some positions.
LEMMA SelectedPositions ==
  ASSUME NEW q, IsVector(q), NEW field, NEW X
  PROVE  \E g : PositionsIn(g, AllWithin(q, field, X), q, Len(q), field, X)
<1> DEFINE S == {q[i] : i \in 1..Len(q)}
<1>1. q \in Seq(S) /\ Len(q) \in Nat
  BY VectorIsSeq DEF IsVector
<1> HIDE DEF S
<1>2. PICK f : CollectsUpTo(f, Len(q), S, q, field, X) /\ AllWithin(q, field, X) = f[Len(q)]
  BY <1>1, AllWithinCollects
<1> DEFINE Holds == {n \in 0..Len(q) : \E g : PositionsIn(g, f[n], q, n, field, X)}
<1>3. 0 \in Holds
  <2>1. f[0] = <<>>
    BY <1>2 DEF CollectsUpTo
  <2>2. PositionsIn(<<>>, <<>>, q, 0, field, X)
    BY VectorEmpty DEF PositionsIn
  <2> QED  BY <1>1, <2>1, <2>2
<1>4. ASSUME NEW n \in 1..Len(q), n - 1 \in Holds PROVE n \in Holds
  <2>1. PICK g : PositionsIn(g, f[n - 1], q, n - 1, field, X)
    BY <1>4
  <2>2. f[n] = IF q[n][field] \in X THEN Append(f[n - 1], q[n]) ELSE f[n - 1]
    BY <1>2 DEF CollectsUpTo
  <2>3. n \in Nat /\ n > 0 /\ n \in 0..Len(q)
    BY <1>1
  <2>4. PICK p : p = f[n - 1]
    OBVIOUS
  <2>5. CASE q[n][field] \in X
    <3>1. PositionsIn(Append(g, n), Append(p, q[n]), q, n, field, X)
      BY <2>1, <2>3, <2>4, <2>5, OnePositionMore
    <3> QED  BY <2>2, <2>3, <2>4, <2>5, <3>1
  <2>6. CASE q[n][field] \notin X
    <3>1. PositionsIn(g, p, q, n, field, X)
      BY <2>1, <2>3, <2>4, <2>6, OnePositionPassed
    <3> QED  BY <2>2, <2>3, <2>4, <2>6, <3>1
  <2> QED  BY <2>5, <2>6
<1>5. Len(q) \in Holds
  <2>1. Holds \in SUBSET (0..Len(q))
    OBVIOUS
  <2> HIDE DEF Holds
  <2>2. Holds = 0..Len(q)
    BY <1>1, <1>3, <1>4, <2>1, UpToInduction
  <2> QED  BY <1>1, <2>2
<1> QED  BY <1>2, <1>5

===============================================================================
