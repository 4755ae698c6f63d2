----------------------------- MODULE ListsProofs -----------------------------
(***************************************************************************)
(* What the operators of Lists, and the parts and sums of sequences, do.   *)
(* Induction is by a set: the least number outside it contradicts what is  *)
(* known of the number before (UpTo).                                      *)
(***************************************************************************)
EXTENDS Lists, SequenceTheorems, FiniteSetTheorems, WellFoundedInduction, TLAPS

Less == {pair \in Nat \X Nat : pair[1] < pair[2]}

\* The numbers are well-founded.
LEMMA LessWellFounded == IsWellFoundedOn(Less, Nat)
BY NatLessThanWellFounded DEF OpToRel, Less

\* Induction up to n: a set that holds 0 and, with each number below n, the
\* next one, holds them all.
LEMMA UpTo ==
  ASSUME NEW n \in Nat, NEW S, 0 \in S, \A i \in 0..(n - 1) : i \in S => i + 1 \in S
  PROVE  \A i \in 0..n : i \in S
<1>. DEFINE T == (0..n) \ S
<1>1. SUFFICES ASSUME T # {} PROVE FALSE
  OBVIOUS
<1>2. T \subseteq Nat
  OBVIOUS
<1>3. PICK x \in T : \A y \in T : <<y, x>> \notin Less
  <2>. HIDE DEF T
  <2>. QED
    BY <1>1, <1>2, LessWellFounded, WFMin
<1>4. x \in 0..n /\ x # 0 /\ x - 1 \in 0..(n - 1) /\ x - 1 \in 0..n /\ x - 1 < x /\ (x - 1) + 1 = x
  OBVIOUS
<1>5. <<x - 1, x>> \in Less
  BY <1>4 DEF Less
<1>6. x - 1 \in S
  BY <1>3, <1>4, <1>5
<1>. QED
  BY <1>4, <1>6

\* A part of 1..n has a greatest element.
LEMMA MaxExists ==
  ASSUME NEW n \in Nat, NEW t, t \subseteq 1..n, t # {}
  PROVE  Max(t) \in t /\ \A x \in t : x <= Max(t)
<1>. DEFINE Has(i) == \A u \in SUBSET (1..i) : u # {} => \E m \in u : \A x \in u : m >= x
            S == {i \in Nat : Has(i)}
<1>1. 0 \in S
  <2>1. \A u \in SUBSET (1..0) : u = {}
    OBVIOUS
  <2>. QED
    BY <2>1
<1>2. ASSUME NEW i \in 0..(n - 1), i \in S PROVE i + 1 \in S
  <2>1. SUFFICES ASSUME NEW u \in SUBSET (1..(i + 1)), u # {} PROVE \E m \in u : \A x \in u : m >= x
    OBVIOUS
  <2>2. CASE i + 1 \in u
    BY <2>2
  <2>3. CASE i + 1 \notin u
    <3>1. u \in SUBSET (1..i)
      BY <2>3
    <3>2. Has(i)
      BY <1>2
    <3>. QED
      BY <2>1, <3>1, <3>2
  <2>. QED
    BY <2>2, <2>3
<1>3. \A i \in 0..n : i \in S
  <2>. HIDE DEF S
  <2>. QED
    BY <1>1, <1>2, UpTo
<1>4. Has(n)
  <2>1. n \in 0..n
    OBVIOUS
  <2>. QED
    BY <1>3, <2>1
<1>5. \E m \in t : \A x \in t : m >= x
  BY <1>4
<1>6. Max(t) \in t /\ \A x \in t : Max(t) >= x
  BY <1>5 DEF Max
<1>. QED
  BY <1>6

\* That of 1..i is i.
LEMMA MaxOfPrefix ==
  ASSUME NEW i \in Nat \ {0}
  PROVE  Max(1..i) = i /\ (1..i) \ {i} = 1..(i - 1) /\ 1..i # {}
<1>1. i \in 1..i /\ 1..i # {}
  OBVIOUS
<1>2. Max(1..i) \in 1..i /\ \A x \in 1..i : x <= Max(1..i)
  BY <1>1, MaxExists
<1>3. Max(1..i) = i
  BY <1>1, <1>2
<1>. QED
  BY <1>1, <1>3

\* d makes of a value in X and an element of s a value in X again.
Foldable(X, E, base, s, d) == base \in X /\ s \in Seq(E) /\ d \in [X \X E -> X]

\* g is what folding d over parts of s makes of each part (Folds).
Folding(g, n, s, base, d) ==
  \A t \in SUBSET (1..n) : g[t] = IF t = {} THEN base ELSE d[<<g[t \ {Max(t)}], s[Max(t)]>>]

\* A fold exists: the recursive definition of Folds has a solution.
LEMMA FoldExists ==
  ASSUME NEW X, NEW E, NEW base \in X, NEW n \in Nat, NEW s \in [1..n -> E], NEW d \in [X \X E -> X]
  PROVE  \E g \in [SUBSET (1..n) -> X] : Folding(g, n, s, base, d)
<1>. DEFINE Good(i, g) == Folding(g, i, s, base, d)
            S == {i \in Nat : i <= n => \E g \in [SUBSET (1..i) -> X] : Good(i, g)}
<1>1. 0 \in S
  <2>1. SUBSET (1..0) = {{}}
    OBVIOUS
  <2>2. [t \in {{}} |-> base] \in [SUBSET (1..0) -> X]
    BY <2>1
  <2>3. Good(0, [t \in {{}} |-> base])
    BY <2>1 DEF Folding
  <2>. QED
    BY <2>2, <2>3
<1>2. ASSUME NEW i \in 0..(n - 1), i \in S PROVE i + 1 \in S
  <2>0. i \in Nat /\ i + 1 \in Nat
    OBVIOUS
  <2>1. PICK g \in [SUBSET (1..i) -> X] : Good(i, g)
    <3>1. i <= n
      OBVIOUS
    <3>. HIDE DEF Good
    <3>. QED
      BY <1>2, <3>1
  <2>. DEFINE h == [t \in SUBSET (1..(i + 1)) |->
                      IF i + 1 \in t THEN d[<<g[t \ {i + 1}], s[i + 1]>>] ELSE g[t]]
  <2>2. \A t \in SUBSET (1..(i + 1)) : t \ {i + 1} \in SUBSET (1..i)
    OBVIOUS
  <2>3. h \in [SUBSET (1..(i + 1)) -> X]
    <3>1. SUFFICES ASSUME NEW t \in SUBSET (1..(i + 1)) PROVE h[t] \in X
      OBVIOUS
    <3>2. CASE i + 1 \in t
      <4>1. g[t \ {i + 1}] \in X /\ s[i + 1] \in E
        BY <2>2
      <4>. QED
        BY <3>2, <4>1
    <3>3. CASE i + 1 \notin t
      <4>1. t \in SUBSET (1..i)
        BY <3>3
      <4>. QED
        BY <3>3, <4>1
    <3>. QED
      BY <3>2, <3>3
  <2>4. ASSUME NEW t \in SUBSET (1..(i + 1))
        PROVE  h[t] = IF t = {} THEN base ELSE d[<<h[t \ {Max(t)}], s[Max(t)]>>]
    <3>1. CASE i + 1 \in t
      <4>1. t # {} /\ t \subseteq 1..(i + 1) /\ i + 1 \in Nat
        BY <3>1
      <4>2. Max(t) \in t /\ \A x \in t : x <= Max(t)
        BY <2>0, <4>1, MaxExists
      <4>3. Max(t) = i + 1
        <5>1. Max(t) \in 1..(i + 1) /\ i + 1 <= Max(t)
          BY <3>1, <4>2
        <5>. QED
          BY <2>0, <5>1
      <4>4. h[t \ {i + 1}] = g[t \ {i + 1}]
        OBVIOUS
      <4>. QED
        BY <3>1, <4>1, <4>3, <4>4
    <3>2. CASE i + 1 \notin t
      <4>1. t \in SUBSET (1..i) /\ h[t] = g[t]
        BY <3>2
      <4>2. CASE t # {}
        <5>1. Max(t) \in t
          BY <2>0, <4>1, <4>2, MaxExists
        <5>2. t \ {Max(t)} \in SUBSET (1..i) /\ i + 1 \notin t \ {Max(t)}
          BY <3>2, <4>1, Zenon
        <5>3. h[t \ {Max(t)}] = g[t \ {Max(t)}]
          BY <5>2
        <5>. QED
          BY <2>1, <4>1, <4>2, <5>3 DEF Folding
      <4>. QED
        BY <2>1, <4>1, <4>2 DEF Folding
    <3>. QED
      BY <3>1, <3>2
  <2>5. Good(i + 1, h)
    BY <2>4 DEF Folding
  <2>. HIDE DEF h, Good
  <2>. QED
    BY <2>0, <2>3, <2>5
<1>3. \A i \in 0..n : i \in S
  <2>. HIDE DEF S
  <2>. QED
    BY <1>1, <1>2, UpTo
<1>4. n \in 0..n /\ n <= n
  OBVIOUS
<1>. QED
  BY <1>3, <1>4

\* h folds s as d does, as long as what it has made stays in X.
Follows(h, s, X, base, d) ==
  /\ h[{}] = base
  /\ \A t \in SUBSET (1..Len(s)) :
       t # {} /\ h[t \ {Max(t)}] \in X => h[t] = d[<<h[t \ {Max(t)}], s[Max(t)]>>]
\* f is what folding d over s has made after each element.
Trace(f, X, s, base, d, h) ==
  /\ f \in [0..Len(s) -> X] /\ f[0] = base /\ f[Len(s)] = h[1..Len(s)]
  /\ \A i \in 1..Len(s) : f[i] = d[<<f[i - 1], s[i]>>]

\* What a fold has made of the first i elements, for each i.
LEMMA FoldTrace ==
  ASSUME NEW X, NEW E, NEW base, NEW s, NEW d, Foldable(X, E, base, s, d),
         NEW h, Follows(h, s, X, base, d)
  PROVE  \E f : Trace(f, X, s, base, d, h)
<1>. USE DEF Foldable
<1>. DEFINE n == Len(s)
            f == [i \in 0..n |-> h[1..i]]
            S == {i \in 0..n : f[i] \in X}
<1>0. n \in Nat /\ 1..0 = {}
  OBVIOUS
<1>1. f[0] = base /\ f[n] = h[1..n]
  BY <1>0 DEF Follows
<1>2. ASSUME NEW i \in 1..n, f[i - 1] \in X PROVE f[i] = d[<<f[i - 1], s[i]>>] /\ f[i] \in X
  <2>1. i \in Nat \ {0} /\ i - 1 \in 0..n /\ i \in 0..n /\ 1..i \in SUBSET (1..n)
    BY <1>0
  <2>2. Max(1..i) = i /\ (1..i) \ {i} = 1..(i - 1) /\ 1..i # {}
    BY <2>1, MaxOfPrefix
  <2>3. f[i - 1] = h[1..(i - 1)] /\ f[i] = h[1..i]
    BY <2>1
  <2>4. f[i] = d[<<f[i - 1], s[i]>>]
    BY <1>2, <2>1, <2>2, <2>3 DEF Follows
  <2>5. s[i] \in E
    OBVIOUS
  <2>. QED
    BY <1>2, <2>4, <2>5
<1>3. \A i \in 0..n : i \in S
  <2>1. 0 \in S
    BY <1>0, <1>1
  <2>2. ASSUME NEW i \in 0..(n - 1), i \in S PROVE i + 1 \in S
    <3>1. i + 1 \in 1..n /\ (i + 1) - 1 = i /\ i + 1 \in 0..n
      BY <1>0
    <3>. QED
      BY <1>2, <2>2, <3>1
  <2>. HIDE DEF S
  <2>. QED
    BY <1>0, <2>1, <2>2, UpTo
<1>4. \A i \in 0..n : f[i] \in X
  BY <1>3
<1>5. f \in [0..n -> X]
  BY <1>4
<1>6. \A i \in 1..n : f[i] = d[<<f[i - 1], s[i]>>]
  <2>1. \A i \in 1..n : i - 1 \in 0..n
    BY <1>0
  <2>. QED
    BY <1>2, <1>4, <2>1
<1>. HIDE DEF f
<1>. QED
  BY <1>1, <1>5, <1>6 DEF Trace

\* f is what Only has kept of the first i elements, for each i.
OnlyTrace(f, E, s, K) ==
  /\ f \in [0..Len(s) -> Seq(E)] /\ f[0] = <<>> /\ f[Len(s)] = Only(s, K)
  /\ \A i \in 1..Len(s) : f[i] = IF s[i] \in K THEN Append(f[i - 1], s[i]) ELSE f[i - 1]

\* Only goes through s element by element.
LEMMA OnlySteps ==
  ASSUME NEW E, NEW s \in Seq(E), NEW K
  PROVE  \E f : OnlyTrace(f, E, s, K)
<1>. DEFINE n == Len(s)
            d == [p \in Seq(E) \X E |-> IF p[2] \in K THEN Append(p[1], p[2]) ELSE p[1]]
            Body(g) == [t \in SUBSET (DOMAIN s) |-> IF t = {} THEN <<>>
                            ELSE IF s[Max(t)] \in K THEN Append(g[t \ {Max(t)}], s[Max(t)]) ELSE g[t \ {Max(t)}]]
            h == CHOOSE g : g = Body(g)
<1>1. n \in Nat /\ s \in [1..n -> E] /\ DOMAIN s = 1..n /\ <<>> \in Seq(E)
  OBVIOUS
<1>2. d \in [Seq(E) \X E -> Seq(E)]
  OBVIOUS
<1>3. \A t \in SUBSET (1..n) : t # {} => s[Max(t)] \in E
  BY <1>1, MaxExists
<1>4. \A v \in Seq(E), x \in E : d[<<v, x>>] = IF x \in K THEN Append(v, x) ELSE v
  OBVIOUS
<1>5. PICK g \in [SUBSET (1..n) -> Seq(E)] : Folding(g, n, s, <<>>, d)
  <2>. HIDE DEF d, n, Body, h
  <2>. QED
    BY <1>1, <1>2, FoldExists
<1>6. g = Body(g)
  BY <1>1, <1>3, <1>4, <1>5 DEF Folding
<1>7. h = Body(h)
  BY <1>6
<1>8. Only(s, K) = h[1..n]
  BY <1>1 DEF Only, FoldLeft, MapThenFoldSet
<1>9. Follows(h, s, Seq(E), <<>>, d)
  <2>. HIDE DEF h, d
  <2>. QED
    BY <1>1, <1>3, <1>4, <1>7 DEF Follows
<1>13. Foldable(Seq(E), E, <<>>, s, d)
  BY <1>1, <1>2 DEF Foldable
<1>10. PICK f : Trace(f, Seq(E), s, <<>>, d, h)
  <2>. HIDE DEF h, d, Body
  <2>. QED
    BY <1>9, <1>13, FoldTrace
<1>11. \A i \in 1..n : f[i - 1] \in Seq(E) /\ s[i] \in E
  BY <1>1, <1>10 DEF Trace
<1>12. \A i \in 1..n : f[i] = IF s[i] \in K THEN Append(f[i - 1], s[i]) ELSE f[i - 1]
  BY <1>4, <1>10, <1>11 DEF Trace
<1>. QED
  BY <1>8, <1>10, <1>12 DEF Trace, OnlyTrace

\* e says where in s each element of o stands; all of s that is in K is there.
Picks(e, o, s, K) ==
  /\ e \in [1..Len(o) -> 1..Len(s)]
  /\ \A k, m \in 1..Len(o) : k < m => e[k] < e[m]
  /\ \A k \in 1..Len(o) : o[k] = s[e[k]] /\ s[e[k]] \in K
  /\ \A i \in 1..Len(s) : s[i] \in K => \E k \in 1..Len(o) : e[k] = i

\* Only picks the elements of s that are in K, in their order.
LEMMA OnlyPicks ==
  ASSUME NEW E, NEW s \in Seq(E), NEW K
  PROVE  Only(s, K) \in Seq(E) /\ \E e : Picks(e, Only(s, K), s, K)
<1>. DEFINE n == Len(s)
            P(e, o, i) == /\ e \in [1..Len(o) -> 1..i]
                          /\ \A k, m \in 1..Len(o) : k < m => e[k] < e[m]
                          /\ \A k \in 1..Len(o) : o[k] = s[e[k]] /\ s[e[k]] \in K
                          /\ \A j \in 1..i : s[j] \in K => \E k \in 1..Len(o) : e[k] = j
<1>0. PICK f : OnlyTrace(f, E, s, K)
  BY OnlySteps
<1>1. /\ f \in [0..n -> Seq(E)] /\ f[0] = <<>> /\ f[n] = Only(s, K)
      /\ \A i \in 1..n : f[i] = IF s[i] \in K THEN Append(f[i - 1], s[i]) ELSE f[i - 1]
  BY <1>0 DEF OnlyTrace
<1>. DEFINE S == {i \in 0..n : \E e : P(e, f[i], i)}
<1>2. n \in Nat /\ n \in 0..n /\ 0 \in 0..n
  OBVIOUS
<1>3. 0 \in S
  <2>1. P([k \in 1..0 |-> 0], f[0], 0)
    BY <1>1
  <2>. QED
    BY <1>2, <2>1
<1>4. ASSUME NEW i \in 0..(n - 1), i \in S PROVE i + 1 \in S
  <2>1. i \in Nat /\ i + 1 \in 1..n /\ (i + 1) - 1 = i /\ i + 1 \in 0..n /\ i \in 0..n
    BY <1>2
  <2>2. PICK e : P(e, f[i], i)
    <3>. HIDE DEF P
    <3>. QED
      BY <1>4
  <2>3. f[i] \in Seq(E) /\ s[i + 1] \in E /\ Len(f[i]) \in Nat
    BY <1>1, <2>1
  <2>4. CASE s[i + 1] \in K
    <3>1. f[i + 1] = Append(f[i], s[i + 1])
      BY <1>1, <2>1, <2>4
    <3>. DEFINE o == f[i + 1]
                m == Len(f[i])
                e2 == [k \in 1..(m + 1) |-> IF k = m + 1 THEN i + 1 ELSE e[k]]
    <3>2. Len(o) = m + 1 /\ o[m + 1] = s[i + 1] /\ \A k \in 1..m : o[k] = f[i][k]
      BY <2>3, <3>1
    <3>3. e2 \in [1..Len(o) -> 1..(i + 1)]
      BY <2>1, <2>2, <2>3, <3>2
    <3>4. ASSUME NEW k \in 1..Len(o), NEW l \in 1..Len(o), k < l PROVE e2[k] < e2[l]
      <4>0. k \in 1..m
        <5>. HIDE DEF m, o
        <5>. QED
          BY <2>3, <3>2, <3>4 DEF m
      <4>1. e2[k] = e[k] /\ e[k] \in 1..i
        <5>1. k \in 1..(m + 1) /\ k # m + 1
          <6>. HIDE DEF m
          <6>. QED
            BY <2>3, <4>0 DEF m
        <5>2. e2[k] = e[k]
          BY <5>1
        <5>3. e[k] \in 1..i
          BY <2>2, <4>0
        <5>. QED
          BY <5>2, <5>3
      <4>2. l \in 1..m \/ l = m + 1
        BY <2>3, <3>2
      <4>3. CASE l = m + 1
        BY <2>1, <2>3, <4>0, <4>1, <4>3
      <4>4. CASE l \in 1..m
        <5>1. e2[l] = e[l] /\ e[k] < e[l]
          BY <2>2, <2>3, <3>4, <4>0, <4>4
        <5>. QED
          BY <4>1, <5>1
      <4>. QED
        BY <4>2, <4>3, <4>4
    <3>5. \A k \in 1..Len(o) : o[k] = s[e2[k]] /\ s[e2[k]] \in K
      BY <2>2, <2>3, <2>4, <3>2
    <3>6. \A j \in 1..(i + 1) : s[j] \in K => \E k \in 1..Len(o) : e2[k] = j
      <4>1. \A j \in 1..i : s[j] \in K => \E k \in 1..m : e2[k] = j
        BY <2>2, <2>3
      <4>2. e2[m + 1] = i + 1 /\ m + 1 \in 1..Len(o)
        BY <2>3, <3>2
      <4>3. \A j \in 1..(i + 1) : j \in 1..i \/ j = i + 1
        BY <2>1
      <4>4. 1..m \subseteq 1..Len(o)
        BY <2>3, <3>2
      <4>. HIDE DEF e2, o, m
      <4>. QED
        BY <4>1, <4>2, <4>3, <4>4
    <3>7. P(e2, f[i + 1], i + 1)
      <4>. HIDE DEF e2
      <4>. QED
        BY <3>3, <3>4, <3>5, <3>6
    <3>. HIDE DEF P, e2
    <3>. QED
      BY <2>1, <3>7
  <2>5. CASE s[i + 1] \notin K
    <3>1. f[i + 1] = f[i]
      BY <1>1, <2>1, <2>5
    <3>2. P(e, f[i + 1], i + 1)
      BY <2>1, <2>2, <2>5, <3>1
    <3>. HIDE DEF P
    <3>. QED
      BY <2>1, <3>2
  <2>. QED
    BY <2>4, <2>5
<1>5. \A i \in 0..n : i \in S
  <2>. HIDE DEF S
  <2>. QED
    BY <1>2, <1>3, <1>4, UpTo
<1>6. PICK e : P(e, f[n], n)
  <2>. HIDE DEF P
  <2>. QED
    BY <1>2, <1>5
<1>7. Picks(e, Only(s, K), s, K)
  BY <1>1, <1>6 DEF Picks
<1>. QED
  BY <1>1, <1>2, <1>7

\* Only keeps the elements that are in K and no other, none twice.
LEMMA OnlyRange ==
  ASSUME NEW E, NEW s \in Seq(E), NEW K
  PROVE  /\ Only(s, K) \in Seq(E) /\ ToSet(Only(s, K)) = ToSet(s) \intersect K
         /\ IsInjective(s) => IsInjective(Only(s, K))
<1>. DEFINE o == Only(s, K)
<1>1. o \in Seq(E)
  BY OnlyPicks
<1>2. PICK e : Picks(e, o, s, K)
  BY OnlyPicks
<1>3. DOMAIN o = 1..Len(o) /\ DOMAIN s = 1..Len(s) /\ Len(s) \in Nat /\ Len(o) \in Nat
  <2>. HIDE DEF o
  <2>. QED
    BY <1>1
<1>. HIDE DEF o
<1>4. ToSet(o) = ToSet(s) \intersect K
  <2>1. ASSUME NEW k \in DOMAIN o PROVE \E i \in DOMAIN s : o[k] = s[i] /\ s[i] \in K
    BY <1>2, <1>3 DEF Picks
  <2>2. ASSUME NEW i \in DOMAIN s, s[i] \in K PROVE \E k \in DOMAIN o : o[k] = s[i]
    BY <1>2, <1>3, <2>2 DEF Picks
  <2>. QED
    BY <2>1, <2>2 DEF ToSet
<1>5. ASSUME IsInjective(s), NEW k \in DOMAIN o, NEW m \in DOMAIN o, o[k] = o[m] PROVE k = m
  <2>1. e[k] \in DOMAIN s /\ e[m] \in DOMAIN s /\ s[e[k]] = s[e[m]]
    BY <1>2, <1>3, <1>5 DEF Picks
  <2>2. e[k] = e[m]
    BY <1>5, <2>1 DEF IsInjective
  <2>3. e[k] \in Nat /\ ~(k < m) /\ ~(m < k)
    BY <1>2, <1>3, <2>2 DEF Picks
  <2>. QED
    BY <1>3, <2>3
<1>. QED
  BY <1>1, <1>4, <1>5 DEF o, IsInjective

\* Only keeps a sequence all of whose elements are in K as it is.
LEMMA OnlyAll ==
  ASSUME NEW E, NEW s \in Seq(E), NEW K, ToSet(s) \subseteq K
  PROVE  Only(s, K) = s
<1>. DEFINE n == Len(s)
<1>1. PICK f : OnlyTrace(f, E, s, K)
  BY OnlySteps
<1>. DEFINE S == {i \in 0..n : f[i] = SubSeq(s, 1, i)}
<1>2. n \in Nat /\ n \in 0..n /\ 0 \in 0..n /\ \A i \in 1..n : s[i] \in K /\ s[i] \in E
  BY DEF ToSet
<1>3. 0 \in S
  <2>1. SubSeq(s, 1, 0) = <<>>
    OBVIOUS
  <2>. QED
    BY <1>1, <1>2, <2>1 DEF OnlyTrace
<1>4. ASSUME NEW i \in 0..(n - 1), i \in S PROVE i + 1 \in S
  <2>1. i + 1 \in 1..n /\ (i + 1) - 1 = i /\ i + 1 \in 0..n /\ f[i] = SubSeq(s, 1, i)
    BY <1>2, <1>4
  <2>2. f[i + 1] = Append(SubSeq(s, 1, i), s[i + 1])
    BY <1>1, <1>2, <2>1 DEF OnlyTrace
  <2>3. Append(SubSeq(s, 1, i), s[i + 1]) = SubSeq(s, 1, i + 1)
    BY <1>2, <2>1
  <2>. QED
    BY <2>1, <2>2, <2>3
<1>5. \A i \in 0..n : i \in S
  <2>. HIDE DEF S
  <2>. QED
    BY <1>2, <1>3, <1>4, UpTo
<1>6. f[n] = s
  <2>1. SubSeq(s, 1, n) = s
    OBVIOUS
  <2>. QED
    BY <1>2, <1>5, <2>1
<1>. QED
  BY <1>1, <1>6 DEF OnlyTrace

\* A rising sequence of positions is at least as high as it is long.
LEMMA Rising ==
  ASSUME NEW m \in Nat, NEW n \in Nat, NEW e \in [1..m -> 1..n],
         \A k, l \in 1..m : k < l => e[k] < e[l]
  PROVE  m <= n /\ \A k \in 1..m : k <= e[k]
<1>. DEFINE S == {k \in 0..m : k = 0 \/ k <= e[k]}
<1>1. 0 \in S
  OBVIOUS
<1>2. ASSUME NEW k \in 0..(m - 1), k \in S PROVE k + 1 \in S
  <2>1. k \in Nat /\ k + 1 \in 1..m /\ e[k + 1] \in 1..n
    OBVIOUS
  <2>2. CASE k = 0
    BY <2>1, <2>2
  <2>3. CASE k # 0
    <3>1. k \in 1..m /\ k <= e[k] /\ k < k + 1 /\ e[k] \in 1..n
      BY <1>2, <2>1, <2>3
    <3>2. e[k] < e[k + 1]
      BY <2>1, <3>1
    <3>. QED
      BY <2>1, <3>1, <3>2
  <2>. QED
    BY <2>2, <2>3
<1>3. \A k \in 0..m : k \in S
  <2>. HIDE DEF S
  <2>. QED
    BY <1>1, <1>2, UpTo
<1>4. \A k \in 1..m : k <= e[k]
  BY <1>3
<1>5. m <= n
  BY <1>4
<1>. QED
  BY <1>4, <1>5

\* A part of a sequence.
LEMMA PartOf ==
  ASSUME NEW E, NEW s \in Seq(E), NEW m \in Nat \ {0}, NEW n \in (m - 1)..Len(s)
  PROVE  /\ SubSeq(s, m, n) \in Seq(E) /\ Len(SubSeq(s, m, n)) = n - m + 1
         /\ DOMAIN SubSeq(s, m, n) = 1..(n - m + 1)
         /\ \A i \in 1..(n - m + 1) : m + i - 1 \in 1..Len(s) /\ SubSeq(s, m, n)[i] = s[m + i - 1]
         /\ ToSet(SubSeq(s, m, n)) \subseteq ToSet(s)
         /\ IsInjective(s) => IsInjective(SubSeq(s, m, n))
<1>. DEFINE p == SubSeq(s, m, n)
<1>1. Len(s) \in Nat /\ n \in Nat /\ DOMAIN s = 1..Len(s) /\ \A i \in m..n : s[i] \in E
  OBVIOUS
<1>2. /\ p \in Seq(E) /\ Len(p) = IF m <= n THEN n - m + 1 ELSE 0
      /\ \A i \in 1..(n - m + 1) : p[i] = s[m + i - 1]
  <2>1. m \in Int /\ n \in Int
    BY <1>1
  <2>. QED
    BY <1>1, <2>1, SubSeqProperties
<1>. HIDE DEF p
<1>3. Len(p) = n - m + 1
  BY <1>1, <1>2
<1>4. DOMAIN p = 1..(n - m + 1)
  BY <1>2, <1>3
<1>5. ASSUME NEW i \in 1..(n - m + 1) PROVE m + i - 1 \in 1..Len(s) /\ p[i] = s[m + i - 1]
  BY <1>1, <1>2
<1>6. ToSet(p) \subseteq ToSet(s)
  BY <1>1, <1>4, <1>5 DEF ToSet
<1>7. ASSUME IsInjective(s), NEW i \in 1..(n - m + 1), NEW j \in 1..(n - m + 1), p[i] = p[j] PROVE i = j
  <2>1. m + i - 1 = m + j - 1
    BY <1>1, <1>5, <1>7 DEF IsInjective
  <2>. QED
    BY <2>1
<1>8. IsInjective(s) => IsInjective(p)
  BY <1>4, <1>7 DEF IsInjective
<1>. QED
  BY <1>2, <1>3, <1>4, <1>5, <1>6, <1>8 DEF p

\* Two sequences put together.
LEMMA Concatenation ==
  ASSUME NEW E, NEW s \in Seq(E), NEW t \in Seq(E)
  PROVE  /\ (s \o t) \in Seq(E) /\ ToSet((s \o t)) = ToSet(s) \union ToSet(t)
         /\ Len((s \o t)) = Len(s) + Len(t) /\ DOMAIN (s \o t) = 1..(Len(s) + Len(t))
         /\ \A i \in DOMAIN s : i \in DOMAIN (s \o t) /\ (s \o t)[i] = s[i]
         /\ \A i \in DOMAIN t : Len(s) + i \in DOMAIN (s \o t) /\ (s \o t)[Len(s) + i] = t[i]
         /\ \A i \in DOMAIN (s \o t) : i \in DOMAIN s \/ i - Len(s) \in DOMAIN t
         /\ IsInjective(s) /\ IsInjective(t) /\ ToSet(s) \intersect ToSet(t) = {} => IsInjective((s \o t))
<1>. DEFINE c == s \o t
<1>1. /\ Len(s) \in Nat /\ Len(t) \in Nat /\ DOMAIN s = 1..Len(s) /\ DOMAIN t = 1..Len(t)
  OBVIOUS
<1>2. /\ c \in Seq(E) /\ Len(c) = Len(s) + Len(t)
      /\ \A i \in 1..(Len(s) + Len(t)) : c[i] = IF i <= Len(s) THEN s[i] ELSE t[i - Len(s)]
  BY ConcatProperties
<1>. HIDE DEF c
<1>3. DOMAIN c = 1..(Len(s) + Len(t))
  BY <1>2
<1>4. ASSUME NEW i \in DOMAIN s PROVE i \in DOMAIN c /\ c[i] = s[i]
  BY <1>1, <1>2, <1>3
<1>5. ASSUME NEW i \in DOMAIN t PROVE Len(s) + i \in DOMAIN c /\ c[Len(s) + i] = t[i]
  <2>1. Len(s) + i \in 1..(Len(s) + Len(t)) /\ ~(Len(s) + i <= Len(s)) /\ (Len(s) + i) - Len(s) = i
    BY <1>1
  <2>. QED
    BY <1>2, <1>3, <2>1
<1>6. ASSUME NEW i \in DOMAIN c
      PROVE  i \in Nat /\ \/ i \in DOMAIN s /\ c[i] = s[i]
                          \/ i - Len(s) \in DOMAIN t /\ c[i] = t[i - Len(s)]
  BY <1>1, <1>2, <1>3
<1>7. ToSet(c) = ToSet(s) \union ToSet(t)
  <2>1. ToSet(c) \subseteq ToSet(s) \union ToSet(t)
    BY <1>6 DEF ToSet
  <2>2. ToSet(s) \subseteq ToSet(c)
    BY <1>4 DEF ToSet
  <2>3. ToSet(t) \subseteq ToSet(c)
    BY <1>5 DEF ToSet
  <2>. QED
    BY <2>1, <2>2, <2>3
<1>8. ASSUME IsInjective(s), IsInjective(t), ToSet(s) \intersect ToSet(t) = {},
             NEW i \in DOMAIN c, NEW j \in DOMAIN c, c[i] = c[j]
      PROVE  i = j
  <2>1. CASE i \in DOMAIN s /\ j \in DOMAIN s
    BY <1>4, <1>8, <2>1 DEF IsInjective
  <2>2. CASE i - Len(s) \in DOMAIN t /\ j - Len(s) \in DOMAIN t
    <3>1. c[i] = t[i - Len(s)] /\ c[j] = t[j - Len(s)]
      BY <1>1, <1>6, <2>2
    <3>2. i - Len(s) = j - Len(s)
      BY <1>8, <2>2, <3>1 DEF IsInjective
    <3>. QED
      BY <1>1, <1>6, <3>2
  <2>3. \A k \in DOMAIN c : k \in DOMAIN s => c[k] \in ToSet(s)
    BY <1>4 DEF ToSet
  <2>4. \A k \in DOMAIN c : k \notin DOMAIN s => c[k] \in ToSet(t)
    BY <1>6 DEF ToSet
  <2>. QED
    BY <1>6, <1>8, <2>1, <2>2, <2>3, <2>4
<1>. QED
  BY <1>1, <1>2, <1>3, <1>4, <1>5, <1>6, <1>7, <1>8 DEF IsInjective, c

\* One more element.
LEMMA Appending ==
  ASSUME NEW E, NEW s \in Seq(E), NEW x \in E
  PROVE  /\ Append(s, x) \in Seq(E) /\ ToSet(Append(s, x)) = ToSet(s) \union {x}
         /\ IsInjective(s) /\ x \notin ToSet(s) => IsInjective(Append(s, x))
<1>1. Append(s, x) = s \o <<x>> /\ <<x>> \in Seq(E)
  BY AppendIsConcat
<1>2. ToSet(<<x>>) = {x} /\ IsInjective(<<x>>)
  BY DEF ToSet, IsInjective
<1>3. ASSUME x \notin ToSet(s) PROVE ToSet(s) \intersect ToSet(<<x>>) = {}
  BY <1>2, <1>3
<1>4. /\ s \o <<x>> \in Seq(E) /\ ToSet(s \o <<x>>) = ToSet(s) \union ToSet(<<x>>)
      /\ IsInjective(s) /\ IsInjective(<<x>>) /\ ToSet(s) \intersect ToSet(<<x>>) = {} => IsInjective(s \o <<x>>)
  BY ZenonT(40), <1>1, Concatenation
<1>. QED
  BY <1>1, <1>2, <1>3, <1>4

\* A sequence cut in two.
LEMMA Cut ==
  ASSUME NEW E, NEW s \in Seq(E), NEW k \in 0..Len(s), IsInjective(s)
  PROVE  /\ SubSeq(s, 1, k) \in Seq(E) /\ SubSeq(s, k + 1, Len(s)) \in Seq(E)
         /\ Len(SubSeq(s, 1, k)) = k
         /\ IsInjective(SubSeq(s, 1, k)) /\ IsInjective(SubSeq(s, k + 1, Len(s)))
         /\ ToSet(SubSeq(s, 1, k)) \union ToSet(SubSeq(s, k + 1, Len(s))) = ToSet(s)
         /\ ToSet(SubSeq(s, 1, k)) \intersect ToSet(SubSeq(s, k + 1, Len(s))) = {}
<1>. DEFINE p == SubSeq(s, 1, k)
            n == Len(s)
            m == k + 1
            q == SubSeq(s, m, n)
<1>1. n \in Nat /\ k \in Nat /\ DOMAIN s = 1..n /\ m \in Nat \ {0} /\ n \in (m - 1)..n /\ k \in (1 - 1)..n
  OBVIOUS
<1>2. /\ p \in Seq(E) /\ Len(p) = k - 1 + 1 /\ DOMAIN p = 1..(k - 1 + 1) /\ IsInjective(p)
      /\ ToSet(p) \subseteq ToSet(s) /\ \A i \in 1..(k - 1 + 1) : p[i] = s[1 + i - 1]
  BY <1>1, PartOf
<1>3. /\ q \in Seq(E) /\ DOMAIN q = 1..(n - m + 1) /\ IsInjective(q)
      /\ ToSet(q) \subseteq ToSet(s) /\ \A i \in 1..(n - m + 1) : q[i] = s[m + i - 1]
  BY <1>1, PartOf
<1>4. k - 1 + 1 = k /\ \A i \in 1..k : 1 + i - 1 = i /\ i \in 1..n
  BY <1>1
<1>5. \A i \in 1..(n - m + 1) : m + i - 1 \in 1..n /\ m + i - 1 \notin 1..k
  BY <1>1
<1>6. \A j \in 1..n : j \in 1..k \/ \E i \in 1..(n - m + 1) : m + i - 1 = j
  <2>1. ASSUME NEW j \in 1..n, j \notin 1..k PROVE j - k \in 1..(n - m + 1) /\ m + (j - k) - 1 = j
    BY <1>1, <2>1
  <2>. QED
    BY <2>1
<1>. HIDE DEF p, q, m, n
<1>7. ToSet(p) \union ToSet(q) = ToSet(s)
  <2>1. ASSUME NEW x \in ToSet(s) PROVE x \in ToSet(p) \/ x \in ToSet(q)
    <3>1. PICK j \in 1..n : s[j] = x
      BY <1>1 DEF ToSet
    <3>2. CASE j \in 1..k
      BY <1>2, <1>4, <3>1, <3>2 DEF ToSet
    <3>3. CASE j \notin 1..k
      <4>1. PICK i \in 1..(n - m + 1) : m + i - 1 = j
        BY <1>6, <3>3
      <4>. QED
        BY <1>3, <3>1, <4>1 DEF ToSet
    <3>. QED
      BY <3>2, <3>3
  <2>. QED
    BY <1>2, <1>3, <2>1
<1>8. ToSet(p) \intersect ToSet(q) = {}
  <2>1. ASSUME NEW x \in ToSet(p), x \in ToSet(q) PROVE FALSE
    <3>1. PICK i \in 1..k : p[i] = x
      BY <1>2, <1>4 DEF ToSet
    <3>2. PICK j \in 1..(n - m + 1) : q[j] = x
      BY <1>3, <2>1 DEF ToSet
    <3>3. s[i] = x /\ i \in 1..n
      BY <1>2, <1>4, <3>1
    <3>4. s[m + j - 1] = x /\ m + j - 1 \in 1..n /\ m + j - 1 \notin 1..k
      BY <1>3, <1>5, <3>2
    <3>. QED
      BY <1>1, <3>1, <3>3, <3>4 DEF IsInjective
  <2>. QED
    BY <2>1
<1>. QED
  BY <1>1, <1>2, <1>3, <1>4, <1>7, <1>8 DEF p, q, m, n

\* Counting a set along a sequence that names each of its elements once.
LEMMA Counting ==
  ASSUME NEW n \in Nat, NEW T, NEW f \in [1..n -> T], \A x \in T : \E i \in 1..n : f[i] = x
  PROVE  /\ IsFiniteSet(T)
         /\ (\A i, j \in 1..n : f[i] = f[j] => i = j) => Cardinality(T) = n
<1>1. IsFiniteSet(1..n) /\ Cardinality(1..n) = n
  BY FS_Interval
<1>2. f \in Surjection(1..n, T)
  BY DEF Surjection
<1>3. (\A i, j \in 1..n : f[i] = f[j] => i = j) => f \in Injection(1..n, T)
  BY DEF Injection, IsInjective
<1>. QED
  BY <1>1, <1>2, <1>3, FS_Surjection

---------------------------------------------------------------------------
(* Sums.                                                                   *)
\* f is built along s: each element adds to what is made of the ones before.
Recursion(f, X, s, base, d) ==
  /\ f \in [0..Len(s) -> X] /\ f[0] = base
  /\ \A i \in 1..Len(s) : f[i] = d[<<f[i - 1], s[i]>>]

\* A recursion along a sequence has a solution.
LEMMA Recurses ==
  ASSUME NEW X, NEW E, NEW base, NEW s, NEW d, Foldable(X, E, base, s, d)
  PROVE  \E f : Recursion(f, X, s, base, d)
<1>1. /\ Len(s) \in Nat /\ s \in [1..Len(s) -> E] /\ base \in X /\ d \in [X \X E -> X]
  BY DEF Foldable
<1>2. PICK g \in [SUBSET (1..Len(s)) -> X] : Folding(g, Len(s), s, base, d)
  BY <1>1, FoldExists
<1>3. Follows(g, s, X, base, d)
  BY <1>1, <1>2 DEF Follows, Folding
<1>. QED
  BY <1>3, FoldTrace DEF Trace, Recursion

\* f is the sum of the first i numbers, for each i.
SumTrace(f, s) ==
  /\ f \in [0..Len(s) -> Nat] /\ f[0] = 0 /\ f[Len(s)] = SumUp(s)
  /\ \A i \in 1..Len(s) : f[i] = f[i - 1] + s[i]

\* SumUp goes through s number by number.
LEMMA SumSteps ==
  ASSUME NEW s \in Seq(Nat)
  PROVE  \E f : SumTrace(f, s)
<1>. DEFINE n == Len(s)
            d == [p \in Nat \X Nat |-> p[1] + p[2]]
            Body(g) == [t \in SUBSET (DOMAIN s) |-> IF t = {} THEN 0 ELSE g[t \ {Max(t)}] + s[Max(t)]]
            h == CHOOSE g : g = Body(g)
<1>1. n \in Nat /\ s \in [1..n -> Nat] /\ DOMAIN s = 1..n
  OBVIOUS
<1>2. d \in [Nat \X Nat -> Nat]
  OBVIOUS
<1>3. \A t \in SUBSET (1..n) : t # {} => s[Max(t)] \in Nat
  BY <1>1, MaxExists
<1>4. \A v \in Nat, x \in Nat : d[<<v, x>>] = v + x
  OBVIOUS
<1>5. PICK g \in [SUBSET (1..n) -> Nat] : Folding(g, n, s, 0, d)
  <2>. HIDE DEF d, n, Body, h
  <2>. QED
    BY <1>1, <1>2, FoldExists
<1>6. g = Body(g)
  BY <1>1, <1>3, <1>4, <1>5 DEF Folding
<1>7. h = Body(h)
  BY <1>6
<1>8. SumUp(s) = h[1..n]
  BY <1>1 DEF SumUp, FoldLeft, MapThenFoldSet
<1>9. Follows(h, s, Nat, 0, d)
  <2>. HIDE DEF h, d
  <2>1. \A t \in SUBSET (1..n) : h[t] = IF t = {} THEN 0 ELSE h[t \ {Max(t)}] + s[Max(t)]
    BY <1>1, <1>7
  <2>2. \A t \in SUBSET (1..n) : t # {} /\ h[t \ {Max(t)}] \in Nat =>
          h[t] = d[<<h[t \ {Max(t)}], s[Max(t)]>>]
    BY <1>3, <1>4, <2>1
  <2>. QED
    BY <2>1, <2>2 DEF Follows
<1>10. Foldable(Nat, Nat, 0, s, d)
  BY <1>1, <1>2 DEF Foldable
<1>11. PICK f : Trace(f, Nat, s, 0, d, h)
  <2>. HIDE DEF h, d, Body
  <2>. QED
    BY <1>9, <1>10, FoldTrace
<1>12. \A i \in 1..n : f[i - 1] \in Nat /\ s[i] \in Nat
  <2>. HIDE DEF d, h
  <2>1. \A i \in 1..n : i - 1 \in 0..n
    BY <1>1
  <2>. QED
    BY <1>1, <1>11, <2>1 DEF Trace
<1>13. \A i \in 1..n : f[i] = f[i - 1] + s[i]
  <2>. HIDE DEF d, h
  <2>. QED
    BY <1>4, <1>11, <1>12 DEF Trace
<1>. QED
  <2>. HIDE DEF d, h
  <2>. QED
    BY <1>8, <1>11, <1>13 DEF Trace, SumTrace

\* A running total ends with the sum.
LEMMA SumIs ==
  ASSUME NEW s \in Seq(Nat), NEW g, g[0] = 0, \A i \in 1..Len(s) : g[i] = g[i - 1] + s[i]
  PROVE  SumUp(s) = g[Len(s)] /\ SumUp(s) \in Nat
<1>1. PICK f : SumTrace(f, s)
  BY SumSteps
<1>. DEFINE S == {i \in 0..Len(s) : f[i] = g[i]}
<1>2. Len(s) \in Nat /\ Len(s) \in 0..Len(s) /\ 0 \in S
  BY <1>1 DEF SumTrace
<1>3. ASSUME NEW i \in 0..(Len(s) - 1), i \in S PROVE i + 1 \in S
  <2>1. i + 1 \in 1..Len(s) /\ (i + 1) - 1 = i /\ i + 1 \in 0..Len(s)
    BY <1>2
  <2>2. f[i + 1] = f[i] + s[i + 1]
    BY <1>1, <2>1 DEF SumTrace
  <2>3. g[i + 1] = g[i] + s[i + 1]
    BY <2>1
  <2>. QED
    BY <1>3, <2>1, <2>2, <2>3
<1>4. \A i \in 0..Len(s) : i \in S
  <2>. HIDE DEF S
  <2>. QED
    BY <1>2, <1>3, UpTo
<1>. QED
  BY <1>1, <1>2, <1>4 DEF SumTrace

\* The one fact of addition the running totals need, for a prover that keeps
\* arithmetic apart from applications of functions.
LEMMA Associate ==
  ASSUME NEW a \in Nat, NEW b \in Nat, NEW c \in Nat
  PROVE  a + (b + c) = (a + b) + c
OBVIOUS

\* The sum of two sequences put together.
LEMMA SumOfBoth ==
  ASSUME NEW s \in Seq(Nat), NEW t \in Seq(Nat)
  PROVE  SumUp(s \o t) = SumUp(s) + SumUp(t) /\ SumUp(s) \in Nat /\ SumUp(t) \in Nat
<1>1. PICK f : SumTrace(f, s)
  BY SumSteps
<1>2. PICK g : SumTrace(g, t)
  BY SumSteps
<1>. DEFINE m == Len(s)
            n == Len(t)
            h == [i \in 0..(m + n) |-> IF i <= m THEN f[i] ELSE SumUp(s) + g[i - m]]
            c == s \o t
<1>3. m \in Nat /\ n \in Nat /\ SumUp(s) \in Nat /\ SumUp(t) \in Nat
  <2>1. m \in Nat /\ n \in Nat /\ m \in 0..m /\ n \in 0..n
    OBVIOUS
  <2>. QED
    BY <1>1, <1>2, <2>1 DEF SumTrace
<1>4. c \in Seq(Nat) /\ Len(c) = m + n /\ \A i \in 1..(m + n) : c[i] = IF i <= m THEN s[i] ELSE t[i - m]
  OBVIOUS
<1>5. h[0] = 0 /\ h[m + n] = SumUp(s) + SumUp(t)
  <2>1. 0 \in 0..(m + n) /\ m + n \in 0..(m + n) /\ (m + n) - m = n /\ 0 <= m
    BY <1>3
  <2>2. f[0] = 0 /\ f[m] = SumUp(s) /\ g[n] = SumUp(t) /\ g[0] = 0
    BY <1>1, <1>2 DEF SumTrace
  <2>3. CASE n = 0
    <3>1. m + n = m
      BY <1>3, <2>3
    <3>. QED
      BY <1>3, <2>1, <2>2, <2>3, <3>1
  <2>4. CASE n # 0
    <3>1. ~(m + n <= m)
      BY <1>3, <2>4
    <3>. QED
      BY <2>1, <2>2, <3>1
  <2>. QED
    BY <2>3, <2>4
<1>6. ASSUME NEW i \in 1..(m + n) PROVE h[i] = h[i - 1] + c[i]
  <2>1. i \in 0..(m + n) /\ i - 1 \in 0..(m + n) /\ i \in Nat
    BY <1>3
  <2>2. CASE i <= m
    <3>1. i \in 1..m /\ i - 1 <= m
      BY <1>3, <2>1, <2>2
    <3>. QED
      BY <1>1, <1>4, <2>1, <2>2, <3>1 DEF SumTrace
  <2>3. CASE i = m + 1
    <3>1. ~(i <= m) /\ i - 1 = m /\ i - m = 1 /\ 1 \in 1..n /\ 1 - 1 = 0
      BY <1>3, <2>1, <2>3
    <3>2. g[1] = g[0] + t[1] /\ g[0] = 0 /\ t[1] \in Nat
      BY <1>2, <3>1 DEF SumTrace
    <3>3. g[1] = t[1]
      BY <3>2
    <3>4. h[i] = SumUp(s) + g[1] /\ h[i - 1] = f[m] /\ f[m] = SumUp(s) /\ c[i] = t[1]
      BY <1>1, <1>3, <1>4, <2>1, <3>1 DEF SumTrace
    <3>. QED
      BY <3>3, <3>4
  <2>4. CASE i > m + 1
    <3>1. ~(i <= m) /\ ~(i - 1 <= m) /\ i - m \in 1..n /\ (i - 1) - m = (i - m) - 1 /\ i - m - 1 \in 0..n
      BY <1>3, <2>1, <2>4
    <3>2. g[i - m] = g[i - m - 1] + t[i - m] /\ g[i - m - 1] \in Nat /\ t[i - m] \in Nat
      <4>1. g[i - m] = g[i - m - 1] + t[i - m]
        BY <1>2, <3>1 DEF SumTrace
      <4>2. g[i - m - 1] \in Nat
        BY <1>2, <3>1 DEF SumTrace
      <4>3. t[i - m] \in Nat
        BY <3>1
      <4>. QED
        BY <4>1, <4>2, <4>3
    <3>3. h[i] = SumUp(s) + g[i - m] /\ h[i - 1] = SumUp(s) + g[i - m - 1] /\ c[i] = t[i - m]
      BY <1>4, <2>1, <3>1
    <3>4. SumUp(s) + (g[i - m - 1] + t[i - m]) = (SumUp(s) + g[i - m - 1]) + t[i - m]
      <4>. HIDE DEF m, n, h, c
      <4>. QED
        BY <1>3, <3>2, Associate
    <3>. QED
      BY <3>2, <3>3, <3>4
  <2>. QED
    BY <1>3, <2>1, <2>2, <2>3, <2>4
<1>7. \A i \in 1..Len(c) : h[i] = h[i - 1] + c[i]
  BY <1>4, <1>6
<1>. HIDE DEF h, c
<1>8. SumUp(c) = h[m + n]
  BY <1>4, <1>5, <1>7, SumIs
<1>. QED
  BY <1>3, <1>5, <1>8 DEF c

\* The sum of nothing and of one number.
LEMMA SumOfOne ==
  /\ SumUp(<<>>) = 0
  /\ \A x \in Nat : SumUp(<<x>>) = x
<1>1. SumUp(<<>>) = 0
  <2>1. <<>> \in Seq(Nat) /\ Len(<<>>) = 0 /\ 1..0 = {} /\ [i \in {0} |-> 0][0] = 0
    OBVIOUS
  <2>. QED
    BY <2>1, SumIs
<1>2. ASSUME NEW x \in Nat PROVE SumUp(<<x>>) = x
  <2>. DEFINE g == [i \in 0..1 |-> IF i = 0 THEN 0 ELSE x]
  <2>1. <<x>> \in Seq(Nat) /\ Len(<<x>>) = 1 /\ g[0] = 0 /\ g[1] = x /\ \A i \in 1..1 : g[i] = g[i - 1] + <<x>>[i]
    OBVIOUS
  <2>. HIDE DEF g
  <2>. QED
    BY <2>1, SumIs
<1>. QED
  BY <1>1, <1>2

---------------------------------------------------------------------------
(* Flattening and sorting.                                                 *)
\* f is the first i sequences put together, for each i.
FlatTrace(f, E, ss) ==
  /\ f \in [0..Len(ss) -> Seq(E)] /\ f[0] = <<>> /\ f[Len(ss)] = FlattenSeq(ss)
  /\ \A i \in 1..Len(ss) : f[i] = f[i - 1] \o ss[i]

\* FlattenSeq puts one sequence after the other.
LEMMA FlattenSteps ==
  ASSUME NEW E, NEW ss \in Seq(Seq(E))
  PROVE  \E f : FlatTrace(f, E, ss)
<1>. DEFINE n == Len(ss)
            X == Seq(E)
            d == [p \in X \X X |-> p[1] \o p[2]]
            Body(g) == [i \in 1..n |-> IF i = 1 THEN ss[i] ELSE g[i - 1] \o ss[i]]
            h == CHOOSE g : g = Body(g)
<1>1. n \in Nat /\ \A i \in 1..n : ss[i] \in X
  OBVIOUS
<1>2. d \in [X \X X -> X] /\ <<>> \in X
  OBVIOUS
<1>3. \A v \in X, x \in X : d[<<v, x>>] = v \o x
  OBVIOUS
<1>4. Foldable(X, X, <<>>, ss, d)
  BY <1>2 DEF Foldable
<1>5. PICK f : Recursion(f, X, ss, <<>>, d)
  <2>. HIDE DEF X, d
  <2>. QED
    BY <1>4, Recurses
<1>6. f \in [0..n -> X] /\ f[0] = <<>> /\ \A i \in 1..n : f[i] = f[i - 1] \o ss[i]
  <2>. HIDE DEF d
  <2>1. f \in [0..n -> X] /\ f[0] = <<>> /\ \A i \in 1..n : f[i] = d[<<f[i - 1], ss[i]>>]
    BY <1>5 DEF Recursion
  <2>2. \A i \in 1..n : i - 1 \in 0..n
    BY <1>1
  <2>. QED
    BY <1>1, <1>3, <2>1, <2>2
<1>7. \A x \in X : <<>> \o x = x
  OBVIOUS
<1>. HIDE DEF X, d
<1>8. [i \in 1..n |-> f[i]] = Body([i \in 1..n |-> f[i]])
  <2>1. \A i \in 1..n : i # 1 => i - 1 \in 1..n
    BY <1>1
  <2>2. 1 \in 1..n => f[1] = ss[1]
    <3>1. 1 - 1 = 0
      OBVIOUS
    <3>. QED
      <4>1. 1 \in 1..n => f[1] = f[0] \o ss[1] /\ ss[1] \in X
        BY <1>1, <1>6, <3>1
      <4>. QED
        BY <1>6, <1>7, <4>1
  <2>. QED
    BY <1>6, <2>1, <2>2
<1>9. h = Body(h)
  BY <1>8
<1>. DEFINE S == {i \in 0..n : i # 0 => h[i] = f[i]}
<1>10. ASSUME NEW i \in 0..(n - 1), i \in S PROVE i + 1 \in S
  <2>1. i + 1 \in 1..n /\ (i + 1) - 1 = i /\ i + 1 \in 0..n
    BY <1>1
  <2>2. h[i + 1] = IF i + 1 = 1 THEN ss[i + 1] ELSE h[i] \o ss[i + 1]
    <3>. HIDE DEF h
    <3>. QED
      BY <1>9, <2>1
  <2>3. f[i + 1] = f[i] \o ss[i + 1]
    BY <1>6, <2>1
  <2>. HIDE DEF h
  <2>4. CASE i = 0
    <3>1. i + 1 = 1 /\ f[i] = <<>> /\ ss[i + 1] \in X
      BY <1>1, <1>6, <2>1, <2>4
    <3>2. f[i + 1] = ss[i + 1]
      BY <1>7, <2>3, <3>1
    <3>. QED
      BY <2>1, <2>2, <3>1, <3>2
  <2>5. CASE i # 0
    <3>1. h[i] = f[i] /\ i + 1 # 1
      BY <1>10, <2>5
    <3>. QED
      BY <2>1, <2>2, <2>3, <3>1
  <2>. QED
    BY <2>4, <2>5
<1>11. 0 \in S
  BY <1>1
<1>12. \A i \in 0..n : i \in S
  <2>. HIDE DEF S
  <2>. QED
    BY <1>1, <1>10, <1>11, UpTo
<1>13. FlattenSeq(ss) = f[n]
  <2>1. CASE n = 0
    <3>1. ss = <<>>
      BY <2>1
    <3>. QED
      BY <1>6, <2>1, <3>1 DEF FlattenSeq
  <2>2. CASE n # 0
    <3>1. FlattenSeq(ss) = h[n]
      BY <2>2 DEF FlattenSeq
    <3>. HIDE DEF h
    <3>. QED
      BY <1>1, <1>12, <2>2, <3>1
  <2>. QED
    BY <2>1, <2>2
<1>. QED
  BY <1>6, <1>13 DEF FlatTrace, X

\* What is built by putting one more sequence behind ends with all of them.
LEMMA FlatIs ==
  ASSUME NEW E, NEW ss \in Seq(Seq(E)), NEW g, g[0] = <<>>, \A i \in 1..Len(ss) : g[i] = g[i - 1] \o ss[i]
  PROVE  FlattenSeq(ss) = g[Len(ss)] /\ FlattenSeq(ss) \in Seq(E)
<1>1. PICK f : FlatTrace(f, E, ss)
  BY FlattenSteps
<1>. DEFINE S == {i \in 0..Len(ss) : f[i] = g[i]}
<1>0. Len(ss) \in Nat
  OBVIOUS
<1>2. Len(ss) \in Nat /\ Len(ss) \in 0..Len(ss) /\ 0 \in S
  BY <1>1 DEF FlatTrace
<1>3. ASSUME NEW i \in 0..(Len(ss) - 1), i \in S PROVE i + 1 \in S
  <2>1. i + 1 \in 1..Len(ss) /\ (i + 1) - 1 = i /\ i + 1 \in 0..Len(ss)
    BY <1>0
  <2>2. f[i + 1] = f[i] \o ss[i + 1]
    BY <1>1, <2>1 DEF FlatTrace
  <2>3. g[i + 1] = g[i] \o ss[i + 1]
    BY <2>1
  <2>. QED
    BY <1>3, <2>1, <2>2, <2>3
<1>4. \A i \in 0..Len(ss) : i \in S
  <2>. HIDE DEF S
  <2>. QED
    BY <1>2, <1>3, UpTo
<1>. QED
  BY <1>1, <1>2, <1>4 DEF FlatTrace

\* Concatenation associates.
LEMMA Associative ==
  ASSUME NEW E, NEW a \in Seq(E), NEW b \in Seq(E), NEW c \in Seq(E)
  PROVE  a \o (b \o c) = (a \o b) \o c
OBVIOUS

\* Two lists of sequences put together, one of them, and none.
LEMMA FlattenOfBoth ==
  ASSUME NEW E, NEW s \in Seq(Seq(E)), NEW t \in Seq(Seq(E))
  PROVE  /\ FlattenSeq(s \o t) = FlattenSeq(s) \o FlattenSeq(t)
         /\ FlattenSeq(s) \in Seq(E) /\ FlattenSeq(t) \in Seq(E)
<1>1. PICK f : FlatTrace(f, E, s)
  BY FlattenSteps
<1>2. PICK g : FlatTrace(g, E, t)
  BY FlattenSteps
<1>. DEFINE m == Len(s)
            n == Len(t)
            a == FlattenSeq(s)
            h == [i \in 0..(m + n) |-> IF i <= m THEN f[i] ELSE a \o g[i - m]]
            c == s \o t
<1>3. m \in Nat /\ n \in Nat /\ a \in Seq(E) /\ FlattenSeq(t) \in Seq(E)
  <2>1. m \in Nat /\ n \in Nat /\ m \in 0..m /\ n \in 0..n
    OBVIOUS
  <2>. QED
    BY <1>1, <1>2, <2>1 DEF FlatTrace
<1>4. c \in Seq(Seq(E)) /\ Len(c) = m + n /\ \A i \in 1..(m + n) : c[i] = IF i <= m THEN s[i] ELSE t[i - m]
  OBVIOUS
<1>. HIDE DEF a
<1>5. h[0] = <<>> /\ h[m + n] = a \o FlattenSeq(t)
  <2>1. 0 \in 0..(m + n) /\ m + n \in 0..(m + n) /\ (m + n) - m = n /\ 0 <= m
    BY <1>3
  <2>2. f[0] = <<>> /\ f[m] = a /\ g[n] = FlattenSeq(t) /\ g[0] = <<>>
    BY <1>1, <1>2 DEF FlatTrace, a
  <2>3. CASE n = 0
    <3>1. m + n = m
      BY <1>3, <2>3
    <3>2. a \o <<>> = a
      BY <1>3
    <3>. QED
      BY <1>3, <2>1, <2>2, <2>3, <3>1, <3>2
  <2>4. CASE n # 0
    <3>1. ~(m + n <= m)
      BY <1>3, <2>4
    <3>. QED
      BY <2>1, <2>2, <3>1
  <2>. QED
    BY <2>3, <2>4
<1>6. ASSUME NEW i \in 1..(m + n) PROVE h[i] = h[i - 1] \o c[i]
  <2>1. i \in 0..(m + n) /\ i - 1 \in 0..(m + n) /\ i \in Nat
    BY <1>3
  <2>2. CASE i <= m
    <3>1. i \in 1..m /\ i - 1 <= m
      BY <1>3, <2>1, <2>2
    <3>. QED
      BY <1>1, <1>4, <2>1, <2>2, <3>1 DEF FlatTrace
  <2>3. CASE i = m + 1
    <3>1. ~(i <= m) /\ i - 1 = m /\ i - m = 1 /\ 1 \in 1..n /\ 1 - 1 = 0
      BY <1>3, <2>1, <2>3
    <3>2. g[1] = g[0] \o t[1] /\ g[0] = <<>>
      BY <1>2, <3>1 DEF FlatTrace
    <3>3. g[1] = t[1]
      <4>1. t[1] \in Seq(E)
        BY <3>1
      <4>2. <<>> \o t[1] = t[1]
        BY <4>1
      <4>. QED
        BY <3>2, <4>2
    <3>4. h[i] = a \o g[1] /\ h[i - 1] = f[m] /\ f[m] = a /\ c[i] = t[1]
      <4>1. h[i] = a \o g[i - m] /\ c[i] = t[i - m] /\ h[i - 1] = f[i - 1]
        BY <1>4, <2>1, <2>3, <3>1
      <4>2. f[m] = a
        BY <1>1 DEF FlatTrace, a
      <4>. QED
        BY <3>1, <4>1, <4>2
    <3>. QED
      BY <3>3, <3>4
  <2>4. CASE i > m + 1
    <3>1. ~(i <= m) /\ ~(i - 1 <= m) /\ i - m \in 1..n /\ (i - 1) - m = (i - m) - 1 /\ i - m - 1 \in 0..n
      BY <1>3, <2>1, <2>4
    <3>2. g[i - m] = g[i - m - 1] \o t[i - m]
      BY <1>2, <3>1 DEF FlatTrace
    <3>3. g[i - m - 1] \in Seq(E)
      BY <1>2, <3>1 DEF FlatTrace
    <3>4. t[i - m] \in Seq(E)
      BY <3>1
    <3>5. h[i] = a \o g[i - m] /\ h[i - 1] = a \o g[i - m - 1] /\ c[i] = t[i - m]
      BY <1>4, <2>1, <3>1
    <3>6. a \o (g[i - m - 1] \o t[i - m]) = (a \o g[i - m - 1]) \o t[i - m]
      <4>1. \A x, y \in Seq(E) : a \o (x \o y) = (a \o x) \o y
        BY <1>3, Associative, SMTT(30)
      <4>. QED
        BY <3>3, <3>4, <4>1
    <3>. QED
      BY <3>2, <3>5, <3>6
  <2>5. i <= m \/ i = m + 1 \/ i > m + 1
    BY <1>3, <2>1
  <2>. QED
    BY <2>2, <2>3, <2>4, <2>5
<1>7. \A i \in 1..Len(c) : h[i] = h[i - 1] \o c[i]
  BY <1>4, <1>6
<1>. HIDE DEF h, c
<1>8. FlattenSeq(c) = h[m + n]
  BY <1>4, <1>5, <1>7, FlatIs
<1>. QED
  BY <1>3, <1>5, <1>8 DEF c, a

\* Flattening no sequence, or one.
LEMMA FlattenOfOne ==
  ASSUME NEW E
  PROVE  FlattenSeq(<<>>) = <<>> /\ \A s \in Seq(E) : FlattenSeq(<<s>>) = s
<1>1. FlattenSeq(<<>>) = <<>>
  BY DEF FlattenSeq
<1>2. ASSUME NEW s \in Seq(E) PROVE FlattenSeq(<<s>>) = s
  <2>. DEFINE g == [i \in 0..1 |-> IF i = 0 THEN <<>> ELSE s]
  <2>1. <<s>> \in Seq(Seq(E)) /\ Len(<<s>>) = 1 /\ g[0] = <<>> /\ g[1] = s
    OBVIOUS
  <2>2. \A i \in 1..1 : i = 1 /\ i - 1 = 0
    OBVIOUS
  <2>3. <<s>>[1] = s /\ <<>> \o s = s
    OBVIOUS
  <2>. HIDE DEF g
  <2>. QED
    BY <2>1, <2>2, <2>3, FlatIs
<1>. QED
  BY <1>1, <1>2

\* A set of numbers up to n has a greatest one.
LEMMA Greatest ==
  ASSUME NEW n \in Nat, NEW t, t \subseteq 0..n, t # {}
  PROVE  Max(t) \in t /\ \A x \in t : x <= Max(t)
<1>. DEFINE u == {x + 1 : x \in t}
<1>0. \A x \in t : x \in 0..n /\ x \in Nat
  OBVIOUS
<1>1. u \subseteq 1..(n + 1) /\ u # {} /\ n + 1 \in Nat
  <2>1. \A x \in 0..n : x + 1 \in 1..(n + 1)
    OBVIOUS
  <2>2. n + 1 \in Nat
    OBVIOUS
  <2>3. u # {}
    OBVIOUS
  <2>. QED
    BY <1>0, <2>1, <2>2, <2>3
<1>2. Max(u) \in u /\ \A x \in u : x <= Max(u)
  <2>. HIDE DEF u
  <2>. QED
    BY <1>1, MaxExists
<1>3. PICK m \in t : m + 1 = Max(u)
  BY <1>2
<1>4. \A x \in t : m >= x
  <2>1. ASSUME NEW x \in t PROVE m >= x
    <3>1. x + 1 <= m + 1 /\ x \in Nat /\ m \in Nat
      BY <1>0, <1>2, <1>3
    <3>. QED
      BY <3>1
  <2>. QED
    BY <2>1
<1>. QED
  BY <1>4 DEF Max

\* The numbers along a sequence have a bound.
LEMMA Bounded ==
  ASSUME NEW n \in Nat, NEW v, \A i \in 1..n : v[i] \in Nat
  PROVE  \E b \in Nat : \A i \in 1..n : v[i] <= b
<1>. DEFINE P(i) == \E b \in Nat : \A j \in 1..i : v[j] <= b
            S == {i \in 0..n : P(i)}
<1>1. 0 \in S
  OBVIOUS
<1>2. ASSUME NEW i \in 0..(n - 1), i \in S PROVE i + 1 \in S
  <2>1. PICK b \in Nat : \A j \in 1..i : v[j] <= b
    BY <1>2
  <2>2. v[i + 1] \in Nat /\ i + 1 \in 0..n /\ \A j \in 1..(i + 1) : j \in 1..i \/ j = i + 1
    OBVIOUS
  <2>. DEFINE c == IF v[i + 1] <= b THEN b ELSE v[i + 1]
  <2>3. c \in Nat /\ v[i + 1] <= c /\ \A x \in Nat : x <= b => x <= c
    BY <2>2
  <2>4. \A j \in 1..i : v[j] \in Nat
    BY <2>2
  <2>. HIDE DEF c
  <2>5. \A j \in 1..(i + 1) : v[j] <= c
    BY <2>1, <2>2, <2>3, <2>4
  <2>. QED
    BY <2>2, <2>3, <2>5
<1>3. \A i \in 0..n : i \in S
  <2>. HIDE DEF S
  <2>. QED
    BY <1>1, <1>2, UpTo
<1>4. n \in 0..n
  OBVIOUS
<1>5. P(n)
  BY <1>3, <1>4
<1>. QED
  BY <1>5

\* s is the numbers of S in their order.
Sorts(s, S) ==
  /\ s \in Seq(S) /\ ToSet(s) = S
  /\ \A i, j \in 1..Len(s) : i < j => s[i] < s[j]

\* Ascending sorts.
LEMMA AscendingSorts ==
  ASSUME NEW S \in SUBSET Nat, IsFiniteSet(S)
  PROVE  Sorts(Ascending(S), S)
<1>. DEFINE Upto(v) == {u \in S : u <= v}
            n == Cardinality(S)
            s == Ascending(S)
<1>1. n \in Nat
  BY FS_CardinalityType
<1>2. \A v : Upto(v) \subseteq S /\ IsFiniteSet(Upto(v)) /\ Cardinality(Upto(v)) \in 0..n
  <2>1. ASSUME NEW v PROVE IsFiniteSet(Upto(v)) /\ Cardinality(Upto(v)) \in 0..n
    <3>1. Upto(v) \subseteq S
      OBVIOUS
    <3>. HIDE DEF Upto
    <3>2. IsFiniteSet(Upto(v)) /\ Cardinality(Upto(v)) <= n
      BY <3>1, FS_Subset
    <3>3. Cardinality(Upto(v)) \in Nat
      BY <3>2, FS_CardinalityType
    <3>. QED
      BY <1>1, <3>2, <3>3
  <2>. QED
    BY <2>1
<1>3. \A u, v \in S : u < v => Cardinality(Upto(u)) < Cardinality(Upto(v))
  <2>1. ASSUME NEW u \in S, NEW v \in S, u < v PROVE Cardinality(Upto(u)) < Cardinality(Upto(v))
    <3>1. \A x \in S : x \in Nat
      OBVIOUS
    <3>0. u \in Nat /\ v \in Nat /\ v <= v /\ ~(v <= u) /\ \A x \in Nat : x <= u => x <= v
      <4>1. u \in Nat /\ v \in Nat
        BY <3>1
      <4>. QED
        BY <2>1, <4>1
    <3>2. Upto(u) \subseteq Upto(v) /\ v \in Upto(v) /\ v \notin Upto(u)
      BY <3>0, <3>1
    <3>. HIDE DEF Upto
    <3>3. Upto(u) # Upto(v) /\ IsFiniteSet(Upto(v)) /\ {Cardinality(Upto(u)), Cardinality(Upto(v))} \subseteq Nat
      BY <1>1, <1>2, <3>2
    <3>4. Cardinality(Upto(u)) <= Cardinality(Upto(v)) /\ Cardinality(Upto(v)) # Cardinality(Upto(u))
      BY <3>2, <3>3, FS_Subset
    <3>. QED
      BY <3>3, <3>4
  <2>. QED
    BY <2>1
<1>4. \A v \in S : Cardinality(Upto(v)) \in 1..n
  <2>1. ASSUME NEW v \in S PROVE Cardinality(Upto(v)) # 0
    <3>1. v \in Upto(v)
      OBVIOUS
    <3>. HIDE DEF Upto
    <3>. QED
      BY <1>2, <3>1, FS_EmptySet
  <2>. HIDE DEF Upto
  <2>. QED
    BY <1>1, <1>2, <2>1
<1>. DEFINE P(i) == i > 0 => \E v \in S : Cardinality(Upto(v)) = i
            T == {i \in 0..n : P(i)}
<1>5. ASSUME NEW i \in 0..(n - 1), i \in T PROVE i + 1 \in T
  <2>. DEFINE low == IF i = 0 THEN {} ELSE Upto(CHOOSE v \in S : Cardinality(Upto(v)) = i)
              rest == S \ low
  <2>1. low \subseteq S /\ IsFiniteSet(low) /\ Cardinality(low) = i /\ \A u \in low, v \in rest : u < v
    <3>1. CASE i = 0
      BY <3>1, FS_EmptySet
    <3>2. CASE i # 0
      <4>1. PICK v \in S : v = (CHOOSE w \in S : Cardinality(Upto(w)) = i) /\ Cardinality(Upto(v)) = i
        <5>1. i > 0
          BY <3>2
        <5>. QED
          BY <1>5, <5>1
      <4>2. low = Upto(v)
        BY <3>2, <4>1
      <4>3. \A u \in low, x \in rest : u < x
        <5>1. \A x \in S : x \in Nat
          OBVIOUS
        <5>2. \A u \in low : u <= v /\ u \in S
          BY <4>2
        <5>3. \A x \in rest : x \in S /\ ~(x <= v)
          BY <4>2
        <5>4. \A u, x \in Nat : u <= v /\ ~(x <= v) => u < x
          <6>1. v \in Nat
            BY <4>1, <5>1
          <6>. QED
            BY <6>1
        <5>. HIDE DEF low, rest
        <5>. QED
          BY <5>1, <5>2, <5>3, <5>4
      <4>. HIDE DEF Upto, low
      <4>. QED
        BY <1>2, <4>1, <4>2, <4>3
    <3>. QED
      BY <3>1, <3>2
  <2>2. rest # {}
    <3>. HIDE DEF low
    <3>1. low # S
      BY <1>1, <2>1
    <3>. QED
      BY <2>1, <3>1
  <2>3. PICK v \in rest : \A y \in rest : <<y, v>> \notin Less
    <3>1. rest \subseteq Nat
      OBVIOUS
    <3>. HIDE DEF rest
    <3>. QED
      BY <2>2, <3>1, LessWellFounded, WFMin
  <2>4. \A y \in rest : v <= y
    <3>1. ASSUME NEW y \in rest PROVE v <= y
      <4>1. y \in Nat /\ v \in Nat
        OBVIOUS
      <4>2. ~(y < v)
        BY <2>3, <4>1 DEF Less
      <4>. QED
        BY <4>1, <4>2
    <3>. QED
      BY <3>1
  <2>5. Upto(v) = low \union {v} /\ v \notin low /\ v \in S
    <3>. HIDE DEF low
    <3>1. v \in S /\ v \notin low
      OBVIOUS
    <3>2. \A u \in S : u <= v <=> (u \in low \/ u = v)
      <4>1. ASSUME NEW u \in S PROVE u <= v <=> (u \in low \/ u = v)
        <5>1. u \in Nat /\ v \in Nat
          OBVIOUS
        <5>2. u \in low => u < v
          BY <2>1
        <5>3. u \notin low => v <= u
          BY <2>4
        <5>. QED
          BY <5>1, <5>2, <5>3
      <4>. QED
        BY <4>1
    <3>. QED
      BY <2>1, <3>1, <3>2
  <2>6. Cardinality(Upto(v)) = i + 1
    <3>. HIDE DEF low, Upto
    <3>. QED
      BY <2>1, <2>5, FS_AddElement
  <2>7. i + 1 \in 0..n
    BY <1>1
  <2>. QED
    BY <2>5, <2>6, <2>7
<1>6. \A i \in 0..n : i \in T
  <2>1. 0 \in T
    BY <1>1
  <2>. HIDE DEF T
  <2>. QED
    BY <1>1, <1>5, <2>1, UpTo
<1>7. \A k \in 1..n : s[k] \in S /\ Cardinality(Upto(s[k])) = k
  <2>1. ASSUME NEW k \in 1..n PROVE s[k] \in S /\ Cardinality(Upto(s[k])) = k
    <3>1. \E v \in S : Cardinality(Upto(v)) = k
      <4>1. k \in 0..n /\ k > 0
        BY <1>1
      <4>2. P(k)
        BY <1>6, <4>1
      <4>. QED
        BY <4>1, <4>2
    <3>2. s[k] = CHOOSE v \in S : Cardinality(Upto(v)) = k
      BY DEF Ascending
    <3>. QED
      BY <3>1, <3>2
  <2>. QED
    BY <2>1
<1>8. s \in Seq(S) /\ Len(s) = n /\ DOMAIN s = 1..n
  <2>1. DOMAIN s = 1..n /\ s = [k \in 1..n |-> s[k]]
    BY DEF Ascending
  <2>. HIDE DEF s
  <2>2. s \in [1..n -> S]
    BY <1>7, <2>1
  <2>. QED
    BY <1>1, <2>1, <2>2
<1>. HIDE DEF s, Upto
<1>9. \A i, j \in 1..Len(s) : i < j => s[i] < s[j]
  <2>1. ASSUME NEW i \in 1..n, NEW j \in 1..n, i < j PROVE s[i] < s[j]
    <3>1. s[i] \in S /\ s[j] \in S /\ s[i] \in Nat /\ s[j] \in Nat
      BY <1>7
    <3>2. Cardinality(Upto(s[i])) = i /\ Cardinality(Upto(s[j])) = j
      BY <1>7
    <3>3. ~(s[j] < s[i])
      BY <1>1, <1>3, <2>1, <3>1, <3>2
    <3>4. s[i] # s[j]
      BY <2>1, <3>2
    <3>. QED
      BY <3>1, <3>3, <3>4
  <2>. QED
    BY <1>8, <2>1
<1>10. ToSet(s) = S
  <2>1. ASSUME NEW v \in S PROVE v \in ToSet(s)
    <3>. DEFINE k == Cardinality(Upto(v))
    <3>1. k \in 1..n
      BY <1>4
    <3>2. s[k] \in S /\ Cardinality(Upto(s[k])) = k
      BY <1>7, <3>1
    <3>3. s[k] = v
      <4>. HIDE DEF k
      <4>1. ~(s[k] < v) /\ ~(v < s[k])
        <5>1. Cardinality(Upto(s[k])) = Cardinality(Upto(v)) /\ Cardinality(Upto(v)) \in Nat
          BY <1>1, <3>1, <3>2 DEF k
        <5>2. \A x \in Nat : ~(x < x)
          OBVIOUS
        <5>. QED
          BY <1>3, <3>2, <5>1, <5>2
      <4>2. s[k] \in Nat /\ v \in Nat
        BY <3>2
      <4>. QED
        BY <4>1, <4>2
    <3>. QED
      BY <1>8, <3>1, <3>3 DEF ToSet
  <2>2. ToSet(s) \subseteq S
    BY <1>7, <1>8 DEF ToSet
  <2>. QED
    BY <2>1, <2>2
<1>. QED
  BY <1>8, <1>9, <1>10 DEF Sorts, s
=============================================================================
