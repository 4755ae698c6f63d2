----------------------------- MODULE PlanProofs -----------------------------
(***************************************************************************)
(* What the planner's plan does to a wallet, for every snapshot and every  *)
(* list of jobs.                                                           *)
(***************************************************************************)
EXTENDS PlanExec, ListsProofs

\* f is the wallet after each of the calls, every one of them valid.
Course(f, w, calls) ==
  /\ f \in [0..Len(calls) -> Wallet] /\ f[0] = w
  /\ \A i \in 1..Len(calls) : CallValid(f[i - 1], calls[i]) /\ f[i] = ApplyCall(f[i - 1], calls[i])

\* The calls run one after the other from w and leave z.
Leads(w, calls, z) == \E f : Course(f, w, calls) /\ f[Len(calls)] = z

\* The calls the code makes name a leg or more to convert, and finitely many;
\* those of a plan merge or convert.
RelayerCall == {c \in Call : IsFiniteSet(c.legs) /\ (c.op = "convert" => c.legs # {})}
ProperCall  == {c \in RelayerCall : c.op \in {"merge", "convert"}}
PlannedCall == [call : ProperCall, gas : Nat]

\* A product of numbers is one.
LEMMA Product ==
  ASSUME NEW a \in Nat, NEW b \in Nat
  PROVE  a * b \in Nat
OBVIOUS

\* A call makes a wallet of a wallet.
LEMMA ApplyRelayed ==
  ASSUME NEW w \in Wallet, NEW c \in RelayerCall, CallValid(w, c)
  PROVE  ApplyCall(w, c) \in Wallet
<1>1. /\ w.no \in [Leg -> Nat] /\ w.yes \in [Leg -> Nat] /\ w.usdce \in Nat /\ w.pusd \in Nat
      /\ w.allowance \in Nat /\ w = [no |-> w.no, yes |-> w.yes, usdce |-> w.usdce, pusd |-> w.pusd, allowance |-> w.allowance]
      /\ c \in Call /\ c.amount \in Nat /\ IsFiniteSet(c.legs) /\ (c.op = "convert" => c.legs # {})
  BY DEF Wallet, Call, RelayerCall
<1>2. CASE c.op = "merge"
  <2>1. [l \in Leg |-> IF l \in c.legs THEN w.no[l] - c.amount ELSE w.no[l]] \in [Leg -> Nat]
    BY <1>1, <1>2 DEF CallValid
  <2>2. [l \in Leg |-> IF l \in c.legs THEN w.yes[l] - c.amount ELSE w.yes[l]] \in [Leg -> Nat]
    BY <1>1, <1>2 DEF CallValid
  <2>3. w.usdce + c.amount \in Nat
    BY <1>1
  <2>. QED
    BY <1>1, <1>2, <2>1, <2>2, <2>3 DEF ApplyCall, Wallet
<1>3. CASE c.op = "convert"
  <2>1. [l \in Leg |-> IF l \in c.legs THEN w.no[l] - c.amount ELSE w.no[l]] \in [Leg -> Nat]
    BY <1>1, <1>3 DEF CallValid
  <2>2. [l \in Leg |-> IF l \in Complement(c.legs) THEN w.yes[l] + c.amount ELSE w.yes[l]] \in [Leg -> Nat]
    BY <1>1
  <2>3. w.usdce + (Cardinality(c.legs) - 1) * c.amount \in Nat
    <3>1. Cardinality(c.legs) - 1 \in Nat
      <4>1. Cardinality(c.legs) \in Nat /\ Cardinality(c.legs) # 0
        BY <1>1, <1>3, FS_CardinalityType, FS_EmptySet
      <4>. QED
        BY <4>1
    <3>2. (Cardinality(c.legs) - 1) * c.amount \in Nat
      BY <1>1, <3>1, Product
    <3>. QED
      BY <1>1, <3>2
  <2>. QED
    BY <1>1, <1>3, <2>1, <2>2, <2>3 DEF ApplyCall, Wallet
<1>4. CASE c.op = "approve"
  BY <1>1, <1>4, UnlimitedAssumption DEF ApplyCall, Wallet
<1>5. CASE c.op = "wrap"
  <2>1. w.usdce >= c.amount /\ w.allowance >= c.amount
    BY <1>5 DEF CallValid
  <2>2. w.usdce - c.amount \in Nat /\ w.pusd + c.amount \in Nat /\ w.allowance - c.amount \in Nat
    BY <1>1, <2>1
  <2>. QED
    BY <1>1, <1>5, <2>2 DEF ApplyCall, Wallet
<1>. QED
  BY <1>1, <1>2, <1>3, <1>4, <1>5 DEF Call

\* A plan's call does so too.
LEMMA ApplyTyped ==
  ASSUME NEW w \in Wallet, NEW c \in ProperCall, CallValid(w, c)
  PROVE  ApplyCall(w, c) \in Wallet
BY ApplyRelayed DEF ProperCall

\* Calls of which each is valid wherever the one before leaves the wallet run;
\* R says where that is.
LEMMA CallRuns ==
  ASSUME NEW w \in Wallet, NEW calls \in Seq(ProperCall), NEW R, <<0, w>> \in R,
         \A i \in 1..Len(calls) : \A x \in Wallet : <<i - 1, x>> \in R =>
           CallValid(x, calls[i]) /\ <<i, ApplyCall(x, calls[i])>> \in R
  PROVE  \E z \in Wallet : Leads(w, calls, z) /\ <<Len(calls), z>> \in R
<1>. DEFINE n == Len(calls)
            d == [p \in Wallet \X ProperCall |-> IF CallValid(p[1], p[2]) THEN ApplyCall(p[1], p[2]) ELSE p[1]]
<1>1. n \in Nat /\ n \in 0..n /\ 0 \in 0..n /\ \A i \in 1..n : calls[i] \in ProperCall
  OBVIOUS
<1>2. d \in [Wallet \X ProperCall -> Wallet]
  BY ApplyTyped
<1>3. \A x \in Wallet, c \in ProperCall : d[<<x, c>>] = IF CallValid(x, c) THEN ApplyCall(x, c) ELSE x
  OBVIOUS
<1>. HIDE DEF d
<1>4. PICK f : Recursion(f, Wallet, calls, w, d)
  BY <1>2, Recurses DEF Foldable
<1>5. f \in [0..n -> Wallet] /\ f[0] = w /\ \A i \in 1..n : f[i] = d[<<f[i - 1], calls[i]>>]
  BY <1>4 DEF Recursion
<1>6. ASSUME NEW i \in 1..n, <<i - 1, f[i - 1]>> \in R
      PROVE  CallValid(f[i - 1], calls[i]) /\ f[i] = ApplyCall(f[i - 1], calls[i]) /\ <<i, f[i]>> \in R
  <2>1. i - 1 \in 0..n
    BY <1>1
  <2>2. f[i - 1] \in Wallet /\ calls[i] \in ProperCall
    BY <1>1, <1>5, <2>1
  <2>3. CallValid(f[i - 1], calls[i]) /\ <<i, ApplyCall(f[i - 1], calls[i])>> \in R
    BY <1>6, <2>2
  <2>. QED
    BY <1>3, <1>5, <2>2, <2>3
<1>. DEFINE S == {i \in 0..n : <<i, f[i]>> \in R}
<1>7. \A i \in 0..n : i \in S
  <2>1. 0 \in S
    BY <1>1, <1>5
  <2>2. ASSUME NEW i \in 0..(n - 1), i \in S PROVE i + 1 \in S
    <3>1. i + 1 \in 1..n /\ (i + 1) - 1 = i /\ i + 1 \in 0..n
      BY <1>1
    <3>2. <<(i + 1) - 1, f[(i + 1) - 1]>> \in R
      BY <2>2, <3>1
    <3>. QED
      BY <1>6, <3>1, <3>2
  <2>. HIDE DEF S
  <2>. QED
    BY <1>1, <2>1, <2>2, UpTo
<1>8. \A i \in 1..n : i - 1 \in S
  <2>1. \A i \in 1..n : i - 1 \in 0..n
    BY <1>1
  <2>. HIDE DEF S
  <2>. QED
    BY <1>7, <2>1
<1>9. Course(f, w, calls)
  BY <1>5, <1>6, <1>8 DEF Course
<1>. QED
  BY <1>1, <1>5, <1>7, <1>9 DEF Leads

\* No calls leave the wallet as it is.
LEMMA LeadsNowhere ==
  ASSUME NEW w \in Wallet
  PROVE  Leads(w, <<>>, w) /\ \A z : Leads(w, <<>>, z) => z = w
<1>1. Course([i \in 0..0 |-> w], w, <<>>)
  BY DEF Course
<1>. QED
  BY <1>1 DEF Course, Leads

\* One list of calls after another.
LEMMA LeadsOn ==
  ASSUME NEW w, NEW x, NEW z, NEW a \in Seq(ProperCall), NEW b \in Seq(ProperCall),
         Leads(w, a, x), Leads(x, b, z)
  PROVE  Leads(w, a \o b, z)
<1>1. PICK f : Course(f, w, a) /\ f[Len(a)] = x
  BY DEF Leads
<1>2. PICK g : Course(g, x, b) /\ g[Len(b)] = z
  BY DEF Leads
<1>. DEFINE m == Len(a)
            n == Len(b)
            c == a \o b
            h == [i \in 0..(m + n) |-> IF i <= m THEN f[i] ELSE g[i - m]]
<1>3. m \in Nat /\ n \in Nat /\ Len(c) = m + n
  OBVIOUS
<1>4. \A i \in 1..(m + n) : c[i] = IF i <= m THEN a[i] ELSE b[i - m]
  OBVIOUS
<1>5. h \in [0..(m + n) -> Wallet] /\ h[0] = w
  <2>1. \A i \in 0..(m + n) : i <= m => i \in 0..m
    BY <1>3
  <2>2. \A i \in 0..(m + n) : ~(i <= m) => i - m \in 0..n
    BY <1>3
  <2>3. 0 \in 0..(m + n) /\ 0 <= m
    BY <1>3
  <2>. QED
    BY <1>1, <1>2, <2>1, <2>2, <2>3 DEF Course
<1>6. h[m + n] = z
  <2>1. m + n \in 0..(m + n) /\ (m + n) - m = n /\ (m + n <= m => n = 0 /\ m + n = m)
    BY <1>3
  <2>2. g[0] = x /\ f[m] = x /\ g[n] = z
    BY <1>1, <1>2 DEF Course
  <2>. HIDE DEF m, n
  <2>. QED
    BY <2>1, <2>2
<1>7. ASSUME NEW i \in 1..(m + n)
      PROVE  CallValid(h[i - 1], c[i]) /\ h[i] = ApplyCall(h[i - 1], c[i])
  <2>1. i \in 0..(m + n) /\ i - 1 \in 0..(m + n)
    BY <1>3
  <2>2. CASE i <= m
    <3>1. i \in 1..m /\ i - 1 <= m
      BY <1>3, <2>2
    <3>2. h[i] = f[i] /\ h[i - 1] = f[i - 1] /\ c[i] = a[i]
      BY <1>4, <2>1, <2>2, <3>1
    <3>. QED
      BY <1>1, <3>1, <3>2 DEF Course
  <2>3. CASE ~(i <= m)
    <3>1. i - m \in 1..n /\ (i - m) - 1 = (i - 1) - m /\ (i - 1 <= m => i - 1 = m /\ (i - m) - 1 = 0)
      BY <1>3, <2>3
    <3>2. h[i] = g[i - m] /\ c[i] = b[i - m]
      BY <1>4, <2>1, <2>3
    <3>3. h[i - 1] = g[(i - m) - 1]
      <4>1. CASE i - 1 <= m
        <5>1. h[i - 1] = f[m] /\ f[m] = x /\ g[(i - m) - 1] = g[0] /\ g[0] = x
          BY <1>1, <1>2, <2>1, <3>1, <4>1 DEF Course
        <5>. QED
          BY <5>1
      <4>2. CASE ~(i - 1 <= m)
        BY <2>1, <3>1, <4>2
      <4>. QED
        BY <4>1, <4>2
    <3>. QED
      BY <1>2, <3>1, <3>2, <3>3 DEF Course
  <2>. QED
    BY <2>2, <2>3
<1>8. Course(h, w, c)
  BY <1>3, <1>5, <1>7 DEF Course
<1>. HIDE DEF h
<1>. QED
  BY <1>3, <1>6, <1>8 DEF Leads

\* ... and apart again.
LEMMA LeadsThrough ==
  ASSUME NEW w, NEW z, NEW a \in Seq(ProperCall), NEW b \in Seq(ProperCall), Leads(w, a \o b, z)
  PROVE  \E x \in Wallet : Leads(w, a, x) /\ Leads(x, b, z)
<1>. DEFINE m == Len(a)
            n == Len(b)
            c == a \o b
<1>1. PICK h : Course(h, w, c) /\ h[Len(c)] = z
  BY DEF Leads
<1>. DEFINE f == [i \in 0..m |-> h[i]]
            g == [i \in 0..n |-> h[m + i]]
<1>2. m \in Nat /\ n \in Nat /\ Len(c) = m + n
  OBVIOUS
<1>3. \A i \in 1..m : c[i] = a[i]
  OBVIOUS
<1>4. \A i \in 1..n : c[m + i] = b[i]
  OBVIOUS
<1>5. Course(f, w, a) /\ f[m] = h[m]
  <2>1. \A i \in 1..m : i \in 0..m /\ i - 1 \in 0..m /\ i \in 1..(m + n)
    BY <1>2
  <2>2. 0 \in 0..m /\ m \in 0..m /\ \A i \in 0..m : i \in 0..(m + n)
    BY <1>2
  <2>. HIDE DEF m, n, c
  <2>. QED
    BY <1>1, <1>2, <1>3, <2>1, <2>2 DEF Course, m
<1>6. Course(g, h[m], b) /\ g[n] = z
  <2>1. \A i \in 1..n : i \in 0..n /\ i - 1 \in 0..n /\ m + i \in 1..(m + n) /\ (m + i) - 1 = m + (i - 1)
    BY <1>2
  <2>2. 0 \in 0..n /\ n \in 0..n /\ m + 0 = m /\ \A i \in 0..n : m + i \in 0..(m + n)
    BY <1>2
  <2>. HIDE DEF m, n, c
  <2>3. g \in [0..n -> Wallet] /\ g[0] = h[m] /\ g[n] = z
    BY <1>1, <1>2, <2>2 DEF Course
  <2>4. ASSUME NEW i \in 1..n PROVE CallValid(g[i - 1], b[i]) /\ g[i] = ApplyCall(g[i - 1], b[i])
    <3>1. g[i] = h[m + i] /\ g[i - 1] = h[m + (i - 1)] /\ b[i] = c[m + i]
      BY <1>4, <2>1
    <3>2. CallValid(h[(m + i) - 1], c[m + i]) /\ h[m + i] = ApplyCall(h[(m + i) - 1], c[m + i])
      BY <1>1, <1>2, <2>1 DEF Course
    <3>. QED
      BY <2>1, <3>1, <3>2
  <2>. QED
    BY <2>3, <2>4 DEF Course, n
<1>7. h[m] \in Wallet
  BY <1>1, <1>2 DEF Course
<1>. HIDE DEF f, g
<1>. QED
  BY <1>5, <1>6, <1>7 DEF Leads

\* The first call is valid, and the others go on from what it leaves.
LEMMA LeadsFirst ==
  ASSUME NEW w, NEW z, NEW calls \in Seq(ProperCall), calls # <<>>, Leads(w, calls, z)
  PROVE  CallValid(w, Head(calls)) /\ Leads(ApplyCall(w, Head(calls)), Tail(calls), z)
<1>1. /\ <<Head(calls)>> \in Seq(ProperCall) /\ Tail(calls) \in Seq(ProperCall)
      /\ calls = <<Head(calls)>> \o Tail(calls)
  OBVIOUS
<1>2. PICK x \in Wallet : Leads(w, <<Head(calls)>>, x) /\ Leads(x, Tail(calls), z)
  BY <1>1, LeadsThrough
<1>3. PICK f : Course(f, w, <<Head(calls)>>) /\ f[Len(<<Head(calls)>>)] = x
  BY <1>2 DEF Leads
<1>4. Len(<<Head(calls)>>) = 1 /\ <<Head(calls)>>[1] = Head(calls) /\ 1 - 1 = 0 /\ 1 \in 1..1
  OBVIOUS
<1>5. CallValid(w, Head(calls)) /\ x = ApplyCall(w, Head(calls))
  BY <1>3, <1>4 DEF Course
<1>. QED
  BY <1>2, <1>5

\* A valid call is a way of its own.
LEMMA LeadsOnce ==
  ASSUME NEW w \in Wallet, NEW c \in ProperCall, CallValid(w, c)
  PROVE  Leads(w, <<c>>, ApplyCall(w, c)) /\ ApplyCall(w, c) \in Wallet
<1>1. ApplyCall(w, c) \in Wallet
  BY ApplyTyped
<1>. DEFINE f == [i \in 0..1 |-> IF i = 0 THEN w ELSE ApplyCall(w, c)]
<1>2. f \in [0..1 -> Wallet] /\ f[0] = w /\ f[1] = ApplyCall(w, c) /\ Len(<<c>>) = 1 /\ <<c>>[1] = c
  BY <1>1
<1>. HIDE DEF f
<1>3. \A i \in 1..1 : i = 1 /\ i - 1 = 0
  OBVIOUS
<1>4. Course(f, w, <<c>>)
  BY <1>2, <1>3 DEF Course
<1>. QED
  BY <1>1, <1>2, <1>4 DEF Leads

\* What a batch has made of the wallet after each of its calls.
BatchTrace(f, w, calls) ==
  /\ f \in [0..Len(calls) -> [ok : BOOLEAN, w : Wallet]]
  /\ f[0] = [ok |-> TRUE, w |-> w] /\ f[Len(calls)] = RunBatch(w, calls)
  /\ \A i \in 1..Len(calls) :
       f[i] = IF f[i - 1].ok /\ CallValid(f[i - 1].w, calls[i])
              THEN [ok |-> TRUE, w |-> ApplyCall(f[i - 1].w, calls[i])]
              ELSE [ok |-> FALSE, w |-> w]

\* RunBatch runs the calls one after the other.
LEMMA BatchSteps ==
  ASSUME NEW w \in Wallet, NEW calls \in Seq(RelayerCall)
  PROVE  (\E f : BatchTrace(f, w, calls)) /\ RunBatch(w, calls) \in [ok : BOOLEAN, w : Wallet]
<1>. DEFINE n == Len(calls)
            Then(s, c) == IF s.ok /\ CallValid(s.w, c) THEN [ok |-> TRUE, w |-> ApplyCall(s.w, c)]
                                                       ELSE [ok |-> FALSE, w |-> w]
            base == [ok |-> TRUE, w |-> w]
            X == [ok : BOOLEAN, w : Wallet]
            d == [p \in X \X RelayerCall |-> Then(p[1], p[2])]
            Body(g) == [t \in SUBSET (DOMAIN calls) |-> IF t = {} THEN base
                            ELSE Then(g[t \ {Max(t)}], calls[Max(t)])]
            h == CHOOSE g : g = Body(g)
<1>1. n \in Nat /\ calls \in [1..n -> RelayerCall] /\ DOMAIN calls = 1..n /\ base \in X
  OBVIOUS
<1>2. \A v \in X, c \in RelayerCall : Then(v, c) \in X
  BY ApplyRelayed
<1>3. \A t \in SUBSET (1..n) : t # {} => calls[Max(t)] \in RelayerCall
  BY <1>1, MaxExists
<1>4. d \in [X \X RelayerCall -> X] /\ \A v \in X, c \in RelayerCall : d[<<v, c>>] = Then(v, c)
  <2>. HIDE DEF Then, X
  <2>. QED
    BY <1>2
<1>5. PICK g \in [SUBSET (1..n) -> X] : Folding(g, n, calls, base, d)
  <2>. HIDE DEF d, n, Body, h, X, Then, base
  <2>. QED
    BY <1>1, <1>4, FoldExists
<1>6. g = Body(g)
  <2>. HIDE DEF Then, X, base, d
  <2>. QED
    BY <1>1, <1>3, <1>4, <1>5 DEF Folding
<1>7. h = Body(h)
  <2>. HIDE DEF Then, X, base, d
  <2>. QED
    BY <1>6
<1>8. RunBatch(w, calls) = h[1..n]
  BY <1>1 DEF RunBatch, FoldLeft, MapThenFoldSet
<1>. HIDE DEF Then, X, base, d, h
<1>9. Follows(h, calls, X, base, d)
  BY <1>1, <1>3, <1>4, <1>7 DEF Follows
<1>10. PICK s : Trace(s, X, calls, base, d, h)
  <2>. HIDE DEF Body
  <2>1. Foldable(X, RelayerCall, base, calls, d)
    BY <1>1, <1>4 DEF Foldable
  <2>. QED
    BY <1>9, <2>1, FoldTrace
<1>11. /\ s \in [0..n -> X] /\ s[0] = base /\ s[n] = RunBatch(w, calls)
       /\ \A i \in 1..n : s[i] = d[<<s[i - 1], calls[i]>>]
  BY <1>8, <1>10 DEF Trace
<1>12. \A i \in 1..n : s[i - 1] \in X /\ calls[i] \in RelayerCall
  BY <1>1, <1>11
<1>13. \A i \in 1..n : s[i] = Then(s[i - 1], calls[i])
  BY <1>4, <1>11, <1>12
<1>14. RunBatch(w, calls) \in X
  <2>1. n \in 0..n
    BY <1>1
  <2>. QED
    BY <1>11, <2>1
<1>15. BatchTrace(s, w, calls)
  BY <1>11, <1>13 DEF BatchTrace, Then, X, base
<1>. QED
  BY <1>14, <1>15 DEF X

\* A batch all of whose calls run does what they do.
LEMMA LeadsInBatch ==
  ASSUME NEW w \in Wallet, NEW calls \in Seq(ProperCall), NEW z, Leads(w, calls, z)
  PROVE  RunBatch(w, calls) = [ok |-> TRUE, w |-> z]
<1>. DEFINE n == Len(calls)
<1>1. n \in Nat /\ calls \in Seq(RelayerCall)
  BY DEF ProperCall
<1>2. PICK s : BatchTrace(s, w, calls)
  BY <1>1, BatchSteps
<1>3. PICK f : Course(f, w, calls) /\ f[n] = z
  BY DEF Leads
<1>. DEFINE S == {i \in 0..n : s[i] = [ok |-> TRUE, w |-> f[i]]}
<1>4. 0 \in S
  BY <1>1, <1>2, <1>3 DEF BatchTrace, Course
<1>5. ASSUME NEW i \in 0..(n - 1), i \in S PROVE i + 1 \in S
  <2>1. i + 1 \in 1..n /\ (i + 1) - 1 = i /\ i + 1 \in 0..n
    BY <1>1
  <2>2. s[i + 1] = IF s[i].ok /\ CallValid(s[i].w, calls[i + 1])
                   THEN [ok |-> TRUE, w |-> ApplyCall(s[i].w, calls[i + 1])]
                   ELSE [ok |-> FALSE, w |-> w]
    BY <1>2, <2>1 DEF BatchTrace
  <2>3. CallValid(f[i], calls[i + 1]) /\ f[i + 1] = ApplyCall(f[i], calls[i + 1])
    BY <1>3, <2>1 DEF Course
  <2>4. s[i] = [ok |-> TRUE, w |-> f[i]]
    BY <1>5
  <2>5. s[i + 1] = [ok |-> TRUE, w |-> ApplyCall(f[i], calls[i + 1])]
    BY <2>2, <2>3, <2>4
  <2>. QED
    BY <2>1, <2>3, <2>5
<1>6. n \in S
  <2>1. n \in 0..n
    BY <1>1
  <2>2. \A i \in 0..n : i \in S
    <3>. HIDE DEF S, n
    <3>. QED
      BY <1>1, <1>4, <1>5, UpTo
  <2>. HIDE DEF S
  <2>. QED
    BY <2>1, <2>2
<1>. QED
  BY <1>2, <1>3, <1>6 DEF BatchTrace

---------------------------------------------------------------------------
(* What one call does.                                                     *)

\* z is w with `amount` of l's YES and NO merged.
MergeOf(w, z, l, amount) ==
  /\ z.no[l] = w.no[l] - amount /\ z.yes[l] = w.yes[l] - amount
  /\ \A m \in Leg \ {l} : z.no[m] = w.no[m] /\ z.yes[m] = w.yes[m]
  /\ z.usdce = w.usdce + amount /\ z.pusd = w.pusd /\ z.allowance = w.allowance

\* A merge of no more than is held does that, and is valid.
LEMMA MergeDoes ==
  ASSUME NEW w \in Wallet, NEW l \in Leg, NEW amount \in Nat, amount <= w.no[l], amount <= w.yes[l]
  PROVE  /\ Merge(l, amount) \in ProperCall /\ CallValid(w, Merge(l, amount))
         /\ ApplyCall(w, Merge(l, amount)) \in Wallet
         /\ MergeOf(w, ApplyCall(w, Merge(l, amount)), l, amount)
<1>1. Merge(l, amount) \in ProperCall
  BY FS_Singleton DEF Merge, ProperCall, RelayerCall, Call
<1>2. w.no[l] \in Nat /\ w.yes[l] \in Nat
  BY DEF Wallet
<1>3. CallValid(w, Merge(l, amount))
  BY <1>2 DEF Merge, CallValid
<1>4. ApplyCall(w, Merge(l, amount)) \in Wallet
  BY <1>1, <1>3, ApplyTyped
<1>5. MergeOf(w, ApplyCall(w, Merge(l, amount)), l, amount)
  BY DEF Merge, ApplyCall, MergeOf, Wallet
<1>. QED
  BY <1>1, <1>3, <1>4, <1>5

\* z is w with `amount` converted on the legs.
ConvertOf(w, z, legs, amount) ==
  /\ \A l \in legs : z.no[l] = w.no[l] - amount /\ z.yes[l] = w.yes[l]
  /\ \A l \in Leg \ legs : z.no[l] = w.no[l]
  /\ \A l \in Complement(legs) : z.yes[l] = w.yes[l] + amount
  /\ \A l \in Leg \ (legs \union Complement(legs)) : z.yes[l] = w.yes[l]
  /\ z.usdce = w.usdce + (Cardinality(legs) - 1) * amount
  /\ z.pusd = w.pusd /\ z.allowance = w.allowance

\* A convert of no more than is held does that, and is valid.
LEMMA ConvertDoes ==
  ASSUME NEW w \in Wallet, NEW legs \in SUBSET Leg, IsFiniteSet(legs), legs # {}, NEW amount \in Nat,
         \A l \in legs : amount <= w.no[l]
  PROVE  /\ Convert(legs, amount) \in ProperCall /\ CallValid(w, Convert(legs, amount))
         /\ ApplyCall(w, Convert(legs, amount)) \in Wallet
         /\ ConvertOf(w, ApplyCall(w, Convert(legs, amount)), legs, amount)
<1>1. Convert(legs, amount) \in ProperCall
  BY DEF Convert, ProperCall, RelayerCall, Call
<1>2. \A l \in legs : w.no[l] \in Nat
  BY DEF Wallet
<1>3. CallValid(w, Convert(legs, amount))
  BY <1>2 DEF Convert, CallValid
<1>4. ApplyCall(w, Convert(legs, amount)) \in Wallet
  BY <1>1, <1>3, ApplyTyped
<1>5. Complement(legs) \subseteq Leg \ legs
  BY DEF Complement
<1>6. ConvertOf(w, ApplyCall(w, Convert(legs, amount)), legs, amount)
  BY <1>5 DEF Convert, ApplyCall, ConvertOf, Wallet
<1>. QED
  BY <1>1, <1>3, <1>4, <1>6

---------------------------------------------------------------------------
(* Lists of merges.                                                        *)

\* z is w with the first n of the merges done, the i-th of them on leg id[i].
Merged(w, z, merges, id, n) ==
  /\ \A i \in 1..n : /\ z.no[id[i]] = w.no[id[i]] - merges[i].amount
                      /\ z.yes[id[i]] = w.yes[id[i]] - merges[i].amount
  /\ \A l \in Leg : (\A i \in 1..n : id[i] # l) => z.no[l] = w.no[l] /\ z.yes[l] = w.yes[l]
  /\ z.pusd = w.pusd /\ z.allowance = w.allowance
\* Merges of different legs, no more of each than the wallet holds of both.
CanMergeAll(w, merges, id) ==
  /\ merges \in Seq(Call)
  /\ \A i \in 1..Len(merges) : /\ id[i] \in Leg /\ merges[i] = Merge(id[i], merges[i].amount)
                               /\ merges[i].amount <= w.no[id[i]] /\ merges[i].amount <= w.yes[id[i]]
  /\ \A i, j \in 1..Len(merges) : id[i] = id[j] => i = j

\* Such merges run, and free their sum.
LEMMA MergesRun ==
  ASSUME NEW w \in Wallet, NEW merges, NEW id, CanMergeAll(w, merges, id)
  PROVE  \E z \in Wallet : /\ Leads(w, merges, z) /\ Merged(w, z, merges, id, Len(merges))
                           /\ z.usdce = w.usdce + SumAmounts(merges) /\ SumAmounts(merges) \in Nat
<1>. DEFINE n == Len(merges)
            v == [i \in DOMAIN merges |-> merges[i].amount]
<1>1. n \in Nat /\ DOMAIN merges = 1..n /\ n \in 0..n /\ 0 \in 0..n
  BY DEF CanMergeAll
<1>2. \A i \in 1..n : merges[i] \in Call /\ merges[i].amount \in Nat
  <2>1. \A i \in 1..n : merges[i] \in Call
    BY DEF CanMergeAll
  <2>. QED
    BY <2>1 DEF Call
<1>3. v \in Seq(Nat) /\ Len(v) = n /\ \A i \in 1..n : v[i] = merges[i].amount
  <2>1. v \in [1..n -> Nat]
    BY <1>1, <1>2
  <2>. QED
    BY <1>1, <2>1
<1>. HIDE DEF v
<1>4. PICK f : SumTrace(f, v)
  BY <1>3, SumSteps
<1>. DEFINE At(i, x) == Merged(w, x, merges, id, i) /\ x.usdce = w.usdce + f[i]
            R == {p \in (0..n) \X Wallet : At(p[1], p[2])}
<1>5. <<0, w>> \in R
  <2>1. Merged(w, w, merges, id, 0)
    BY DEF Merged
  <2>2. f[0] = 0 /\ w.usdce = w.usdce + 0
    BY <1>4 DEF SumTrace, Wallet
  <2>. QED
    BY <1>1, <2>1, <2>2
<1>6. ASSUME NEW i \in 1..n, NEW x \in Wallet, <<i - 1, x>> \in R
      PROVE  merges[i] \in ProperCall /\ CallValid(x, merges[i]) /\ <<i, ApplyCall(x, merges[i])>> \in R
  <2>. DEFINE a == merges[i].amount
              l == id[i]
              y == ApplyCall(x, Merge(l, a))
  <2>1. Merged(w, x, merges, id, i - 1) /\ x.usdce = w.usdce + f[i - 1]
    BY <1>6
  <2>2. /\ merges[i] = Merge(l, a) /\ a \in Nat /\ l \in Leg /\ a <= w.no[l] /\ a <= w.yes[l]
        /\ \A j \in 1..(i - 1) : id[j] # l
    <3>1. \A j \in 1..(i - 1) : j \in 1..n /\ j # i
      BY <1>1
    <3>. QED
      BY <1>2, <3>1 DEF CanMergeAll
  <2>3. x.no[l] = w.no[l] /\ x.yes[l] = w.yes[l]
    BY <2>1, <2>2 DEF Merged
  <2>4. merges[i] \in ProperCall /\ CallValid(x, merges[i]) /\ y \in Wallet /\ MergeOf(x, y, l, a)
    BY <2>2, <2>3, MergeDoes
  <2>. HIDE DEF y
  <2>5. Merged(w, y, merges, id, i)
    <3>1. ASSUME NEW j \in 1..i
          PROVE  y.no[id[j]] = w.no[id[j]] - merges[j].amount /\ y.yes[id[j]] = w.yes[id[j]] - merges[j].amount
      <4>1. CASE j = i
        BY <2>3, <2>4, <4>1 DEF MergeOf
      <4>2. CASE j # i
        <5>1. j \in 1..(i - 1) /\ j \in 1..n
          BY <1>1, <4>2
        <5>2. id[j] \in Leg \ {l}
          BY <2>2, <5>1 DEF CanMergeAll
        <5>. QED
          BY <2>1, <2>4, <5>1, <5>2 DEF MergeOf, Merged
      <4>. QED
        BY <4>1, <4>2
    <3>2. ASSUME NEW m \in Leg, \A j \in 1..i : id[j] # m PROVE y.no[m] = w.no[m] /\ y.yes[m] = w.yes[m]
      <4>1. i \in 1..i /\ \A j \in 1..(i - 1) : j \in 1..i
        BY <1>1
      <4>2. m \in Leg \ {l} /\ \A j \in 1..(i - 1) : id[j] # m
        BY <3>2, <4>1
      <4>. QED
        BY <2>1, <2>4, <4>2 DEF MergeOf, Merged
    <3>3. y.pusd = w.pusd /\ y.allowance = w.allowance
      BY <2>1, <2>4 DEF MergeOf, Merged
    <3>. QED
      BY <3>1, <3>2, <3>3 DEF Merged
  <2>6. y.usdce = w.usdce + f[i]
    <3>1. i - 1 \in 0..n /\ i \in 0..n
      BY <1>1
    <3>2. f[i] = f[i - 1] + a /\ f[i - 1] \in Nat
      <4>1. f[i] = f[i - 1] + v[i]
        BY <1>3, <1>4 DEF SumTrace
      <4>2. f[i - 1] \in Nat
        BY <1>3, <1>4, <3>1 DEF SumTrace
      <4>. QED
        BY <1>3, <4>1, <4>2
    <3>3. w.usdce \in Nat /\ y.usdce = x.usdce + a
      BY <2>4 DEF MergeOf, Wallet
    <3>4. w.usdce + (f[i - 1] + a) = (w.usdce + f[i - 1]) + a
      BY <2>2, <3>2, <3>3, Associate
    <3>. QED
      BY <2>1, <3>2, <3>3, <3>4
  <2>7. <<i, y>> \in R
    <3>1. i \in 0..n
      BY <1>1
    <3>. QED
      BY <2>4, <2>5, <2>6, <3>1
  <2>. QED
    BY <2>2, <2>4, <2>7 DEF y
<1>. HIDE DEF R
<1>7. merges \in Seq(ProperCall)
  <2>1. \A i \in 1..n : merges[i] \in ProperCall
    BY <1>2, MergeDoes DEF CanMergeAll
  <2>2. merges \in [1..n -> ProperCall]
    BY <1>1, <2>1 DEF CanMergeAll
  <2>. QED
    BY <1>1, <2>2
<1>8. PICK z \in Wallet : Leads(w, merges, z) /\ <<n, z>> \in R
  <2>1. \A i \in 1..Len(merges) : \A x \in Wallet : <<i - 1, x>> \in R =>
           CallValid(x, merges[i]) /\ <<i, ApplyCall(x, merges[i])>> \in R
    BY <1>6
  <2>. QED
    BY <1>5, <1>7, <2>1, CallRuns
<1>9. f[n] = SumAmounts(merges) /\ f[n] \in Nat
  BY <1>1, <1>3, <1>4 DEF SumTrace, SumAmounts, v
<1>. QED
  BY <1>8, <1>9 DEF R

---------------------------------------------------------------------------
(* What is read of a leg, and the levels of a job.                         *)

\* A leg reads numbers, nets the smaller of them, and keeps the rest.
LEMMA LegRead ==
  ASSUME NEW w \in Wallet, NEW l \in JobLeg
  PROVE  /\ No(w, l) = w.no[l.id] /\ No(w, l) \in Nat
         /\ Yes(w, l) = (IF l.yid THEN w.yes[l.id] ELSE 0) /\ Yes(w, l) \in Nat
         /\ w.yes[l.id] \in Nat /\ l.id \in Leg
         /\ Netted(w, l) = (IF No(w, l) <= Yes(w, l) THEN No(w, l) ELSE Yes(w, l))
         /\ Remaining(w, l) = No(w, l) - Netted(w, l)
         /\ Netted(w, l) \in Nat /\ Remaining(w, l) \in Nat
<1>1. No(w, l) \in Nat /\ Yes(w, l) \in Nat /\ w.yes[l.id] \in Nat /\ l.id \in Leg
  BY DEF No, Yes, Wallet, JobLeg
<1>2. Netted(w, l) = IF No(w, l) <= Yes(w, l) THEN No(w, l) ELSE Yes(w, l)
  <2>1. \A a, b \in Nat : Min({a, b}) = IF a <= b THEN a ELSE b
    BY DEF Min
  <2>. QED
    BY <1>1, <2>1 DEF Netted
<1>3. Netted(w, l) \in Nat /\ No(w, l) - Netted(w, l) \in Nat
  BY <1>1, <1>2
<1>. QED
  BY <1>1, <1>2, <1>3 DEF No, Yes, Remaining

\* The legs of a job differ, and are of one event.
LEMMA JobLegs ==
  ASSUME NEW job, IsJob(job)
  PROVE  /\ job \in Seq(JobLeg) /\ IsInjective(job) /\ ToSet(job) \subseteq JobLeg
         /\ \A l, m \in ToSet(job) : (l.id = m.id => l = m) /\ EventOf[l.id] = EventOf[m.id]
<1>1. job \in Seq(JobLeg) /\ IsInjective(job)
  BY DEF IsJob, IsInjective
<1>2. ToSet(job) \subseteq JobLeg
  BY <1>1 DEF ToSet
<1>3. \A l, m \in ToSet(job) : (l.id = m.id => l = m) /\ EventOf[l.id] = EventOf[m.id]
  BY DEF IsJob, ToSet
<1>. QED
  BY <1>1, <1>2, <1>3

\* The levels are finitely many, and every leg left with NO is at one.
LEMMA LevelsFinite ==
  ASSUME NEW w \in Wallet, NEW job, IsJob(job)
  PROVE  /\ Levels(w, job) \in SUBSET (Nat \ {0}) /\ IsFiniteSet(Levels(w, job))
         /\ \E b \in Nat : \A u \in Levels(w, job) : u <= b
         /\ \A l \in ToSet(job) : Remaining(w, l) # 0 => Remaining(w, l) \in Levels(w, job)
<1>. DEFINE n == Len(job)
            v == [i \in 1..n |-> Remaining(w, job[i])]
<1>1. n \in Nat /\ DOMAIN job = 1..n /\ \A i \in 1..n : job[i] \in JobLeg
  BY JobLegs
<1>2. \A i \in 1..n : v[i] \in Nat
  BY <1>1, LegRead
<1>3. PICK b \in Nat : \A i \in 1..n : v[i] <= b
  <2>. HIDE DEF v
  <2>. QED
    BY <1>1, <1>2, Bounded
<1>4. \A u \in Levels(w, job) : \E i \in 1..n : u = v[i]
  BY <1>1 DEF Levels, ToSet
<1>. HIDE DEF v
<1>5. Levels(w, job) \in SUBSET (Nat \ {0}) /\ \A u \in Levels(w, job) : u <= b
  <2>1. 0 \notin Levels(w, job)
    BY DEF Levels
  <2>. QED
    BY <1>2, <1>3, <1>4, <2>1
<1>6. IsFiniteSet(Levels(w, job))
  BY <1>5, FS_BoundedSetOfNaturals
<1>. QED
  BY <1>5, <1>6 DEF Levels

\* The level below v: the greatest one less than v, or 0.
Below(w, job, v) == Max({0} \union {u \in Levels(w, job) : u < v})

\* It is the next one down.
LEMMA BelowIs ==
  ASSUME NEW w \in Wallet, NEW job, IsJob(job), NEW v \in Nat \ {0}
  PROVE  /\ Below(w, job, v) \in {0} \union Levels(w, job) /\ Below(w, job, v) \in Nat
         /\ Below(w, job, v) < v /\ Amount(w, job, v) = v - Below(w, job, v)
         /\ \A u \in Levels(w, job) : u < v => u <= Below(w, job, v)
<1>. DEFINE t == {0} \union {u \in Levels(w, job) : u < v}
<1>1. \A u \in t : u \in Nat /\ u < v /\ u \in 0..v
  <2>1. \A u \in Levels(w, job) : u \in Nat
    BY LevelsFinite
  <2>2. \A u \in Nat : u < v => u \in 0..v
    OBVIOUS
  <2>3. 0 \in Nat /\ 0 < v
    OBVIOUS
  <2>. QED
    BY <2>1, <2>2, <2>3
<1>2. t \subseteq 0..v /\ t # {}
  BY <1>1
<1>3. Max(t) \in t /\ \A u \in t : u <= Max(t)
  <2>. HIDE DEF t
  <2>. QED
    BY <1>2, Greatest
<1>. QED
  BY <1>1, <1>3 DEF Below, Amount

\* The level reached by the first i tiers.
Reached(levels, i) == IF i = 0 THEN 0 ELSE levels[i]

\* The levels a job is worked at: those not at or above a dusty one.
Worth(w, job) == {v \in Levels(w, job) : \A u \in Levels(w, job) : u <= v => ~Dust(w, job, u)}

\* The tiers climb from each level to the next one.
LEMMA TierLevelsClimb ==
  ASSUME NEW w \in Wallet, NEW job, IsJob(job)
  PROVE  /\ TierLevels(w, job) \in Seq(Nat) /\ Sorts(TierLevels(w, job), Worth(w, job))
         /\ \A i \in 1..Len(TierLevels(w, job)) :
              /\ TierLevels(w, job)[i] \in Levels(w, job)
              /\ Reached(TierLevels(w, job), i - 1) = Below(w, job, TierLevels(w, job)[i])
<1>. DEFINE D == Worth(w, job)
            s == TierLevels(w, job)
<1>1. D \in SUBSET Nat /\ IsFiniteSet(D) /\ D \subseteq Levels(w, job)
  <2>1. D \subseteq Levels(w, job)
    BY DEF Worth
  <2>. HIDE DEF D
  <2>. QED
    BY <2>1, LevelsFinite, FS_Subset
<1>2. Sorts(s, D)
  BY <1>1, AscendingSorts DEF TierLevels, Worth
<1>3. s \in Seq(D) /\ ToSet(s) = D /\ \A i, j \in 1..Len(s) : i < j => s[i] < s[j]
  BY <1>2 DEF Sorts
<1>. HIDE DEF D, s
<1>4. Len(s) \in Nat /\ DOMAIN s = 1..Len(s) /\ \A i \in 1..Len(s) : s[i] \in D
  BY <1>3
<1>5. ASSUME NEW i \in 1..Len(s) PROVE s[i] \in Levels(w, job) /\ Reached(s, i - 1) = Below(w, job, s[i])
  <2>. DEFINE u == Below(w, job, s[i])
  <2>1. s[i] \in D /\ s[i] \in Levels(w, job) /\ s[i] \in Nat \ {0}
    BY <1>1, <1>4, LevelsFinite
  <2>2. /\ u \in {0} \union Levels(w, job) /\ u \in Nat /\ u < s[i]
        /\ \A x \in Levels(w, job) : x < s[i] => x <= u
    BY <2>1, BelowIs
  <2>3. \A x \in Levels(w, job) : x < s[i] => x \in D
    <3>1. \A x \in Levels(w, job) : x \in Nat
      BY LevelsFinite
    <3>2. \A x, y \in Nat : x < s[i] /\ y <= x => y <= s[i]
      BY <2>1
    <3>. QED
      BY <2>1, <3>1, <3>2 DEF Worth, D
  <2>. HIDE DEF u
  <2>4. CASE u = 0
    <3>1. i = 1
      <4>1. SUFFICES ASSUME i # 1 PROVE FALSE
        OBVIOUS
      <4>2. 1 \in 1..Len(s) /\ 1 < i
        BY <1>4, <4>1
      <4>3. s[1] < s[i] /\ s[1] \in Levels(w, job) /\ s[1] \in Nat \ {0}
        BY <1>1, <1>3, <1>4, <4>2, LevelsFinite
      <4>4. s[1] <= u
        BY <2>2, <4>3
      <4>. QED
        BY <2>4, <4>3, <4>4
    <3>. QED
      BY <2>1, <2>4, <3>1 DEF Reached, u
  <2>5. CASE u # 0
    <3>1. u \in D
      BY <2>2, <2>3, <2>5
    <3>2. PICK j \in 1..Len(s) : s[j] = u
      BY <1>3, <1>4, <3>1 DEF ToSet
    <3>3. j < i
      <4>1. CASE j = i
        BY <2>1, <2>2, <3>2, <4>1
      <4>2. CASE i < j
        <5>1. s[i] < u
          BY <1>3, <3>2, <4>2
        <5>. QED
          BY <2>1, <2>2, <5>1
      <4>. QED
        BY <1>4, <4>1, <4>2
    <3>4. i - 1 \in 1..Len(s) /\ i - 1 < i /\ i - 1 # 0 /\ j <= i - 1
      BY <1>4, <3>3
    <3>5. s[i - 1] < s[i] /\ s[i - 1] \in Levels(w, job) /\ s[i - 1] \in Nat
      BY <1>1, <1>3, <1>4, <3>4, LevelsFinite
    <3>6. s[i - 1] <= u
      BY <2>2, <3>5
    <3>7. j = i - 1
      <4>1. SUFFICES ASSUME j < i - 1 PROVE FALSE
        BY <1>4, <3>4
      <4>2. u < s[i - 1]
        BY <1>3, <3>2, <3>4, <4>1
      <4>. QED
        BY <2>2, <3>5, <3>6, <4>2
    <3>. QED
      BY <2>1, <3>2, <3>4, <3>7 DEF Reached, u
  <2>. QED
    BY <2>4, <2>5
<1>6. s \in Seq(Nat)
  <2>1. s \in [1..Len(s) -> D]
    BY <1>3
  <2>2. s \in [1..Len(s) -> Nat]
    BY <1>1, <2>1
  <2>. QED
    BY <1>4, <2>2
<1>. QED
  BY <1>2, <1>5, <1>6 DEF s, D

---------------------------------------------------------------------------
(* One tier.                                                               *)

\* What level v leaves of r.
Left(r, v) == IF r <= v THEN 0 ELSE r - v

\* The wallet x after the tiers up to level v, on a leg of which r remained: the
\* NO above v is there, and where both ids are known none of its YES; without a
\* condition id no NO is short, and what is too much has its YES.
WorkedLeg(x, l, r, v) ==
  /\ l.cid => x.no[l.id] = Left(r, v)
  /\ l.cid /\ l.yid /\ r >= v /\ r > 0 => x.yes[l.id] = 0
  /\ ~l.cid => x.no[l.id] >= Left(r, v)
  /\ ~l.cid /\ l.yid => x.no[l.id] <= x.yes[l.id] + Left(r, v)
Worked(x, w, job, v) == \A l \in ToSet(job) : WorkedLeg(x, l, Remaining(w, l), v)

\* Only this job's event moved, and only its tokens and USDC.e.
Elsewhere(x, z, job) ==
  /\ z.pusd = x.pusd /\ z.allowance = x.allowance
  /\ \A l \in Leg : (\A m \in ToSet(job) : EventOf[l] # EventOf[m.id]) =>
       z.no[l] = x.no[l] /\ z.yes[l] = x.yes[l]

\* What the tier at level v, by `a` above the one before, does to one leg.
TierLeg(x, z, l, r, v, a, first) ==
  /\ l.id \in first => z.no[l.id] = x.no[l.id] - a /\ z.yes[l.id] = x.yes[l.id]
  /\ l.id \notin first /\ l.cid /\ r >= v => z.no[l.id] = x.no[l.id] - a /\ z.yes[l.id] = x.yes[l.id]
  /\ l.id \notin first /\ (~l.cid \/ r < v) => z.no[l.id] = x.no[l.id] /\ z.yes[l.id] = x.yes[l.id] + a

\* It takes a leg from one level to the next.
LEMMA TierWorks ==
  ASSUME NEW x \in Wallet, NEW z \in Wallet, NEW l \in JobLeg, NEW r \in Nat, NEW v \in Nat,
         NEW u \in Nat, u < v, NEW a \in Nat, a = v - u, r < v => r <= u, NEW first,
         l.id \in first => r >= v, WorkedLeg(x, l, r, u), TierLeg(x, z, l, r, v, a, first)
  PROVE  WorkedLeg(z, l, r, v)
<1>. DEFINE xn == x.no[l.id]
            xy == x.yes[l.id]
            zn == z.no[l.id]
            zy == z.yes[l.id]
<1>1. xn \in Nat /\ xy \in Nat /\ zn \in Nat /\ zy \in Nat /\ l.cid \in BOOLEAN /\ l.yid \in BOOLEAN
  BY DEF Wallet, JobLeg
<1>2. /\ l.cid => xn = Left(r, u)
      /\ l.cid /\ l.yid /\ r >= u /\ r > 0 => xy = 0
      /\ ~l.cid => xn >= Left(r, u)
      /\ ~l.cid /\ l.yid => xn <= xy + Left(r, u)
  BY DEF WorkedLeg
<1>3. /\ l.id \in first => zn = xn - a /\ zy = xy
      /\ l.id \notin first /\ l.cid /\ r >= v => zn = xn - a /\ zy = xy
      /\ l.id \notin first /\ (~l.cid \/ r < v) => zn = xn /\ zy = xy + a
  BY DEF TierLeg
<1>4. SUFFICES /\ l.cid => zn = Left(r, v)
               /\ l.cid /\ l.yid /\ r >= v /\ r > 0 => zy = 0
               /\ ~l.cid => zn >= Left(r, v)
               /\ ~l.cid /\ l.yid => zn <= zy + Left(r, v)
  BY DEF WorkedLeg
<1>. HIDE DEF xn, xy, zn, zy
<1>5. CASE l.id \in first
  <2>1. r >= v /\ Left(r, u) = r - u /\ Left(r, v) = r - v
    BY <1>5 DEF Left
  <2>. QED
    BY <1>1, <1>2, <1>3, <1>5, <2>1
<1>6. CASE l.id \notin first /\ r >= v
  <2>1. Left(r, u) = r - u /\ Left(r, v) = r - v
    BY <1>6 DEF Left
  <2>. QED
    BY <1>1, <1>2, <1>3, <1>6, <2>1
<1>7. CASE l.id \notin first /\ r < v
  <2>1. Left(r, u) = 0 /\ Left(r, v) = 0
    BY <1>7 DEF Left
  <2>. QED
    BY <1>1, <1>2, <1>3, <1>7, <2>1
<1>. QED
  BY <1>5, <1>6, <1>7

\* The calls of two lists, of one planned call, and of planned merges.
LEMMA CallsOfBoth ==
  ASSUME NEW p \in Seq(PlannedCall), NEW q \in Seq(PlannedCall)
  PROVE  /\ CallsOf(p \o q) = CallsOf(p) \o CallsOf(q)
         /\ CallsOf(p) \in Seq(ProperCall) /\ CallsOf(q) \in Seq(ProperCall)
<1>1. \A s \in Seq(PlannedCall) : /\ CallsOf(s) \in Seq(ProperCall) /\ Len(CallsOf(s)) = Len(s)
                                  /\ \A i \in 1..Len(s) : CallsOf(s)[i] = s[i].call
  <2>1. SUFFICES ASSUME NEW s \in Seq(PlannedCall)
                 PROVE  /\ CallsOf(s) \in Seq(ProperCall) /\ Len(CallsOf(s)) = Len(s)
                        /\ \A i \in 1..Len(s) : CallsOf(s)[i] = s[i].call
    OBVIOUS
  <2>2. Len(s) \in Nat /\ DOMAIN s = 1..Len(s) /\ \A i \in 1..Len(s) : s[i] \in PlannedCall
    OBVIOUS
  <2>3. \A i \in 1..Len(s) : s[i].call \in ProperCall
    BY <2>2 DEF PlannedCall
  <2>4. CallsOf(s) = [i \in 1..Len(s) |-> s[i].call]
    BY <2>2 DEF CallsOf
  <2>5. [i \in 1..Len(s) |-> s[i].call] \in [1..Len(s) -> ProperCall]
    BY <2>3
  <2>6. CallsOf(s) \in [1..Len(s) -> ProperCall]
    BY <2>4, <2>5
  <2>7. CallsOf(s) \in Seq(ProperCall)
    <3>1. ASSUME NEW n \in Nat, NEW f \in [1..n -> ProperCall] PROVE f \in Seq(ProperCall)
      OBVIOUS
    <3>. QED
      BY <2>2, <2>6, <3>1
  <2>8. Len(CallsOf(s)) = Len(s)
    BY <2>2, <2>6
  <2>. QED
    BY <2>4, <2>7, <2>8
<1>. DEFINE m == Len(p)
            n == Len(q)
            a == CallsOf(p \o q)
            b == CallsOf(p) \o CallsOf(q)
<1>2. p \o q \in Seq(PlannedCall) /\ Len(p \o q) = m + n /\ m \in Nat /\ n \in Nat
  OBVIOUS
<1>3. a \in Seq(ProperCall) /\ Len(a) = m + n
  BY <1>1, <1>2
<1>4. b \in Seq(ProperCall) /\ Len(b) = m + n
  <2>1. CallsOf(p) \in Seq(ProperCall) /\ CallsOf(q) \in Seq(ProperCall) /\ Len(CallsOf(p)) = m /\ Len(CallsOf(q)) = n
    BY <1>1
  <2>2. \A x, y \in Seq(ProperCall) : x \o y \in Seq(ProperCall) /\ Len(x \o y) = Len(x) + Len(y)
    BY ConcatProperties
  <2>. QED
    BY <2>1, <2>2
<1>5. \A i \in 1..(m + n) : a[i] = b[i]
  <2>1. ASSUME NEW i \in 1..(m + n) PROVE a[i] = b[i]
    <3>1. (p \o q)[i] = IF i <= m THEN p[i] ELSE q[i - m]
      OBVIOUS
    <3>2. a[i] = (p \o q)[i].call
      BY <1>1, <1>2
    <3>3. b[i] = IF i <= m THEN CallsOf(p)[i] ELSE CallsOf(q)[i - m]
      <4>1. CallsOf(p) \in Seq(ProperCall) /\ CallsOf(q) \in Seq(ProperCall) /\ Len(CallsOf(p)) = m /\ Len(CallsOf(q)) = n
        BY <1>1
      <4>. QED
        BY <1>2, <4>1
    <3>4. CASE i <= m
      <4>1. i \in 1..m
        BY <1>2, <3>4
      <4>. QED
        BY <1>1, <3>1, <3>2, <3>3, <3>4, <4>1
    <3>5. CASE ~(i <= m)
      <4>1. i - m \in 1..n
        BY <1>2, <3>5
      <4>. QED
        BY <1>1, <3>1, <3>2, <3>3, <3>5, <4>1
    <3>. QED
      BY <3>4, <3>5
  <2>. QED
    BY <2>1
<1>. HIDE DEF a, b
<1>6. a = b
  <2>1. a = [i \in 1..(m + n) |-> a[i]] /\ b = [i \in 1..(m + n) |-> b[i]]
    BY <1>3, <1>4
  <2>. QED
    BY <1>5, <2>1
<1>. QED
  BY <1>1, <1>6 DEF a, b

\* The calls of planned merges are the merges.
LEMMA CallsOfMerges ==
  ASSUME NEW merges \in Seq(ProperCall)
  PROVE  AllMerges(merges) \in Seq(PlannedCall) /\ CallsOf(AllMerges(merges)) = merges
<1>1. Len(merges) \in Nat /\ DOMAIN merges = 1..Len(merges) /\ merges = [i \in 1..Len(merges) |-> merges[i]]
  OBVIOUS
<1>2. \A i \in 1..Len(merges) : Planned(merges[i], MergeGas) \in PlannedCall /\ Planned(merges[i], MergeGas).call = merges[i]
  <2>1. \A i \in 1..Len(merges) : merges[i] \in ProperCall
    OBVIOUS
  <2>. QED
    BY <2>1 DEF Planned, PlannedCall, MergeGas
<1>3. AllMerges(merges) \in [1..Len(merges) -> PlannedCall]
  BY <1>1, <1>2 DEF AllMerges
<1>4. AllMerges(merges) \in Seq(PlannedCall)
  BY <1>1, <1>3
<1>5. DOMAIN AllMerges(merges) = 1..Len(merges) /\ \A i \in 1..Len(merges) : AllMerges(merges)[i].call = merges[i]
  BY <1>1, <1>2 DEF AllMerges
<1>6. CallsOf(AllMerges(merges)) = [i \in 1..Len(merges) |-> merges[i]]
  BY <1>5 DEF CallsOf
<1>. QED
  BY <1>1, <1>4, <1>6

\* The call of a planned convert is the convert.
LEMMA CallsOfConvert ==
  ASSUME NEW c \in ProperCall, NEW n \in Nat
  PROVE  <<Planned(c, ConvertGas(n))>> \in Seq(PlannedCall) /\ CallsOf(<<Planned(c, ConvertGas(n))>>) = <<c>>
<1>1. Planned(c, ConvertGas(n)) \in PlannedCall /\ Planned(c, ConvertGas(n)).call = c
  <2>1. ConvertGas(n) \in Nat
    BY DEF ConvertGas
  <2>. QED
    BY <2>1 DEF Planned, PlannedCall
<1>. DEFINE p == Planned(c, ConvertGas(n))
<1>. HIDE DEF p
<1>2. \A x \in PlannedCall : <<x>> \in Seq(PlannedCall) /\ DOMAIN <<x>> = 1..1 /\ <<x>>[1] = x
  OBVIOUS
<1>3. CallsOf(<<p>>) = <<p.call>>
  <2>1. CallsOf(<<p>>) = [i \in 1..1 |-> <<p>>[i].call]
    BY <1>1, <1>2 DEF CallsOf, p
  <2>2. \A i \in 1..1 : <<p>>[i].call = p.call
    BY <1>1, <1>2 DEF p
  <2>3. CallsOf(<<p>>) = [i \in 1..1 |-> p.call]
    BY <2>1, <2>2
  <2>. QED
    BY <2>3
<1>. QED
  BY <1>1, <1>2, <1>3 DEF p

\* The members of the tier at level v are legs at or above it; `rest` are those
\* left out that carry a condition id, in the order of their post-merges.
TierShape(t, w, job, v, rest) ==
  /\ t.amount = Amount(w, job, v) /\ t.members \in Seq(JobLeg) /\ t.members # <<>> /\ IsInjective(t.members)
  /\ ToSet(t.members) \subseteq {l \in ToSet(job) : Remaining(w, l) >= v}
  /\ rest \in Seq(JobLeg) /\ IsInjective(rest)
  /\ ToSet(rest) = {l \in ToSet(job) : Remaining(w, l) >= v /\ l.cid} \ ToSet(t.members)
  /\ t.post = [i \in DOMAIN rest |-> Merge(rest[i].id, t.amount)]

\* Every tier of a level has that shape.
LEMMA TierHasShape ==
  ASSUME NEW w \in Wallet, NEW job, IsJob(job), NEW v \in Levels(w, job)
  PROVE  \E rest : TierShape(Tier(w, job, v), w, job, v, rest)
<1>. DEFINE K == {l \in ToSet(job) : Remaining(w, l) >= v}
            M == Members(w, job, v)
            width == Min({MaxLegs, Len(M)})
            first == SubSeq(M, 1, width)
            back == SubSeq(M, width + 1, Len(M))
            C == {l \in ToSet(job) : l.cid}
            rest == Only(back, C)
<1>1. job \in Seq(JobLeg) /\ IsInjective(job) /\ ToSet(job) \subseteq JobLeg
  BY JobLegs
<1>2. M \in Seq(JobLeg) /\ IsInjective(M) /\ ToSet(M) = K
  <2>1. M = Only(job, K)
    BY DEF Members
  <2>. HIDE DEF M
  <2>2. M \in Seq(JobLeg) /\ IsInjective(M) /\ ToSet(M) = ToSet(job) \intersect K
    <3>. HIDE DEF K
    <3>. QED
      BY <1>1, <2>1, OnlyRange
  <2>. QED
    BY <2>2
<1>3. Len(M) \in Nat \ {0}
  <2>1. PICK l \in ToSet(job) : Remaining(w, l) = v
    BY DEF Levels
  <2>2. v \in Nat
    BY LevelsFinite
  <2>3. l \in K
    BY <2>1, <2>2
  <2>. HIDE DEF M, K
  <2>. QED
    BY <1>2, <2>3 DEF ToSet
<1>. HIDE DEF K, M
<1>4. width \in 1..Len(M) /\ width \in 0..Len(M)
  <2>1. \A i, j \in Nat \ {0} : Min({i, j}) = IF i <= j THEN i ELSE j
    BY DEF Min
  <2>. QED
    BY <1>3, <2>1, PlanAssumption
<1>. HIDE DEF width
<1>5. /\ first \in Seq(JobLeg) /\ back \in Seq(JobLeg) /\ Len(first) = width
      /\ IsInjective(first) /\ IsInjective(back)
      /\ ToSet(first) \union ToSet(back) = K /\ ToSet(first) \intersect ToSet(back) = {}
  BY <1>2, <1>4, Cut
<1>. HIDE DEF first, back
<1>6. rest \in Seq(JobLeg) /\ IsInjective(rest) /\ ToSet(rest) = ToSet(back) \intersect C
  <2>. HIDE DEF C
  <2>. QED
    BY <1>5, OnlyRange
<1>7. first # <<>>
  BY <1>4, <1>5
<1>8. /\ Tier(w, job, v).members = first /\ Tier(w, job, v).amount = Amount(w, job, v)
      /\ Tier(w, job, v).post = [i \in DOMAIN rest |-> Merge(rest[i].id, Amount(w, job, v))]
  BY DEF Tier, M, width, first, back
<1>. HIDE DEF rest
<1>9. ToSet(rest) = {l \in ToSet(job) : Remaining(w, l) >= v /\ l.cid} \ ToSet(first)
  BY <1>5, <1>6 DEF K
<1>10. ToSet(first) \subseteq {l \in ToSet(job) : Remaining(w, l) >= v}
  BY <1>5 DEF K
<1>. QED
  BY <1>5, <1>6, <1>7, <1>8, <1>9, <1>10 DEF TierShape

\* The tier at level v runs where the one before ended, frees what it announces
\* and leaves the job worked up to v.
LEMMA TierRuns ==
  ASSUME NEW w \in Wallet, NEW job, IsJob(job), NEW v \in Levels(w, job),
         NEW x \in Wallet, Worked(x, w, job, Below(w, job, v)), NEW n \in Nat
  PROVE  /\ TierCalls(Tier(w, job, v), n) \in Seq(PlannedCall) /\ TierProceeds(Tier(w, job, v)) \in Nat
         /\ \E z \in Wallet : /\ Leads(x, CallsOf(TierCalls(Tier(w, job, v), n)), z) /\ Worked(z, w, job, v)
                              /\ z.usdce = x.usdce + TierProceeds(Tier(w, job, v)) /\ Elsewhere(x, z, job)
<1>. DEFINE t == Tier(w, job, v)
            u == Below(w, job, v)
            a == Amount(w, job, v)
            ids == {l.id : l \in ToSet(t.members)}
            post == t.post
<1>1. /\ job \in Seq(JobLeg) /\ ToSet(job) \subseteq JobLeg
      /\ \A l, m \in ToSet(job) : (l.id = m.id => l = m) /\ EventOf[l.id] = EventOf[m.id]
  BY JobLegs
<1>2. v \in Nat \ {0} /\ u \in Nat /\ u < v /\ a = v - u /\ a \in Nat /\ \A r \in Levels(w, job) : r < v => r <= u
  <2>1. v \in Nat \ {0}
    BY LevelsFinite
  <2>2. u \in Nat /\ u < v /\ a = v - u /\ \A r \in Levels(w, job) : r < v => r <= u
    BY <2>1, BelowIs
  <2>. HIDE DEF u, a
  <2>. QED
    BY <2>1, <2>2
<1>3. PICK rest : TierShape(t, w, job, v, rest)
  BY TierHasShape
<1>. HIDE DEF t, u, a
<1>4. t.amount = a /\ post = [i \in DOMAIN rest |-> Merge(rest[i].id, a)]
  BY <1>3 DEF TierShape, a
<1>5. /\ ids \in SUBSET Leg /\ IsFiniteSet(ids) /\ ids # {} /\ Cardinality(ids) = Len(t.members)
      /\ Len(t.members) \in Nat \ {0}
  <2>. DEFINE k == Len(t.members)
              f == [i \in 1..k |-> t.members[i].id]
  <2>1. k \in Nat \ {0} /\ DOMAIN t.members = 1..k /\ IsInjective(t.members)
    BY <1>3 DEF TierShape
  <2>2. \A i \in 1..k : t.members[i] \in ToSet(job) /\ t.members[i] \in ToSet(t.members)
    BY <1>3, <2>1 DEF TierShape, ToSet
  <2>3. ids = {t.members[i].id : i \in 1..k}
    BY <2>1 DEF ToSet
  <2>4. ids \in SUBSET Leg
    <3>1. \A i \in 1..k : t.members[i] \in JobLeg
      BY <1>1, <2>2
    <3>2. \A i \in 1..k : t.members[i].id \in Leg
      BY <3>1 DEF JobLeg
    <3>. QED
      BY <2>3, <3>2
  <2>5. f \in [1..k -> ids] /\ \A m \in ids : \E i \in 1..k : f[i] = m
    BY <2>3
  <2>6. \A i, j \in 1..k : f[i] = f[j] => i = j
    BY <1>1, <2>1, <2>2 DEF IsInjective
  <2>7. IsFiniteSet(ids) /\ Cardinality(ids) = k
    <3>. HIDE DEF ids, f, k
    <3>1. k \in Nat
      BY <2>1
    <3>. QED
      BY <2>5, <2>6, <3>1, Counting
  <2>8. ids # {}
    <3>1. 1 \in 1..k
      BY <2>1
    <3>. QED
      BY <2>3, <3>1
  <2>. QED
    BY <2>1, <2>4, <2>7, <2>8
<1>6. \A l \in ToSet(job) : /\ l \in JobLeg /\ l.id \in Leg /\ Remaining(w, l) \in Nat
                            /\ l.id \in ids <=> l \in ToSet(t.members)
                            /\ l.id \in ids => Remaining(w, l) >= v
                            /\ l.id \notin ids => l.id \in Complement(ids)
  <2>1. SUFFICES ASSUME NEW l \in ToSet(job)
                 PROVE  /\ l \in JobLeg /\ l.id \in Leg /\ Remaining(w, l) \in Nat
                        /\ l.id \in ids <=> l \in ToSet(t.members)
                        /\ l.id \in ids => Remaining(w, l) >= v
                        /\ l.id \notin ids => l.id \in Complement(ids)
    OBVIOUS
  <2>2. l \in JobLeg /\ l.id \in Leg /\ Remaining(w, l) \in Nat
    BY <1>1, LegRead
  <2>3. l.id \in ids <=> l \in ToSet(t.members)
    BY <1>1, <1>3 DEF TierShape
  <2>4. l.id \in ids => Remaining(w, l) >= v
    BY <1>3, <2>3 DEF TierShape
  <2>5. l.id \notin ids => l.id \in Complement(ids)
    <3>1. PICK m \in ToSet(t.members) : m.id \in ids
      BY <1>5
    <3>2. EventOf[l.id] = EventOf[m.id]
      BY <1>1, <1>3 DEF TierShape
    <3>. QED
      BY <2>2, <3>1, <3>2 DEF Complement
  <2>. QED
    BY <2>2, <2>3, <2>4, <2>5
<1>7. \A l \in ToSet(job) : Remaining(w, l) >= v => x.no[l.id] >= a /\ x.no[l.id] \in Nat /\ x.yes[l.id] \in Nat
  <2>1. SUFFICES ASSUME NEW l \in ToSet(job), Remaining(w, l) >= v
                 PROVE  x.no[l.id] >= a /\ x.no[l.id] \in Nat /\ x.yes[l.id] \in Nat
    OBVIOUS
  <2>2. x.no[l.id] \in Nat /\ x.yes[l.id] \in Nat /\ Remaining(w, l) \in Nat
    BY <1>6 DEF Wallet
  <2>3. x.no[l.id] >= Left(Remaining(w, l), u)
    <3>1. WorkedLeg(x, l, Remaining(w, l), u)
      BY DEF Worked, u
    <3>2. l.cid \in BOOLEAN /\ Left(Remaining(w, l), u) \in Nat
      <4>1. \A i, j \in Nat : Left(i, j) \in Nat
        BY DEF Left
      <4>2. l.cid \in BOOLEAN
        BY <1>6 DEF JobLeg
      <4>. QED
        BY <1>2, <2>2, <4>1, <4>2
    <3>. QED
      BY <2>2, <3>1, <3>2 DEF WorkedLeg
  <2>4. Left(Remaining(w, l), u) = Remaining(w, l) - u
    BY <1>2, <2>1, <2>2 DEF Left
  <2>. QED
    BY <1>2, <2>1, <2>2, <2>3, <2>4
<1>. DEFINE y == ApplyCall(x, Convert(ids, a))
<1>8. /\ Convert(ids, a) \in ProperCall /\ CallValid(x, Convert(ids, a)) /\ y \in Wallet
      /\ ConvertOf(x, y, ids, a)
  <2>1. \A l \in ids : a <= x.no[l]
    <3>1. ASSUME NEW l \in ToSet(t.members) PROVE a <= x.no[l.id]
      <4>1. l \in ToSet(job) /\ Remaining(w, l) >= v
        BY <1>3 DEF TierShape
      <4>. QED
        BY <1>2, <1>7, <4>1
    <3>. QED
      BY <3>1
  <2>. HIDE DEF ids
  <2>. QED
    BY <1>2, <1>5, <2>1, ConvertDoes
<1>. HIDE DEF y, ids
<1>. DEFINE id == [i \in 1..Len(rest) |-> rest[i].id]
<1>9. Len(rest) \in Nat /\ DOMAIN rest = 1..Len(rest) /\ Len(post) = Len(rest)
      /\ \A i \in 1..Len(rest) : /\ rest[i] \in ToSet(job) /\ rest[i].cid /\ Remaining(w, rest[i]) >= v
                                 /\ rest[i].id \notin ids /\ rest[i].id \in Leg /\ rest[i] \in ToSet(rest)
  <2>1. Len(rest) \in Nat /\ DOMAIN rest = 1..Len(rest)
    BY <1>3 DEF TierShape
  <2>2. Len(post) = Len(rest)
    BY <1>4, <2>1
  <2>3. \A i \in 1..Len(rest) : rest[i] \in ToSet(rest)
    BY <2>1 DEF ToSet
  <2>4. \A l \in ToSet(rest) : l \in ToSet(job) /\ l.cid /\ Remaining(w, l) >= v /\ l \notin ToSet(t.members)
    BY <1>3 DEF TierShape
  <2>. QED
    BY <1>6, <2>1, <2>2, <2>3, <2>4
<1>10. CanMergeAll(y, post, id)
  <2>1. \A i \in 1..Len(post) : post[i] = Merge(id[i], a) /\ post[i].amount = a
    BY <1>4, <1>9 DEF Merge
  <2>2. post \in Seq(Call)
    <3>1. \A i \in 1..Len(rest) : Merge(rest[i].id, a) \in Call
      BY <1>2, <1>9 DEF Merge, Call
    <3>2. post \in [1..Len(rest) -> Call]
      BY <1>4, <1>9, <3>1
    <3>. QED
      BY <1>9, <3>2
  <2>3. \A i \in 1..Len(rest) : a <= y.no[rest[i].id] /\ a <= y.yes[rest[i].id]
    <3>1. ASSUME NEW i \in 1..Len(rest) PROVE a <= y.no[rest[i].id] /\ a <= y.yes[rest[i].id]
      <4>1. x.no[rest[i].id] >= a /\ x.no[rest[i].id] \in Nat /\ x.yes[rest[i].id] \in Nat
        BY <1>7, <1>9
      <4>2. rest[i].id \in Leg \ ids /\ rest[i].id \in Complement(ids)
        BY <1>6, <1>9
      <4>3. y.no[rest[i].id] = x.no[rest[i].id] /\ y.yes[rest[i].id] = x.yes[rest[i].id] + a
        BY <1>8, <4>2 DEF ConvertOf
      <4>. QED
        BY <1>2, <4>1, <4>3
    <3>. QED
      BY <3>1
  <2>4. \A i, j \in 1..Len(rest) : id[i] = id[j] => i = j
    <3>1. IsInjective(rest)
      BY <1>3 DEF TierShape
    <3>. QED
      BY <1>1, <1>9, <3>1 DEF IsInjective
  <2>. QED
    BY <1>9, <2>1, <2>2, <2>3, <2>4 DEF CanMergeAll
<1>11. PICK z \in Wallet : /\ Leads(y, post, z) /\ Merged(y, z, post, id, Len(post))
                          /\ z.usdce = y.usdce + SumAmounts(post) /\ SumAmounts(post) \in Nat
  <2>. HIDE DEF id, post
  <2>. QED
    BY <1>8, <1>10, MergesRun
<1>12. post \in Seq(ProperCall)
  <2>1. \A i \in 1..Len(post) : post[i] \in ProperCall
    <3>1. \A i \in 1..Len(post) : post[i] = Merge(id[i], a) /\ id[i] \in Leg
      BY <1>4, <1>9
    <3>2. \A l \in Leg : Merge(l, a) \in ProperCall
      BY <1>2, FS_Singleton DEF Merge, ProperCall, RelayerCall, Call
    <3>. QED
      BY <3>1, <3>2
  <2>2. post \in [1..Len(post) -> ProperCall]
    BY <1>4, <1>9, <2>1
  <2>. QED
    BY <1>9, <2>2
<1>13. /\ TierCalls(t, n) \in Seq(PlannedCall) /\ CallsOf(TierCalls(t, n)) = <<Convert(ids, a)>> \o post
  <2>1. TierCalls(t, n) = <<Planned(Convert(ids, a), ConvertGas(n))>> \o AllMerges(post)
    BY <1>4 DEF TierCalls, ids
  <2>2. /\ <<Planned(Convert(ids, a), ConvertGas(n))>> \in Seq(PlannedCall)
        /\ CallsOf(<<Planned(Convert(ids, a), ConvertGas(n))>>) = <<Convert(ids, a)>>
    BY <1>8, CallsOfConvert
  <2>3. AllMerges(post) \in Seq(PlannedCall) /\ CallsOf(AllMerges(post)) = post
    BY <1>12, CallsOfMerges
  <2>. DEFINE p == <<Planned(Convert(ids, a), ConvertGas(n))>>
              q == AllMerges(post)
  <2>4. CallsOf(p \o q) = CallsOf(p) \o CallsOf(q) /\ p \o q \in Seq(PlannedCall)
    <3>1. p \in Seq(PlannedCall) /\ q \in Seq(PlannedCall)
      BY <2>2, <2>3
    <3>. HIDE DEF p, q
    <3>. QED
      BY <3>1, CallsOfBoth
  <2>. QED
    BY <2>1, <2>2, <2>3, <2>4
<1>14. Leads(x, CallsOf(TierCalls(t, n)), z)
  <2>1. Leads(x, <<Convert(ids, a)>>, y)
    BY <1>8, LeadsOnce DEF y
  <2>2. <<Convert(ids, a)>> \in Seq(ProperCall)
    BY <1>8
  <2>. QED
    BY <1>11, <1>12, <1>13, <2>1, <2>2, LeadsOn
<1>15. z.usdce = x.usdce + TierProceeds(t) /\ TierProceeds(t) \in Nat
  <2>. DEFINE k == Len(t.members)
              c == (k - 1) * a
  <2>1. TierProceeds(t) = c + SumAmounts(post)
    BY <1>4 DEF TierProceeds
  <2>2. c \in Nat
    <3>1. k - 1 \in Nat
      BY <1>5
    <3>. QED
      BY <1>2, <3>1, Product
  <2>3. y.usdce = x.usdce + c /\ x.usdce \in Nat
    BY <1>5, <1>8 DEF ConvertOf, Wallet
  <2>. HIDE DEF c
  <2>4. x.usdce + (c + SumAmounts(post)) = (x.usdce + c) + SumAmounts(post)
    BY <1>11, <2>2, <2>3, Associate
  <2>5. c + SumAmounts(post) \in Nat
    BY <1>11, <2>2
  <2>. QED
    BY <1>11, <2>1, <2>3, <2>4, <2>5
<1>16. Elsewhere(x, z, job)
  <2>1. z.pusd = x.pusd /\ z.allowance = x.allowance
    BY <1>8, <1>11 DEF ConvertOf, Merged
  <2>2. ASSUME NEW l \in Leg, \A m \in ToSet(job) : EventOf[l] # EventOf[m.id]
        PROVE  z.no[l] = x.no[l] /\ z.yes[l] = x.yes[l]
    <3>1. \A m \in ids : EventOf[l] # EventOf[m]
      BY <1>3, <2>2 DEF ids, TierShape
    <3>2. l \in Leg \ ids /\ l \notin Complement(ids)
      BY <3>1 DEF Complement
    <3>3. y.no[l] = x.no[l] /\ y.yes[l] = x.yes[l]
      BY <1>8, <3>2 DEF ConvertOf
    <3>4. \A i \in 1..Len(post) : id[i] # l
      BY <1>9, <2>2
    <3>5. z.no[l] = y.no[l] /\ z.yes[l] = y.yes[l]
      BY <1>11, <3>4 DEF Merged
    <3>. QED
      BY <3>3, <3>5
  <2>. QED
    BY <2>1, <2>2 DEF Elsewhere
<1>17. Worked(z, w, job, v)
  <2>1. SUFFICES ASSUME NEW l \in ToSet(job) PROVE WorkedLeg(z, l, Remaining(w, l), v)
    BY DEF Worked
  <2>. DEFINE r == Remaining(w, l)
  <2>2. /\ l \in JobLeg /\ l.id \in Leg /\ r \in Nat /\ (l.id \in ids <=> l \in ToSet(t.members))
        /\ (l.id \in ids => r >= v) /\ (l.id \notin ids => l.id \in Complement(ids))
    BY <1>6
  <2>3. r < v => r <= u
    <3>1. r # 0 => r \in Levels(w, job)
      BY LevelsFinite
    <3>. HIDE DEF r
    <3>. QED
      BY <1>2, <2>2, <3>1
  <2>4. WorkedLeg(x, l, r, u)
    BY DEF Worked, u
  <2>5. z.no[l.id] \in Nat /\ y.no[l.id] \in Nat /\ x.no[l.id] \in Nat /\ z.yes[l.id] \in Nat /\ y.yes[l.id] \in Nat /\ x.yes[l.id] \in Nat
    BY <1>8, <2>2 DEF Wallet
  <2>6. l.id \in ids => z.no[l.id] = x.no[l.id] - a /\ z.yes[l.id] = x.yes[l.id]
    <3>1. SUFFICES ASSUME l.id \in ids PROVE z.no[l.id] = x.no[l.id] - a /\ z.yes[l.id] = x.yes[l.id]
      OBVIOUS
    <3>2. y.no[l.id] = x.no[l.id] - a /\ y.yes[l.id] = x.yes[l.id]
      BY <1>8, <3>1 DEF ConvertOf
    <3>3. \A i \in 1..Len(post) : id[i] # l.id
      BY <1>9, <3>1
    <3>4. z.no[l.id] = y.no[l.id] /\ z.yes[l.id] = y.yes[l.id]
      BY <1>11, <2>2, <3>3 DEF Merged
    <3>. QED
      BY <3>2, <3>4
  <2>7. l.id \notin ids => y.no[l.id] = x.no[l.id] /\ y.yes[l.id] = x.yes[l.id] + a
    BY <1>8, <2>2 DEF ConvertOf
  <2>8. l.id \notin ids /\ l.cid /\ r >= v => z.no[l.id] = x.no[l.id] - a /\ z.yes[l.id] = x.yes[l.id]
    <3>1. SUFFICES ASSUME l.id \notin ids, l.cid, r >= v
                   PROVE  z.no[l.id] = x.no[l.id] - a /\ z.yes[l.id] = x.yes[l.id]
      OBVIOUS
    <3>2. l \in ToSet(rest)
      BY <1>3, <2>2, <3>1 DEF TierShape
    <3>3. PICK i \in 1..Len(rest) : rest[i] = l
      BY <1>9, <3>2 DEF ToSet
    <3>4. id[i] = l.id /\ post[i].amount = a /\ i \in 1..Len(post)
      BY <1>4, <1>9, <3>3 DEF Merge
    <3>5. z.no[l.id] = y.no[l.id] - a /\ z.yes[l.id] = y.yes[l.id] - a
      <4>. HIDE DEF id
      <4>. QED
        BY <1>11, <3>4 DEF Merged
    <3>. QED
      BY <1>2, <2>5, <2>7, <3>1, <3>5
  <2>9. l.id \notin ids /\ (~l.cid \/ r < v) => z.no[l.id] = x.no[l.id] /\ z.yes[l.id] = x.yes[l.id] + a
    <3>1. SUFFICES ASSUME l.id \notin ids, ~l.cid \/ r < v
                   PROVE  z.no[l.id] = x.no[l.id] /\ z.yes[l.id] = x.yes[l.id] + a
      OBVIOUS
    <3>2. \A i \in 1..Len(post) : rest[i] # l
      BY <1>2, <1>9, <2>2, <3>1
    <3>3. \A i \in 1..Len(post) : id[i] # l.id
      BY <1>1, <1>9, <3>2
    <3>4. z.no[l.id] = y.no[l.id] /\ z.yes[l.id] = y.yes[l.id]
      BY <1>11, <2>2, <3>3 DEF Merged
    <3>. QED
      BY <2>7, <3>1, <3>4
  <2>10. TierLeg(x, z, l, r, v, a, ids)
    BY <2>6, <2>8, <2>9 DEF TierLeg
  <2>. HIDE DEF r
  <2>11. WorkedLeg(z, l, r, v)
    BY <1>2, <2>2, <2>3, <2>4, <2>10, TierWorks
  <2>. QED
    BY <2>11 DEF r
<1>. QED
  BY <1>13, <1>14, <1>15, <1>16, <1>17 DEF t

---------------------------------------------------------------------------
(* A job: its merges, then its tiers.                                      *)

\* Lists of planned calls run one after the other; R says where each leaves off.
LEMMA RunsAll ==
  ASSUME NEW w \in Wallet, NEW lists \in Seq(Seq(PlannedCall)), NEW R, <<0, w>> \in R,
         \A i \in 1..Len(lists) : \A x \in Wallet : <<i - 1, x>> \in R =>
           \E z \in Wallet : Leads(x, CallsOf(lists[i]), z) /\ <<i, z>> \in R
  PROVE  \E z \in Wallet : Leads(w, CallsOf(FlattenSeq(lists)), z) /\ <<Len(lists), z>> \in R
<1>. DEFINE n == Len(lists)
<1>1. n \in Nat /\ n \in 0..n /\ 0 \in 0..n /\ \A i \in 1..n : lists[i] \in Seq(PlannedCall)
  OBVIOUS
<1>2. PICK f : FlatTrace(f, PlannedCall, lists)
  BY FlattenSteps
<1>3. /\ f \in [0..n -> Seq(PlannedCall)] /\ f[0] = <<>> /\ f[n] = FlattenSeq(lists)
      /\ \A i \in 1..n : f[i] = f[i - 1] \o lists[i]
  BY <1>2 DEF FlatTrace
<1>. DEFINE S == {i \in 0..n : \E z \in Wallet : Leads(w, CallsOf(f[i]), z) /\ <<i, z>> \in R}
<1>4. 0 \in S
  <2>1. CallsOf(<<>>) = <<>>
    BY DEF CallsOf
  <2>2. Leads(w, CallsOf(f[0]), w)
    BY <1>3, <2>1, LeadsNowhere
  <2>. QED
    BY <1>1, <2>2
<1>5. ASSUME NEW i \in 0..(n - 1), i \in S PROVE i + 1 \in S
  <2>1. i + 1 \in 1..n /\ (i + 1) - 1 = i /\ i + 1 \in 0..n /\ i \in 0..n
    BY <1>1
  <2>2. PICK x \in Wallet : Leads(w, CallsOf(f[i]), x) /\ <<i, x>> \in R
    BY <1>5
  <2>3. PICK z \in Wallet : Leads(x, CallsOf(lists[i + 1]), z) /\ <<i + 1, z>> \in R
    BY <2>1, <2>2
  <2>4. f[i + 1] = f[i] \o lists[i + 1] /\ f[i] \in Seq(PlannedCall) /\ lists[i + 1] \in Seq(PlannedCall)
    <3>1. f[i + 1] = f[i] \o lists[i + 1]
      BY <1>3, <2>1
    <3>2. f[i] \in Seq(PlannedCall)
      BY <1>3, <2>1
    <3>3. lists[i + 1] \in Seq(PlannedCall)
      BY <1>1, <2>1
    <3>. QED
      BY <3>1, <3>2, <3>3
  <2>5. /\ CallsOf(f[i + 1]) = CallsOf(f[i]) \o CallsOf(lists[i + 1])
        /\ CallsOf(f[i]) \in Seq(ProperCall) /\ CallsOf(lists[i + 1]) \in Seq(ProperCall)
    BY <2>4, CallsOfBoth
  <2>6. Leads(w, CallsOf(f[i + 1]), z)
    BY <2>2, <2>3, <2>5, LeadsOn
  <2>. QED
    BY <2>1, <2>3, <2>6
<1>6. \A i \in 0..n : i \in S
  <2>. HIDE DEF S
  <2>. QED
    BY <1>1, <1>4, <1>5, UpTo
<1>7. n \in S
  <2>. HIDE DEF S
  <2>. QED
    BY <1>1, <1>6
<1>. QED
  BY <1>3, <1>7

\* The wallet reads as the snapshot does on the legs of a job.
Fresh(x, w, job) == \A l \in ToSet(job) : x.no[l.id] = w.no[l.id] /\ x.yes[l.id] = w.yes[l.id]

\* The merges of a job run first, and leave it at level 0.
LEMMA JobMergesRun ==
  ASSUME NEW w \in Wallet, NEW job, IsJob(job), NEW x \in Wallet, Fresh(x, w, job)
  PROVE  /\ Merges(w, job) \in Seq(ProperCall) /\ SumAmounts(Merges(w, job)) \in Nat
         /\ \E z \in Wallet : /\ Leads(x, Merges(w, job), z) /\ Worked(z, w, job, 0)
                              /\ z.usdce = x.usdce + SumAmounts(Merges(w, job)) /\ Elsewhere(x, z, job)
<1>. DEFINE K == {l \in ToSet(job) : Netted(w, l) > 0 /\ l.cid}
            s == Only(job, K)
            ms == Merges(w, job)
            id == [i \in 1..Len(s) |-> s[i].id]
<1>1. /\ job \in Seq(JobLeg) /\ IsInjective(job) /\ ToSet(job) \subseteq JobLeg
      /\ \A l, m \in ToSet(job) : l.id = m.id => l = m
  BY JobLegs
<1>2. s \in Seq(JobLeg) /\ IsInjective(s) /\ ToSet(s) = K
  <2>1. s \in Seq(JobLeg) /\ IsInjective(s) /\ ToSet(s) = ToSet(job) \intersect K
    <3>. HIDE DEF K
    <3>. QED
      BY <1>1, OnlyRange
  <2>. QED
    BY <2>1
<1>3. ms = [i \in DOMAIN s |-> Merge(s[i].id, Netted(w, s[i]))]
  BY DEF Merges
<1>. HIDE DEF s, ms, K
<1>4. Len(s) \in Nat /\ DOMAIN s = 1..Len(s) /\ Len(ms) = Len(s) /\ \A i \in 1..Len(s) : s[i] \in K
  BY <1>2, <1>3 DEF ToSet
<1>5. \A l \in K : /\ l \in ToSet(job) /\ l \in JobLeg /\ l.id \in Leg /\ l.cid
                   /\ Netted(w, l) \in Nat /\ Netted(w, l) <= x.no[l.id] /\ Netted(w, l) <= x.yes[l.id]
  <2>1. ASSUME NEW l \in K PROVE Netted(w, l) <= x.no[l.id] /\ Netted(w, l) <= x.yes[l.id]
    <3>1. l \in ToSet(job) /\ l \in JobLeg /\ Netted(w, l) > 0
      BY <1>1 DEF K
    <3>2. x.no[l.id] = w.no[l.id] /\ x.yes[l.id] = w.yes[l.id]
      BY <3>1 DEF Fresh
    <3>3. Netted(w, l) <= w.no[l.id] /\ Netted(w, l) <= w.yes[l.id]
      BY <3>1, LegRead
    <3>. QED
      BY <3>2, <3>3
  <2>2. \A l \in K : l \in ToSet(job) /\ l \in JobLeg /\ l.cid
    BY <1>1 DEF K
  <2>. QED
    BY <2>1, <2>2, LegRead
<1>6. \A i \in 1..Len(s) : /\ ms[i] = Merge(id[i], Netted(w, s[i])) /\ ms[i].amount = Netted(w, s[i])
                           /\ ms[i] \in ProperCall /\ id[i] = s[i].id /\ id[i] \in Leg
  <2>1. \A l \in K : Merge(l.id, Netted(w, l)) \in ProperCall
    BY <1>5, FS_Singleton DEF Merge, ProperCall, RelayerCall, Call
  <2>. QED
    BY <1>3, <1>4, <1>5, <2>1 DEF Merge
<1>7. ms \in Seq(ProperCall)
  <2>1. ms \in [1..Len(ms) -> ProperCall]
    BY <1>3, <1>4, <1>6
  <2>. QED
    BY <1>4, <2>1
<1>8. CanMergeAll(x, ms, id)
  <2>1. ms \in Seq(Call)
    <3>1. ProperCall \subseteq Call
      BY DEF ProperCall, RelayerCall
    <3>2. ms \in [1..Len(ms) -> Call]
      BY <1>3, <1>4, <1>6, <3>1
    <3>. QED
      BY <1>4, <3>2
  <2>2. \A i, j \in 1..Len(s) : id[i] = id[j] => i = j
    BY <1>1, <1>2, <1>4, <1>5 DEF IsInjective
  <2>3. \A i \in 1..Len(s) : Netted(w, s[i]) <= x.no[s[i].id] /\ Netted(w, s[i]) <= x.yes[s[i].id]
    BY <1>4, <1>5
  <2>. HIDE DEF id
  <2>. QED
    BY <1>4, <1>6, <2>1, <2>2, <2>3 DEF CanMergeAll
<1>9. PICK z \in Wallet : /\ Leads(x, ms, z) /\ Merged(x, z, ms, id, Len(ms))
                         /\ z.usdce = x.usdce + SumAmounts(ms) /\ SumAmounts(ms) \in Nat
  <2>. HIDE DEF id
  <2>. QED
    BY <1>8, MergesRun
<1>10. Elsewhere(x, z, job)
  <2>1. z.pusd = x.pusd /\ z.allowance = x.allowance
    BY <1>9 DEF Merged
  <2>2. ASSUME NEW l \in Leg, \A m \in ToSet(job) : EventOf[l] # EventOf[m.id]
        PROVE  z.no[l] = x.no[l] /\ z.yes[l] = x.yes[l]
    <3>1. \A i \in 1..Len(ms) : id[i] # l
      BY <1>4, <1>5, <1>6, <2>2
    <3>. QED
      BY <1>9, <3>1 DEF Merged
  <2>. QED
    BY <2>1, <2>2 DEF Elsewhere
<1>11. Worked(z, w, job, 0)
  <2>1. SUFFICES ASSUME NEW l \in ToSet(job) PROVE WorkedLeg(z, l, Remaining(w, l), 0)
    BY DEF Worked
  <2>. DEFINE r == Remaining(w, l)
              c == Netted(w, l)
              n == w.no[l.id]
              y == w.yes[l.id]
  <2>2. l \in JobLeg /\ l.id \in Leg /\ l.cid \in BOOLEAN /\ l.yid \in BOOLEAN
    BY <1>1 DEF JobLeg
  <2>3. n \in Nat /\ y \in Nat /\ r \in Nat /\ c \in Nat
    BY <2>2, LegRead DEF Wallet
  <2>4. r = n - c /\ (l.yid => c = IF n <= y THEN n ELSE y) /\ (~l.yid => c = 0)
    <3>1. /\ Netted(w, l) = (IF No(w, l) <= Yes(w, l) THEN No(w, l) ELSE Yes(w, l))
          /\ Remaining(w, l) = No(w, l) - Netted(w, l) /\ No(w, l) = n /\ Yes(w, l) = (IF l.yid THEN y ELSE 0)
      BY <2>2, LegRead
    <3>. QED
      BY <2>2, <2>3, <3>1
  <2>5. x.no[l.id] = n /\ x.yes[l.id] = y
    BY DEF Fresh
  <2>6. CASE l \in K
    <3>1. PICK i \in 1..Len(s) : s[i] = l
      BY <1>2, <1>4, <2>6 DEF ToSet
    <3>2. id[i] = l.id /\ ms[i].amount = c /\ i \in 1..Len(ms) /\ l.cid
      BY <1>4, <1>5, <1>6, <2>6, <3>1
    <3>3. z.no[l.id] = n - c /\ z.yes[l.id] = y - c
      <4>. HIDE DEF id, c, n, y
      <4>. QED
        BY <1>9, <2>5, <3>2 DEF Merged
    <3>4. Left(r, 0) = r
      BY <2>3 DEF Left
    <3>. HIDE DEF r, c, n, y
    <3>5. l.cid /\ l.yid /\ r > 0 => z.yes[l.id] = 0
      BY <2>2, <2>3, <2>4, <3>3
    <3>6. WorkedLeg(z, l, r, 0)
      BY <2>4, <3>2, <3>3, <3>4, <3>5 DEF WorkedLeg
    <3>. QED
      BY <3>6 DEF r
  <2>7. CASE l \notin K
    <3>1. \A i \in 1..Len(ms) : id[i] # l.id
      <4>1. \A i \in 1..Len(s) : s[i] # l /\ s[i] \in ToSet(job)
        BY <1>4, <1>5, <2>7
      <4>. QED
        BY <1>1, <1>4, <4>1
    <3>2. z.no[l.id] = n /\ z.yes[l.id] = y
      <4>1. z.no[l.id] = x.no[l.id] /\ z.yes[l.id] = x.yes[l.id]
        <5>. HIDE DEF id
        <5>. QED
          BY <1>9, <2>2, <3>1 DEF Merged
      <4>. QED
        BY <2>5, <4>1
    <3>3. l.cid => c = 0
      <4>1. l.cid => ~(c > 0)
        BY <2>7 DEF K
      <4>. HIDE DEF c
      <4>. QED
        BY <2>3, <4>1
    <3>4. Left(r, 0) = r
      BY <2>3 DEF Left
    <3>. HIDE DEF r, c, n, y
    <3>5. /\ l.cid => n = r
          /\ l.cid /\ l.yid /\ r >= 0 /\ r > 0 => y = 0
          /\ ~l.cid => n >= r
          /\ ~l.cid /\ l.yid => n <= y + r
      BY <2>2, <2>3, <2>4, <3>3
    <3>6. WorkedLeg(z, l, r, 0)
      BY <3>2, <3>4, <3>5 DEF WorkedLeg
    <3>. QED
      BY <3>6 DEF r
  <2>. QED
    BY <2>6, <2>7
<1>. QED
  BY <1>7, <1>9, <1>10, <1>11 DEF ms

\* What moves nothing elsewhere twice does not either.
LEMMA ElsewhereOn ==
  ASSUME NEW x, NEW y, NEW z, NEW job, Elsewhere(x, y, job), Elsewhere(y, z, job)
  PROVE  Elsewhere(x, z, job)
BY DEF Elsewhere

\* The job is done: worked up to the last level worth it.
Finally(z, w, job) == Worked(z, w, job, Reached(TierLevels(w, job), Len(TierLevels(w, job))))

\* A job's calls run from any wallet that still reads as the snapshot does on its
\* legs; they free what was announced and move no other event.
LEMMA JobRuns ==
  ASSUME NEW w \in Wallet, NEW job, IsJob(job), NEW x \in Wallet, Fresh(x, w, job)
  PROVE  /\ JobCalls(w, job) \in Seq(PlannedCall) /\ JobProceeds(w, job) \in Nat
         /\ \E z \in Wallet : /\ Leads(x, CallsOf(JobCalls(w, job)), z) /\ Finally(z, w, job)
                              /\ z.usdce = x.usdce + JobProceeds(w, job) /\ Elsewhere(x, z, job)
<1>. DEFINE lv == TierLevels(w, job)
            q == Len(lv)
            ts == Tiers(w, job)
            n == Len(job)
            lists == [i \in DOMAIN ts |-> TierCalls(ts[i], n)]
            v == [i \in DOMAIN ts |-> TierProceeds(ts[i])]
            ms == Merges(w, job)
<1>1. /\ lv \in Seq(Nat) /\ q \in Nat /\ DOMAIN lv = 1..q
      /\ \A i \in 1..q : lv[i] \in Levels(w, job) /\ Reached(lv, i - 1) = Below(w, job, lv[i])
  <2>1. /\ lv \in Seq(Nat)
        /\ \A i \in 1..q : lv[i] \in Levels(w, job) /\ Reached(lv, i - 1) = Below(w, job, lv[i])
    BY TierLevelsClimb
  <2>. HIDE DEF lv
  <2>. QED
    BY <2>1
<1>. HIDE DEF lv
<1>2. DOMAIN ts = 1..q /\ \A i \in 1..q : ts[i] = Tier(w, job, lv[i])
  BY <1>1 DEF Tiers, lv
<1>3. n \in Nat
  BY JobLegs
<1>. HIDE DEF ts, n
<1>4. ms \in Seq(ProperCall) /\ SumAmounts(ms) \in Nat
  BY JobMergesRun
<1>5. PICK y \in Wallet : /\ Leads(x, ms, y) /\ Worked(y, w, job, 0)
                         /\ y.usdce = x.usdce + SumAmounts(ms) /\ Elsewhere(x, y, job)
  BY JobMergesRun
<1>. HIDE DEF ms
\* Any level is reached from the one below.
<1>6. \A i \in 1..q : \A a \in Wallet : Worked(a, w, job, Reached(lv, i - 1)) =>
        /\ TierCalls(ts[i], n) \in Seq(PlannedCall) /\ TierProceeds(ts[i]) \in Nat
        /\ \E z \in Wallet : /\ Leads(a, CallsOf(TierCalls(ts[i], n)), z) /\ Worked(z, w, job, lv[i])
                             /\ z.usdce = a.usdce + TierProceeds(ts[i]) /\ Elsewhere(a, z, job)
  <2>. SUFFICES ASSUME NEW i \in 1..q, NEW a \in Wallet, Worked(a, w, job, Reached(lv, i - 1))
                PROVE  /\ TierCalls(ts[i], n) \in Seq(PlannedCall) /\ TierProceeds(ts[i]) \in Nat
                       /\ \E z \in Wallet : /\ Leads(a, CallsOf(TierCalls(ts[i], n)), z)
                                            /\ Worked(z, w, job, lv[i])
                                            /\ z.usdce = a.usdce + TierProceeds(ts[i]) /\ Elsewhere(a, z, job)
    OBVIOUS
  <2>1. lv[i] \in Levels(w, job) /\ Worked(a, w, job, Below(w, job, lv[i])) /\ ts[i] = Tier(w, job, lv[i])
    BY <1>1, <1>2
  <2>2. ASSUME NEW v0 \in Levels(w, job), Worked(a, w, job, Below(w, job, v0))
        PROVE  /\ TierCalls(Tier(w, job, v0), n) \in Seq(PlannedCall)
               /\ TierProceeds(Tier(w, job, v0)) \in Nat
               /\ \E z \in Wallet : /\ Leads(a, CallsOf(TierCalls(Tier(w, job, v0), n)), z)
                                    /\ Worked(z, w, job, v0)
                                    /\ z.usdce = a.usdce + TierProceeds(Tier(w, job, v0))
                                    /\ Elsewhere(a, z, job)
    BY <1>3, <2>2, TierRuns
  <2>. QED
    BY <2>1, <2>2
\* ... so each tier is typed, as soon as some wallet stands below it.
<1>. DEFINE S == {i \in 0..q : /\ \E a \in Wallet : Worked(a, w, job, Reached(lv, i))
                             /\ \A j \in 1..i : TierCalls(ts[j], n) \in Seq(PlannedCall) /\ TierProceeds(ts[j]) \in Nat}
<1>7. \A i \in 0..q : i \in S
  <2>1. 0 \in S
    BY <1>1, <1>5 DEF Reached
  <2>2. ASSUME NEW i \in 0..(q - 1), i \in S PROVE i + 1 \in S
    <3>1. i + 1 \in 1..q /\ (i + 1) - 1 = i /\ i + 1 \in 0..q /\ i + 1 # 0
          /\ \A j \in 1..(i + 1) : j \in 1..i \/ j = i + 1
      BY <1>1
    <3>2. PICK a \in Wallet : Worked(a, w, job, Reached(lv, (i + 1) - 1))
      BY <2>2, <3>1
    <3>3. /\ TierCalls(ts[i + 1], n) \in Seq(PlannedCall) /\ TierProceeds(ts[i + 1]) \in Nat
          /\ \E z \in Wallet : Worked(z, w, job, lv[i + 1])
      BY <1>6, <3>1, <3>2
    <3>4. Reached(lv, i + 1) = lv[i + 1]
      BY <3>1 DEF Reached
    <3>5. \A j \in 1..i : TierCalls(ts[j], n) \in Seq(PlannedCall) /\ TierProceeds(ts[j]) \in Nat
      BY <2>2
    <3>. QED
      BY <3>1, <3>3, <3>4, <3>5
  <2>. HIDE DEF S
  <2>. QED
    BY <1>1, <2>1, <2>2, UpTo
<1>8. \A j \in 1..q : TierCalls(ts[j], n) \in Seq(PlannedCall) /\ TierProceeds(ts[j]) \in Nat
  <2>1. q \in 0..q
    BY <1>1
  <2>2. q \in S
    <3>. HIDE DEF S
    <3>. QED
      BY <1>7, <2>1
  <2>. QED
    BY <2>2
<1>9. lists \in Seq(Seq(PlannedCall)) /\ Len(lists) = q /\ \A i \in 1..q : lists[i] = TierCalls(ts[i], n)
  <2>1. lists \in [1..q -> Seq(PlannedCall)]
    BY <1>2, <1>8
  <2>. QED
    BY <1>1, <1>2, <2>1
<1>10. v \in Seq(Nat) /\ Len(v) = q /\ \A i \in 1..q : v[i] = TierProceeds(ts[i])
  <2>1. v \in [1..q -> Nat]
    BY <1>2, <1>8
  <2>. QED
    BY <1>1, <1>2, <2>1
<1>. HIDE DEF lists, v
<1>11. PICK f : SumTrace(f, v)
  BY <1>10, SumSteps
<1>. DEFINE R == {p \in (0..q) \X Wallet : /\ Worked(p[2], w, job, Reached(lv, p[1]))
                                          /\ p[2].usdce = y.usdce + f[p[1]] /\ Elsewhere(y, p[2], job)}
<1>12. <<0, y>> \in R
  <2>1. Reached(lv, 0) = 0 /\ f[0] = 0 /\ 0 \in 0..q
    BY <1>1, <1>11 DEF Reached, SumTrace
  <2>2. y.usdce = y.usdce + 0
    BY DEF Wallet
  <2>3. Elsewhere(y, y, job)
    BY DEF Elsewhere
  <2>. QED
    BY <1>5, <2>1, <2>2, <2>3
<1>13. ASSUME NEW i \in 1..q, NEW a \in Wallet, <<i - 1, a>> \in R
       PROVE  \E z \in Wallet : Leads(a, CallsOf(lists[i]), z) /\ <<i, z>> \in R
  <2>1. Worked(a, w, job, Reached(lv, i - 1)) /\ a.usdce = y.usdce + f[i - 1] /\ Elsewhere(y, a, job)
    BY <1>13
  <2>2. PICK z \in Wallet : /\ Leads(a, CallsOf(TierCalls(ts[i], n)), z) /\ Worked(z, w, job, lv[i])
                           /\ z.usdce = a.usdce + TierProceeds(ts[i]) /\ Elsewhere(a, z, job)
    BY <1>6, <2>1
  <2>3. Elsewhere(y, z, job)
    BY <2>1, <2>2, ElsewhereOn
  <2>4. i \in 0..q /\ i - 1 \in 0..q /\ i # 0
    BY <1>1
  <2>5. f[i] = f[i - 1] + TierProceeds(ts[i])
    BY <1>10, <1>11 DEF SumTrace
  <2>6. f[i - 1] \in Nat
    BY <1>10, <1>11, <2>4 DEF SumTrace
  <2>7. y.usdce + (f[i - 1] + TierProceeds(ts[i])) = (y.usdce + f[i - 1]) + TierProceeds(ts[i])
    <3>1. y.usdce \in Nat
      BY DEF Wallet
    <3>2. TierProceeds(ts[i]) \in Nat
      BY <1>8
    <3>. QED
      BY <2>6, <3>1, <3>2, Associate
  <2>8. z.usdce = y.usdce + f[i]
    BY <2>1, <2>2, <2>5, <2>7
  <2>9. Worked(z, w, job, Reached(lv, i))
    BY <2>2, <2>4 DEF Reached
  <2>. QED
    BY <1>9, <2>2, <2>3, <2>4, <2>8, <2>9
<1>. HIDE DEF R
<1>14. PICK z \in Wallet : Leads(y, CallsOf(FlattenSeq(lists)), z) /\ <<q, z>> \in R
  BY <1>9, <1>12, <1>13, RunsAll
<1>15. Finally(z, w, job) /\ z.usdce = y.usdce + f[q] /\ Elsewhere(y, z, job)
  BY <1>14 DEF R, Finally, lv
<1>16. f[q] = SumUp(v) /\ SumUp(v) \in Nat
  <2>1. q \in 0..q
    BY <1>1
  <2>. QED
    BY <1>10, <1>11, <2>1 DEF SumTrace
<1>17. JobProceeds(w, job) = SumAmounts(ms) + SumUp(v) /\ JobProceeds(w, job) \in Nat
  BY <1>4, <1>16 DEF JobProceeds, v, ts, ms
<1>18. z.usdce = x.usdce + JobProceeds(w, job)
  <2>1. x.usdce \in Nat
    BY DEF Wallet
  <2>2. x.usdce + (SumAmounts(ms) + SumUp(v)) = (x.usdce + SumAmounts(ms)) + SumUp(v)
    BY <1>4, <1>16, <2>1, Associate
  <2>. QED
    BY <1>5, <1>15, <1>16, <1>17, <2>2
<1>. DEFINE a == AllMerges(ms)
            b == FlattenSeq(lists)
<1>19. a \in Seq(PlannedCall) /\ b \in Seq(PlannedCall) /\ CallsOf(a) = ms /\ JobCalls(w, job) = a \o b
  <2>1. a \in Seq(PlannedCall) /\ CallsOf(a) = ms
    BY <1>4, CallsOfMerges
  <2>2. b \in Seq(PlannedCall)
    BY <1>9, FlattenOfBoth
  <2>3. JobCalls(w, job) = a \o b
    BY DEF JobCalls, ms, ts, lists, n
  <2>. QED
    BY <2>1, <2>2, <2>3
<1>20. JobCalls(w, job) \in Seq(PlannedCall) /\ Leads(x, CallsOf(JobCalls(w, job)), z)
  <2>0. a \in Seq(PlannedCall) /\ b \in Seq(PlannedCall)
    BY <1>19
  <2>. HIDE DEF a
  <2>1. /\ CallsOf(a \o b) = CallsOf(a) \o CallsOf(b) /\ a \o b \in Seq(PlannedCall)
        /\ CallsOf(a) \in Seq(ProperCall) /\ CallsOf(b) \in Seq(ProperCall)
    <3>. HIDE DEF b
    <3>1. a \o b \in Seq(PlannedCall)
      BY <2>0
    <3>. QED
      BY <2>0, <3>1, CallsOfBoth
  <2>. QED
    BY <1>5, <1>14, <1>19, <2>1, LeadsOn
<1>21. Elsewhere(x, z, job)
  BY <1>5, <1>15, ElsewhereOn
<1>. QED
  BY <1>15, <1>17, <1>18, <1>20, <1>21

---------------------------------------------------------------------------
(* The whole plan.                                                         *)

\* What happens elsewhere leaves another event's legs as they were.
LEMMA OthersStay ==
  ASSUME NEW x, NEW z, NEW job, NEW other, IsJob(job), IsJob(other), Elsewhere(x, z, job),
         \A l \in ToSet(other), m \in ToSet(job) : EventOf[l.id] # EventOf[m.id]
  PROVE  \A l \in ToSet(other) : z.no[l.id] = x.no[l.id] /\ z.yes[l.id] = x.yes[l.id]
<1>. SUFFICES ASSUME NEW l \in ToSet(other)
              PROVE  z.no[l.id] = x.no[l.id] /\ z.yes[l.id] = x.yes[l.id]
  OBVIOUS
<1>1. l.id \in Leg
  <2>1. l \in JobLeg
    BY JobLegs
  <2>. QED
    BY <2>1 DEF JobLeg
<1>. QED
  BY <1>1 DEF Elsewhere

\* Where the plan for jobs ends when it starts from w.
Done(z, w, js) ==
  /\ \A i \in 1..Len(js) : Finally(z, w, js[i])
  /\ z.usdce = w.usdce + Proceeds(w, js) /\ z.pusd = w.pusd /\ z.allowance = w.allowance

\* Every job of a list is one, and two of them share no event.
LEMMA JobList ==
  ASSUME NEW js, IsJobList(js)
  PROVE  /\ Len(js) \in Nat /\ DOMAIN js = 1..Len(js)
         /\ \A i \in 1..Len(js) : IsJob(js[i])
         /\ \A i, j \in 1..Len(js) : i # j =>
              \A l \in ToSet(js[i]), m \in ToSet(js[j]) : EventOf[l.id] # EventOf[m.id]
BY DEF IsJobList

\* A plan made from a wallet runs on it to the end, call after call, and frees
\* what it announces.
LEMMA PlanRuns ==
  ASSUME NEW w \in Wallet, NEW js, IsJobList(js)
  PROVE  /\ PlanCalls(w, js) \in Seq(PlannedCall) /\ Proceeds(w, js) \in Nat
         /\ \E z \in Wallet : Leads(w, CallsOf(PlanCalls(w, js)), z) /\ Done(z, w, js)
<1>. DEFINE n == Len(js)
            lists == [i \in DOMAIN js |-> JobCalls(w, js[i])]
            v == [i \in DOMAIN js |-> JobProceeds(w, js[i])]
<1>1. /\ n \in Nat /\ DOMAIN js = 1..n
      /\ \A i \in 1..n : IsJob(js[i])
      /\ \A i, j \in 1..n : i # j =>
           \A l \in ToSet(js[i]), m \in ToSet(js[j]) : EventOf[l.id] # EventOf[m.id]
  BY JobList
<1>. HIDE DEF n
<1>2. \A i \in 1..n : JobCalls(w, js[i]) \in Seq(PlannedCall) /\ JobProceeds(w, js[i]) \in Nat
  <2>. SUFFICES ASSUME NEW i \in 1..n
                PROVE  JobCalls(w, js[i]) \in Seq(PlannedCall) /\ JobProceeds(w, js[i]) \in Nat
    OBVIOUS
  <2>1. IsJob(js[i]) /\ Fresh(w, w, js[i])
    BY <1>1 DEF Fresh
  <2>. QED
    BY <2>1, JobRuns
<1>3. lists \in Seq(Seq(PlannedCall)) /\ Len(lists) = n /\ \A i \in 1..n : lists[i] = JobCalls(w, js[i])
  <2>1. lists \in [1..n -> Seq(PlannedCall)]
    BY <1>1, <1>2
  <2>. QED
    BY <1>1, <2>1
<1>4. v \in Seq(Nat) /\ Len(v) = n /\ \A i \in 1..n : v[i] = JobProceeds(w, js[i])
  <2>1. v \in [1..n -> Nat]
    BY <1>1, <1>2
  <2>. QED
    BY <1>1, <2>1
<1>5. PlanCalls(w, js) = FlattenSeq(lists) /\ Proceeds(w, js) = SumUp(v)
  BY DEF PlanCalls, Proceeds
<1>. HIDE DEF lists, v
<1>6. FlattenSeq(lists) \in Seq(PlannedCall)
  BY <1>3, FlattenOfBoth
<1>7. PICK f : SumTrace(f, v)
  BY <1>4, SumSteps
<1>8. f[n] = SumUp(v) /\ f[0] = 0 /\ \A i \in 0..n : f[i] \in Nat
  BY <1>4, <1>7 DEF SumTrace
<1>9. SumUp(v) \in Nat
  BY <1>1, <1>8
\* The first i jobs are done, the others untouched.
<1>. DEFINE R == {p \in (0..n) \X Wallet :
                    /\ \A j \in 1..n : j <= p[1] => Finally(p[2], w, js[j])
                    /\ \A j \in 1..n : j > p[1] => Fresh(p[2], w, js[j])
                    /\ p[2].usdce = w.usdce + f[p[1]] /\ p[2].pusd = w.pusd
                    /\ p[2].allowance = w.allowance}
<1>10. <<0, w>> \in R
  <2>1. w.usdce = w.usdce + 0
    BY DEF Wallet
  <2>2. 0 \in 0..n /\ \A j \in 1..n : ~(j <= 0)
    BY <1>1
  <2>3. \A j \in 1..n : Fresh(w, w, js[j])
    BY DEF Fresh
  <2>. QED
    BY <1>8, <2>1, <2>2, <2>3
<1>11. ASSUME NEW i \in 1..n, NEW a \in Wallet, <<i - 1, a>> \in R
       PROVE  \E z \in Wallet : Leads(a, CallsOf(lists[i]), z) /\ <<i, z>> \in R
  <2>1. /\ \A j \in 1..n : j <= i - 1 => Finally(a, w, js[j])
        /\ \A j \in 1..n : j > i - 1 => Fresh(a, w, js[j])
        /\ a.usdce = w.usdce + f[i - 1] /\ a.pusd = w.pusd /\ a.allowance = w.allowance
    BY <1>11
  <2>2. i \in 0..n /\ i - 1 \in 0..n /\ i > i - 1
    BY <1>1
  <2>3. IsJob(js[i]) /\ Fresh(a, w, js[i])
    BY <1>1, <2>1, <2>2
  <2>4. PICK z \in Wallet : /\ Leads(a, CallsOf(JobCalls(w, js[i])), z) /\ Finally(z, w, js[i])
                           /\ z.usdce = a.usdce + JobProceeds(w, js[i]) /\ Elsewhere(a, z, js[i])
    BY <2>3, JobRuns
  <2>5. \A j \in 1..n : j # i =>
          \A l \in ToSet(js[j]) : z.no[l.id] = a.no[l.id] /\ z.yes[l.id] = a.yes[l.id]
    <3>. SUFFICES ASSUME NEW j \in 1..n, j # i
                  PROVE  \A l \in ToSet(js[j]) : z.no[l.id] = a.no[l.id] /\ z.yes[l.id] = a.yes[l.id]
      OBVIOUS
    <3>1. IsJob(js[j]) /\ \A l \in ToSet(js[j]), m \in ToSet(js[i]) : EventOf[l.id] # EventOf[m.id]
      BY <1>1
    <3>. QED
      BY <2>3, <2>4, <3>1, OthersStay
  <2>6. ASSUME NEW j \in 1..n, j <= i PROVE Finally(z, w, js[j])
    <3>1. CASE j = i
      BY <2>4, <3>1
    <3>2. CASE j # i
      <4>1. Finally(a, w, js[j])
        BY <2>1, <2>6, <3>2
      <4>. QED
        BY <2>5, <3>2, <4>1 DEF Finally, Worked, WorkedLeg
    <3>. QED
      BY <3>1, <3>2
  <2>7. ASSUME NEW j \in 1..n, j > i PROVE Fresh(z, w, js[j])
    <3>1. j # i /\ j > i - 1
      BY <2>7
    <3>. QED
      BY <2>1, <2>5, <3>1 DEF Fresh
  <2>8. z.usdce = w.usdce + f[i]
    <3>1. w.usdce \in Nat /\ f[i - 1] \in Nat /\ JobProceeds(w, js[i]) \in Nat
      BY <1>2, <1>8, <2>2 DEF Wallet
    <3>2. f[i] = f[i - 1] + JobProceeds(w, js[i])
      BY <1>4, <1>7 DEF SumTrace
    <3>3. w.usdce + (f[i - 1] + JobProceeds(w, js[i])) = (w.usdce + f[i - 1]) + JobProceeds(w, js[i])
      BY <3>1, Associate
    <3>. QED
      BY <2>1, <2>4, <3>2, <3>3
  <2>9. z.pusd = w.pusd /\ z.allowance = w.allowance
    BY <2>1, <2>4 DEF Elsewhere
  <2>10. <<i, z>> \in R
    BY <2>2, <2>6, <2>7, <2>8, <2>9
  <2>11. Leads(a, CallsOf(lists[i]), z)
    BY <1>3, <2>4
  <2>. QED
    BY <2>10, <2>11
<1>. HIDE DEF R
<1>12. PICK z \in Wallet : Leads(w, CallsOf(FlattenSeq(lists)), z) /\ <<n, z>> \in R
  BY <1>3, <1>10, <1>11, RunsAll
<1>13. /\ \A j \in 1..n : Finally(z, w, js[j])
       /\ z.usdce = w.usdce + f[n] /\ z.pusd = w.pusd /\ z.allowance = w.allowance
  <2>1. /\ \A j \in 1..n : j <= n => Finally(z, w, js[j])
        /\ z.usdce = w.usdce + f[n] /\ z.pusd = w.pusd /\ z.allowance = w.allowance
    BY <1>12 DEF R
  <2>. QED
    BY <1>1, <2>1
<1>14. Done(z, w, js)
  BY <1>5, <1>8, <1>13 DEF Done, n
<1>. QED
  BY <1>5, <1>6, <1>9, <1>12, <1>14

---------------------------------------------------------------------------
(* Where a plan ends, there is nothing left to plan.                       *)

\* The legs a level is read by.
LEMMA MembersAre ==
  ASSUME NEW w \in Wallet, NEW job, IsJob(job), NEW v
  PROVE  /\ Members(w, job, v) \in Seq(JobLeg) /\ IsInjective(Members(w, job, v))
         /\ ToSet(Members(w, job, v)) = {l \in ToSet(job) : Remaining(w, l) >= v}
<1>. DEFINE K == {l \in ToSet(job) : Remaining(w, l) >= v}
<1>1. job \in Seq(JobLeg) /\ IsInjective(job)
  BY JobLegs
<1>2. Members(w, job, v) = Only(job, K) /\ K = ToSet(job) \intersect K
  BY DEF Members
<1>. HIDE DEF K
<1>3. /\ Only(job, K) \in Seq(JobLeg) /\ ToSet(Only(job, K)) = ToSet(job) \intersect K
      /\ IsInjective(job) => IsInjective(Only(job, K))
  BY <1>1, OnlyRange
<1>. QED
  BY <1>1, <1>2, <1>3 DEF K

\* A list without repetitions has one element if and only if its range has.
LEMMA OneOf ==
  ASSUME NEW E, NEW s \in Seq(E), IsInjective(s)
  PROVE  /\ Len(s) = 1 => \A x, y \in ToSet(s) : x = y
         /\ \A x : ToSet(s) = {x} => Len(s) = 1
         /\ ToSet(s) = {} => s = <<>>
<1>1. DOMAIN s = 1..Len(s) /\ Len(s) \in Nat /\ ToSet(s) = {s[i] : i \in 1..Len(s)}
  BY DEF ToSet
<1>2. \A i, j \in 1..Len(s) : s[i] = s[j] => i = j
  BY <1>1 DEF IsInjective
<1>3. Len(s) = 1 => \A x, y \in ToSet(s) : x = y
  BY <1>1
<1>4. ToSet(s) = {} => s = <<>>
  <2>1. ToSet(s) = {} => Len(s) = 0
    BY <1>1
  <2>. QED
    BY <2>1
<1>5. ASSUME NEW x, ToSet(s) = {x} PROVE Len(s) = 1
  <2>1. \A i \in 1..Len(s) : s[i] = x
    BY <1>1, <1>5
  <2>2. \E i \in 1..Len(s) : s[i] = x
    BY <1>1, <1>5
  <2>3. Len(s) >= 1
    BY <1>1, <2>2
  <2>4. ~(Len(s) >= 2)
    <3>1. Len(s) >= 2 => 1 \in 1..Len(s) /\ 2 \in 1..Len(s) /\ s[1] = s[2]
      BY <1>1, <2>1
    <3>. QED
      BY <1>2, <3>1
  <2>. QED
    BY <1>1, <2>3, <2>4
<1>. QED
  BY <1>3, <1>4, <1>5

\* The level a plan ends on is above all it found worth converting.
LEMMA LastIsHighest ==
  ASSUME NEW w \in Wallet, NEW job, IsJob(job)
  PROVE  /\ Reached(TierLevels(w, job), Len(TierLevels(w, job))) \in Nat
         /\ \A v \in Worth(w, job) : v <= Reached(TierLevels(w, job), Len(TierLevels(w, job)))
<1>. DEFINE lv == TierLevels(w, job)
            q == Len(lv)
<1>1. lv \in Seq(Nat) /\ Sorts(lv, Worth(w, job))
  BY TierLevelsClimb
<1>. HIDE DEF lv
<1>2. q \in Nat /\ DOMAIN lv = 1..q /\ \A i \in 1..q : lv[i] \in Nat
  BY <1>1
<1>3. \A i, j \in 1..q : i < j => lv[i] < lv[j]
  BY <1>1 DEF Sorts
<1>4. ASSUME NEW v \in Worth(w, job) PROVE q \in 1..q /\ v <= lv[q]
  <2>1. PICK i \in 1..q : lv[i] = v
    BY <1>1, <1>2 DEF Sorts, ToSet
  <2>2. q \in 1..q
    BY <1>2
  <2>. QED
    BY <1>2, <1>3, <2>1, <2>2
<1>5. Reached(lv, q) \in Nat /\ \A v \in Worth(w, job) : v <= Reached(lv, q)
  BY <1>2, <1>4 DEF Reached
<1>. QED
  BY <1>5 DEF lv

\* What a worked leg reads: nothing to merge, and no more NO than is above v.
LEMMA WorkedReads ==
  ASSUME NEW f \in Wallet, NEW l \in JobLeg, l.cid \/ l.yid, NEW r \in Nat, NEW v \in Nat,
         WorkedLeg(f, l, r, v)
  PROVE  /\ l.cid => Netted(f, l) = 0
         /\ Remaining(f, l) \in Nat /\ Remaining(f, l) <= Left(r, v)
<1>1. /\ No(f, l) = f.no[l.id] /\ No(f, l) \in Nat /\ f.yes[l.id] \in Nat
      /\ Yes(f, l) = (IF l.yid THEN f.yes[l.id] ELSE 0)
      /\ Netted(f, l) = (IF No(f, l) <= Yes(f, l) THEN No(f, l) ELSE Yes(f, l))
      /\ Remaining(f, l) = No(f, l) - Netted(f, l)
      /\ Netted(f, l) \in Nat /\ Remaining(f, l) \in Nat
  BY LegRead
<1>2. l.cid \in BOOLEAN /\ l.yid \in BOOLEAN
  BY DEF JobLeg
<1>3. CASE l.cid
  <2>1. f.no[l.id] = Left(r, v)
    BY <1>3 DEF WorkedLeg
  <2>2. l.yid /\ ~(r <= v) => f.yes[l.id] = 0
    BY <1>3 DEF WorkedLeg
  <2>3. r <= v => Left(r, v) = 0
    BY DEF Left
  <2>4. Netted(f, l) = 0
    BY <1>1, <2>1, <2>2, <2>3
  <2>. QED
    BY <1>1, <2>1, <2>4
<1>4. CASE ~l.cid
  <2>1. f.no[l.id] <= f.yes[l.id] + Left(r, v) /\ l.yid
    BY <1>4 DEF WorkedLeg
  <2>2. Left(r, v) \in Nat
    BY DEF Left
  <2>. QED
    BY <1>1, <1>4, <2>1, <2>2
<1>. QED
  BY <1>2, <1>3, <1>4

\* Above the last level worth converting there is at most one leg, and what it
\* has there is dust.
LEMMA OneIsLeft ==
  ASSUME NEW w \in Wallet, NEW job, IsJob(job), NEW V \in Nat,
         \A v \in Worth(w, job) : v <= V
  PROVE  /\ \A l, m \in ToSet(job) : Remaining(w, l) > V /\ Remaining(w, m) > V => l = m
         /\ \A l \in ToSet(job) : Remaining(w, l) > V => Remaining(w, l) - V < MinQty
<1>1. \A l \in ToSet(job) : Remaining(w, l) \in Nat
  <2>. SUFFICES ASSUME NEW l \in ToSet(job) PROVE Remaining(w, l) \in Nat
    OBVIOUS
  <2>1. l \in JobLeg
    BY JobLegs
  <2>. QED
    BY <2>1, LegRead
<1>2. ASSUME NEW l \in ToSet(job), Remaining(w, l) > V
      PROVE  \E u \in Levels(w, job) : u <= Remaining(w, l) /\ Dust(w, job, u)
  <2>1. Remaining(w, l) # 0
    BY <1>1, <1>2
  <2>2. Remaining(w, l) \in Levels(w, job)
    BY <2>1, LevelsFinite
  <2>3. Remaining(w, l) \notin Worth(w, job)
    BY <1>1, <1>2
  <2>. QED
    BY <2>2, <2>3 DEF Worth
<1>3. ASSUME NEW u \in Levels(w, job), Dust(w, job, u), NEW l \in ToSet(job), NEW m \in ToSet(job),
             Remaining(w, l) >= u, Remaining(w, m) >= u
      PROVE  l = m
  <2>1. /\ Members(w, job, u) \in Seq(JobLeg) /\ IsInjective(Members(w, job, u))
        /\ ToSet(Members(w, job, u)) = {k \in ToSet(job) : Remaining(w, k) >= u}
    BY MembersAre
  <2>2. Len(Members(w, job, u)) = 1
    BY <1>3 DEF Dust
  <2>3. \A x, y \in ToSet(Members(w, job, u)) : x = y
    BY <2>1, <2>2, OneOf
  <2>. QED
    BY <1>3, <2>1, <2>3
<1>4. Levels(w, job) \in SUBSET Nat
  BY LevelsFinite
<1>5. ASSUME NEW l \in ToSet(job), NEW m \in ToSet(job), Remaining(w, l) > V, Remaining(w, m) > V
      PROVE  l = m
  <2>1. PICK u \in Levels(w, job) : u <= Remaining(w, l) /\ Dust(w, job, u)
    BY <1>2, <1>5
  <2>2. PICK v \in Levels(w, job) : v <= Remaining(w, m) /\ Dust(w, job, v)
    BY <1>2, <1>5
  <2>3. u \in Nat /\ v \in Nat /\ Remaining(w, l) \in Nat /\ Remaining(w, m) \in Nat
    BY <1>1, <1>4
  <2>4. CASE u <= v
    <3>1. Remaining(w, l) >= u /\ Remaining(w, m) >= u
      BY <2>1, <2>2, <2>3, <2>4
    <3>. QED
      BY <1>3, <2>1, <3>1
  <2>5. CASE ~(u <= v)
    <3>1. Remaining(w, l) >= v /\ Remaining(w, m) >= v
      BY <2>1, <2>2, <2>3, <2>5
    <3>. QED
      BY <1>3, <2>2, <3>1
  <2>. QED
    BY <2>4, <2>5
<1>6. ASSUME NEW l \in ToSet(job), Remaining(w, l) > V
      PROVE  Remaining(w, l) - V < MinQty
  <2>1. PICK u \in Levels(w, job) : u <= Remaining(w, l) /\ Dust(w, job, u)
    BY <1>2, <1>6
  <2>2. u \in Nat /\ u # 0 /\ Remaining(w, l) \in Nat
    BY <1>1, <1>4 DEF Levels
  <2>3. PICK m \in ToSet(job) : Remaining(w, m) = u
    BY DEF Levels
  <2>4. m = l
    BY <1>3, <2>1, <2>2, <2>3
  <2>5. /\ Below(w, job, u) \in {0} \union Levels(w, job) /\ Below(w, job, u) \in Nat
        /\ Below(w, job, u) < u /\ Amount(w, job, u) = u - Below(w, job, u)
    BY <2>2, BelowIs
  <2>6. Below(w, job, u) <= V
    <3>1. CASE Below(w, job, u) = 0
      BY <3>1
    <3>2. CASE Below(w, job, u) # 0
      <4>1. PICK k \in ToSet(job) : Remaining(w, k) = Below(w, job, u)
        BY <2>5, <3>2 DEF Levels
      <4>2. Below(w, job, u) > V => k = l
        BY <1>5, <1>6, <4>1
      <4>3. k # l
        BY <2>3, <2>4, <2>5, <4>1
      <4>. QED
        BY <2>5, <4>2, <4>3
    <3>. QED
      BY <3>1, <3>2
  <2>7. Amount(w, job, u) < MinQty /\ MinQty \in Nat
    BY <2>1, PlanAssumption DEF Dust
  <2>. QED
    BY <2>2, <2>3, <2>4, <2>5, <2>6, <2>7
<1>. QED
  BY <1>5, <1>6

\* A wallet in which a job has nothing to do: no pair can be merged, and what NO
\* is left is one leg's, below the minimum.
AtRest(f, job) ==
  /\ \A l \in ToSet(job) : l.cid => Netted(f, l) = 0
  /\ \A l, m \in ToSet(job) : Remaining(f, l) # 0 /\ Remaining(f, m) # 0 => l = m
  /\ \A l \in ToSet(job) : Remaining(f, l) # 0 => Remaining(f, l) < MinQty

\* Where its plan ended a job is settled.
LEMMA FinallySettled ==
  ASSUME NEW w \in Wallet, NEW job, IsJob(job), NEW f \in Wallet, Finally(f, w, job),
         \A l \in ToSet(job) : l.cid \/ l.yid
  PROVE  AtRest(f, job)
<1>. DEFINE V == Reached(TierLevels(w, job), Len(TierLevels(w, job)))
<1>1. V \in Nat /\ \A v \in Worth(w, job) : v <= V
  BY LastIsHighest
<1>2. \A l \in ToSet(job) : WorkedLeg(f, l, Remaining(w, l), V)
  BY DEF Finally, Worked
<1>. HIDE DEF V
<1>3. /\ \A l, m \in ToSet(job) : Remaining(w, l) > V /\ Remaining(w, m) > V => l = m
      /\ \A l \in ToSet(job) : Remaining(w, l) > V => Remaining(w, l) - V < MinQty
  BY <1>1, OneIsLeft
<1>4. \A l \in ToSet(job) : /\ l \in JobLeg /\ Remaining(w, l) \in Nat
                            /\ l.cid => Netted(f, l) = 0
                            /\ Remaining(f, l) \in Nat /\ Remaining(f, l) <= Left(Remaining(w, l), V)
  <2>. SUFFICES ASSUME NEW l \in ToSet(job)
                PROVE  /\ l \in JobLeg /\ Remaining(w, l) \in Nat
                       /\ l.cid => Netted(f, l) = 0
                       /\ Remaining(f, l) \in Nat /\ Remaining(f, l) <= Left(Remaining(w, l), V)
    OBVIOUS
  <2>1. l \in JobLeg
    BY JobLegs
  <2>2. Remaining(w, l) \in Nat
    BY <2>1, LegRead
  <2>. QED
    BY <1>1, <1>2, <2>1, <2>2, WorkedReads
\* Whatever a leg still reads is the dust the plan left of it.
<1>5. \A l \in ToSet(job) : Remaining(f, l) # 0 => Remaining(w, l) > V /\ Remaining(f, l) < MinQty
  <2>. SUFFICES ASSUME NEW l \in ToSet(job), Remaining(f, l) # 0
                PROVE  Remaining(w, l) > V /\ Remaining(f, l) < MinQty
    OBVIOUS
  <2>1. /\ Remaining(w, l) \in Nat /\ Remaining(f, l) \in Nat
        /\ Remaining(f, l) <= Left(Remaining(w, l), V)
    BY <1>4
  <2>2. Remaining(w, l) > V /\ Left(Remaining(w, l), V) = Remaining(w, l) - V
    BY <1>1, <2>1 DEF Left
  <2>3. Remaining(w, l) - V < MinQty /\ MinQty \in Nat
    BY <1>3, <2>2, PlanAssumption
  <2>. QED
    BY <1>1, <2>1, <2>2, <2>3
<1>. QED
  BY <1>3, <1>4, <1>5 DEF AtRest

\* With no level worth converting, a job is its merges.
LEMMA MergesOnly ==
  ASSUME NEW f \in Wallet, NEW job, IsJob(job), Worth(f, job) = {}
  PROVE  JobCalls(f, job) = AllMerges(Merges(f, job))
<1>1. TierLevels(f, job) = <<>>
  <2>1. TierLevels(f, job) \in Seq(Nat) /\ Sorts(TierLevels(f, job), Worth(f, job))
    BY TierLevelsClimb
  <2>2. ToSet(TierLevels(f, job)) = {}
    BY <2>1 DEF Sorts
  <2>3. Len(TierLevels(f, job)) = 0
    <3>1. Len(TierLevels(f, job)) \in Nat /\ DOMAIN TierLevels(f, job) = 1..Len(TierLevels(f, job))
      BY <2>1
    <3>2. Len(TierLevels(f, job)) # 0 => 1 \in DOMAIN TierLevels(f, job)
      BY <3>1
    <3>3. \A i \in DOMAIN TierLevels(f, job) : TierLevels(f, job)[i] \in ToSet(TierLevels(f, job))
      BY DEF ToSet
    <3>. QED
      BY <2>2, <3>2, <3>3
  <2>. QED
    BY <2>1, <2>3
<1>2. Tiers(f, job) = <<>> /\ DOMAIN Tiers(f, job) = {}
  BY <1>1 DEF Tiers
<1>3. [i \in DOMAIN Tiers(f, job) |-> TierCalls(Tiers(f, job)[i], Len(job))] = <<>>
  BY <1>2
<1>. DEFINE a == AllMerges(Merges(f, job))
<1>4. JobCalls(f, job) = a \o <<>>
  <2>1. FlattenSeq(<<>>) = <<>>
    BY FlattenOfOne
  <2>. QED
    BY <1>3, <2>1 DEF JobCalls
<1>5. a \in Seq(PlannedCall)
  <2>1. Fresh(f, f, job)
    BY DEF Fresh
  <2>2. Merges(f, job) \in Seq(ProperCall)
    BY <2>1, JobMergesRun
  <2>. QED
    BY <2>2, CallsOfMerges
<1>. HIDE DEF a
<1>6. a \o <<>> = a
  BY <1>5, ConcatEmptySeq
<1>. QED
  BY <1>4, <1>6 DEF a

\* A job that is settled makes no call.
LEMMA SettledRests ==
  ASSUME NEW f \in Wallet, NEW job, IsJob(job), AtRest(f, job)
  PROVE  JobCalls(f, job) = <<>>
<1>4. \A l \in ToSet(job) : l \in JobLeg /\ Remaining(f, l) \in Nat
  BY JobLegs, LegRead
<1>6. Worth(f, job) = {}
  <2>. SUFFICES ASSUME NEW v \in Levels(f, job) PROVE Dust(f, job, v)
    <3>1. Levels(f, job) \in SUBSET Nat
      BY LevelsFinite
    <3>2. \A v \in Levels(f, job) : v <= v
      BY <3>1
    <3>. QED
      BY <3>2 DEF Worth
  <2>1. PICK l \in ToSet(job) : Remaining(f, l) = v
    BY DEF Levels
  <2>2. v \in Nat /\ v # 0
    BY <1>4, <2>1 DEF Levels
  <2>3. v < MinQty
    BY <2>1, <2>2 DEF AtRest
  <2>4. \A m \in ToSet(job) : Remaining(f, m) # 0 => m = l
    BY <2>1, <2>2 DEF AtRest
  <2>5. {m \in ToSet(job) : Remaining(f, m) >= v} = {l}
    BY <1>4, <2>1, <2>2, <2>4
  <2>6. Len(Members(f, job, v)) = 1
    <3>1. /\ Members(f, job, v) \in Seq(JobLeg) /\ IsInjective(Members(f, job, v))
          /\ ToSet(Members(f, job, v)) = {l}
      BY <2>5, MembersAre
    <3>. QED
      BY <3>1, OneOf
  <2>7. Amount(f, job, v) < MinQty
    <3>1. Below(f, job, v) \in Nat /\ Amount(f, job, v) = v - Below(f, job, v)
      BY <2>2, BelowIs
    <3>. QED
      BY <2>2, <2>3, <3>1, PlanAssumption
  <2>. QED
    BY <2>6, <2>7 DEF Dust
<1>8. Merges(f, job) = <<>>
  <2>. DEFINE K == {l \in ToSet(job) : Netted(f, l) > 0 /\ l.cid}
              merging == Only(job, K)
  <2>1. K = {}
    BY DEF AtRest
  <2>2. job \in Seq(JobLeg)
    BY JobLegs
  <2>3. merging \in Seq(JobLeg) /\ ToSet(merging) = ToSet(job) \intersect K
    <3>. HIDE DEF K
    <3>. QED
      BY <2>2, OnlyRange
  <2>4. Merges(f, job) = [i \in DOMAIN merging |-> Merge(merging[i].id, Netted(f, merging[i]))]
    BY DEF Merges
  <2>. HIDE DEF merging
  <2>5. DOMAIN merging = {}
    BY <2>1, <2>3 DEF ToSet
  <2>. QED
    BY <2>4, <2>5
<1>9. JobCalls(f, job) = AllMerges(Merges(f, job))
  BY <1>6, MergesOnly
<1>. QED
  BY <1>8, <1>9 DEF AllMerges

\* Re-read where its plan ended, a job has nothing to do.
LEMMA JobSettles ==
  ASSUME NEW w \in Wallet, NEW job, IsJob(job), NEW f \in Wallet, Finally(f, w, job),
         \A l \in ToSet(job) : l.cid \/ l.yid
  PROVE  JobCalls(f, job) = <<>>
BY FinallySettled, SettledRests

\* Re-read where a plan ended, its jobs make no call, if every leg knows its
\* condition or its YES token.
LEMMA PlanSettles ==
  ASSUME NEW w \in Wallet, NEW js, IsJobList(js), NEW f \in Wallet,
         \A i \in 1..Len(js) : Finally(f, w, js[i]),
         \A i \in 1..Len(js) : \A l \in ToSet(js[i]) : l.cid \/ l.yid
  PROVE  PlanCalls(f, js) = <<>>
<1>. DEFINE n == Len(js)
            lists == [i \in DOMAIN js |-> JobCalls(f, js[i])]
<1>1. n \in Nat /\ DOMAIN js = 1..n /\ \A i \in 1..n : IsJob(js[i])
  BY JobList
<1>2. \A i \in 1..n : JobCalls(f, js[i]) = <<>>
  BY <1>1, JobSettles
<1>3. lists \in [1..n -> {<<>>}] /\ \A i \in 1..n : lists[i] = <<>>
  BY <1>1, <1>2
<1>. HIDE DEF n, lists
<1>4. lists \in Seq(Seq({<<>>})) /\ Len(lists) = n
  <2>1. <<>> \in Seq({<<>>})
    OBVIOUS
  <2>2. lists \in [1..n -> Seq({<<>>})]
    BY <1>3, <2>1
  <2>. QED
    BY <1>1, <2>2
<1>5. FlattenSeq(lists) = <<>>
  <2>. DEFINE g == [i \in 0..n |-> <<>>]
  <2>1. <<>> \o <<>> = <<>>
    OBVIOUS
  <2>2. g[0] = <<>> /\ g[n] = <<>> /\ \A i \in 1..n : g[i] = <<>> /\ g[i - 1] = <<>>
    BY <1>1
  <2>3. \A i \in 1..Len(lists) : g[i] = g[i - 1] \o lists[i]
    BY <1>3, <1>4, <2>1, <2>2
  <2>. HIDE DEF g
  <2>4. FlattenSeq(lists) = g[Len(lists)]
    BY <1>4, <2>2, <2>3, FlatIs
  <2>. QED
    BY <1>4, <2>2, <2>4
<1>. QED
  BY <1>5 DEF PlanCalls, lists

---------------------------------------------------------------------------
(* No other netting frees more.  What the calls of a job turn into one      *)
(* another is worth what it was: seen from one leg, the USDC.e freed, the   *)
(* NO of all the legs, and the leg's own YES less its NO.                   *)

\* All the NO a wallet holds of a job's legs.
AllNo(x, job) == SumUp([i \in DOMAIN job |-> x.no[job[i].id]])

\* Taking `amount` off the NO of some of the legs takes it off the sum for each.
LEMMA NoTaken ==
  ASSUME NEW job, IsJob(job), NEW x \in Wallet, NEW z \in Wallet, NEW amount \in Nat,
         NEW J, J \subseteq {l.id : l \in ToSet(job)},
         \A l \in J : z.no[l] = x.no[l] - amount,
         \A l \in {l.id : l \in ToSet(job)} \ J : z.no[l] = x.no[l]
  PROVE  /\ IsFiniteSet(J) /\ Cardinality(J) \in Nat
         /\ AllNo(x, job) \in Nat /\ AllNo(z, job) \in Nat
         /\ AllNo(x, job) = AllNo(z, job) + amount * Cardinality(J)
<1>. DEFINE n == Len(job)
            id == [i \in 1..n |-> job[i].id]
            a == [i \in DOMAIN job |-> x.no[job[i].id]]
            b == [i \in DOMAIN job |-> z.no[job[i].id]]
            T(i) == {l \in J : \E k \in 1..i : id[k] = l}
            c == [i \in 0..n |-> Cardinality(T(i))]
<1>1. /\ n \in Nat /\ DOMAIN job = 1..n /\ \A i \in 1..n : id[i] \in Leg
      /\ \A i, j \in 1..n : id[i] = id[j] => i = j
      /\ {l.id : l \in ToSet(job)} = {id[i] : i \in 1..n}
  <2>1. n \in Nat /\ DOMAIN job = 1..n /\ \A i \in 1..n : job[i] \in JobLeg
    BY JobLegs
  <2>2. \A i, j \in 1..n : id[i] = id[j] => i = j
    BY <2>1 DEF IsJob
  <2>3. {l.id : l \in ToSet(job)} = {id[i] : i \in 1..n}
    BY <2>1 DEF ToSet
  <2>. QED
    BY <2>1, <2>2, <2>3 DEF JobLeg
<1>2. a \in Seq(Nat) /\ Len(a) = n /\ b \in Seq(Nat) /\ Len(b) = n
      /\ \A i \in 1..n : a[i] = x.no[id[i]] /\ b[i] = z.no[id[i]]
  <2>1. \A i \in 1..n : x.no[job[i].id] \in Nat /\ z.no[job[i].id] \in Nat
    BY <1>1 DEF Wallet
  <2>2. a \in [1..n -> Nat] /\ b \in [1..n -> Nat]
    BY <1>1, <2>1
  <2>. QED
    BY <1>1, <2>2
<1>3. AllNo(x, job) = SumUp(a) /\ AllNo(z, job) = SumUp(b)
  BY DEF AllNo
<1>4. \A i \in 1..n : id[i] \in {l.id : l \in ToSet(job)}
  BY <1>1
<1>5. \A i \in 1..n : a[i] = b[i] + (IF id[i] \in J THEN amount ELSE 0)
  <2>. SUFFICES ASSUME NEW i \in 1..n PROVE a[i] = b[i] + (IF id[i] \in J THEN amount ELSE 0)
    OBVIOUS
  <2>1. x.no[id[i]] \in Nat /\ z.no[id[i]] \in Nat
    BY <1>1 DEF Wallet
  <2>2. id[i] \in J => z.no[id[i]] = x.no[id[i]] - amount
    OBVIOUS
  <2>3. id[i] \notin J => z.no[id[i]] = x.no[id[i]]
    BY <1>4
  <2>. HIDE DEF id, a, b
  <2>. QED
    BY <1>2, <2>1, <2>2, <2>3
<1>. HIDE DEF n, id, a, b
<1>6. T(0) = {} /\ T(n) = J
  <2>1. T(0) = {}
    BY <1>1
  <2>2. \A l \in J : \E k \in 1..n : id[k] = l
    BY <1>1
  <2>. QED
    BY <2>1, <2>2
<1>7. ASSUME NEW i \in 1..n
      PROVE  /\ id[i] \notin T(i - 1)
             /\ T(i) = IF id[i] \in J THEN T(i - 1) \union {id[i]} ELSE T(i - 1)
  <2>1. \A k \in 1..(i - 1) : k \in 1..n /\ k # i
    BY <1>1
  <2>2. \A k \in 1..i : k \in 1..(i - 1) \/ k = i
    BY <1>1
  <2>3. i \in 1..i /\ \A k \in 1..(i - 1) : k \in 1..i
    BY <1>1
  <2>. QED
    BY <1>1, <2>1, <2>2, <2>3
<1>. HIDE DEF T
<1>. DEFINE F == {i \in 0..n : IsFiniteSet(T(i))}
<1>8. \A i \in 0..n : IsFiniteSet(T(i)) /\ c[i] = Cardinality(T(i)) /\ c[i] \in Nat
  <2>1. 0 \in F
    <3>1. 0 \in 0..n
      BY <1>1
    <3>. QED
      BY <1>6, <3>1, FS_EmptySet
  <2>2. ASSUME NEW i \in 0..(n - 1), i \in F PROVE i + 1 \in F
    <3>1. i + 1 \in 1..n /\ (i + 1) - 1 = i /\ i + 1 \in 0..n
      BY <1>1
    <3>2. T(i + 1) = IF id[i + 1] \in J THEN T(i) \union {id[i + 1]} ELSE T(i)
      BY <1>7, <3>1
    <3>. QED
      BY <2>2, <3>1, <3>2, FS_AddElement
  <2>3. \A i \in 0..n : i \in F
    <3>. HIDE DEF F
    <3>. QED
      BY <1>1, <2>1, <2>2, UpTo
  <2>. QED
    BY <2>3, FS_CardinalityType
<1>9. \A i \in 1..n : c[i] = c[i - 1] + (IF id[i] \in J THEN 1 ELSE 0)
  <2>. SUFFICES ASSUME NEW i \in 1..n PROVE c[i] = c[i - 1] + (IF id[i] \in J THEN 1 ELSE 0)
    OBVIOUS
  <2>1. i \in 0..n /\ i - 1 \in 0..n
    BY <1>1
  <2>2. Cardinality(T(i - 1) \union {id[i]}) = Cardinality(T(i - 1)) + 1
    BY <1>7, <1>8, <2>1, FS_AddElement
  <2>3. c[i - 1] + 0 = c[i - 1]
    BY <1>8, <2>1
  <2>. QED
    BY <1>7, <1>8, <2>1, <2>2, <2>3
<1>10. c[0] = 0 /\ c[n] = Cardinality(J) /\ IsFiniteSet(J)
  <2>1. 0 \in 0..n /\ n \in 0..n
    BY <1>1
  <2>. QED
    BY <1>6, <1>8, <2>1, FS_EmptySet
<1>. HIDE DEF c
<1>11. PICK g : SumTrace(g, b)
  BY <1>2, SumSteps
<1>12. g \in [0..n -> Nat] /\ g[0] = 0 /\ g[n] = SumUp(b) /\ \A i \in 1..n : g[i] = g[i - 1] + b[i]
  BY <1>2, <1>11 DEF SumTrace
<1>. DEFINE h == [i \in 0..n |-> g[i] + amount * c[i]]
<1>13. h[0] = 0 /\ h[n] = SumUp(b) + amount * Cardinality(J)
  <2>1. 0 \in 0..n /\ n \in 0..n /\ amount * 0 = 0
    BY <1>1
  <2>. QED
    BY <1>10, <1>12, <2>1
<1>14. \A i \in 1..n : h[i] = h[i - 1] + a[i]
  <2>. SUFFICES ASSUME NEW i \in 1..n PROVE h[i] = h[i - 1] + a[i]
    OBVIOUS
  <2>1. i \in 0..n /\ i - 1 \in 0..n
    BY <1>1
  <2>2. g[i - 1] \in Nat /\ c[i - 1] \in Nat /\ b[i] \in Nat
    <3>1. g[i - 1] \in Nat
      BY <1>12, <2>1
    <3>2. c[i - 1] \in Nat
      BY <1>8, <2>1
    <3>3. b[i] \in Nat
      BY <1>2
    <3>. QED
      BY <3>1, <3>2, <3>3
  <2>3. \A k \in Nat : amount * k \in Nat /\ amount * (k + 1) = amount * k + amount /\ amount * (k + 0) = amount * k
    OBVIOUS
  <2>4. g[i] = g[i - 1] + b[i] /\ a[i] = b[i] + (IF id[i] \in J THEN amount ELSE 0)
        /\ c[i] = c[i - 1] + (IF id[i] \in J THEN 1 ELSE 0)
    BY <1>5, <1>9, <1>12
  <2>5. h[i] = g[i] + amount * c[i] /\ h[i - 1] = g[i - 1] + amount * c[i - 1]
    BY <2>1
  <2>. DEFINE p == amount * c[i - 1]
              q == amount * c[i]
  <2>6. p \in Nat /\ q = p + (IF id[i] \in J THEN amount ELSE 0)
    <3>1. CASE id[i] \in J
      <4>1. c[i] = c[i - 1] + 1
        BY <2>4, <3>1
      <4>. QED
        BY <2>2, <2>3, <3>1, <4>1
    <3>2. CASE id[i] \notin J
      <4>1. c[i] = c[i - 1]
        BY <2>2, <2>4, <3>2
      <4>2. p \in Nat /\ q = p
        BY <2>2, <2>3, <4>1
      <4>. QED
        BY <3>2, <4>2
    <3>. QED
      BY <3>1, <3>2
  <2>. HIDE DEF p, q, h
  <2>7. h[i] = g[i] + q /\ h[i - 1] = g[i - 1] + p
    BY <2>5 DEF p, q
  <2>. QED
    BY <2>2, <2>4, <2>6, <2>7
<1>. HIDE DEF h
<1>15. SumUp(a) = h[n] /\ SumUp(a) \in Nat
  BY <1>2, <1>13, <1>14, SumIs
<1>16. SumUp(b) \in Nat
  BY <1>1, <1>12
<1>. QED
  BY <1>3, <1>10, <1>13, <1>15, <1>16, FS_CardinalityType

\* The calls a job makes: merges of one leg and converts of legs, all its own.
OwnCall(job) ==
  {c \in ProperCall : /\ c.legs # {} /\ c.legs \subseteq {l.id : l \in ToSet(job)}
                      /\ c.op = "merge" => \E l \in ToSet(job) : c.legs = {l.id}}

\* What netting turns into one another, seen from leg m: what was freed, the NO
\* of all the legs, and m's YES less its NO.
Worthy(x, job, m) == x.usdce + AllNo(x, job) + x.yes[m.id] - x.no[m.id]

\* A call of the job changes none of it; a merge does not change what was freed
\* and the NO there is.
LEMMA CallConserves ==
  ASSUME NEW job, IsJob(job), NEW x \in Wallet, NEW c \in OwnCall(job), CallValid(x, c),
         NEW m \in ToSet(job), NEW z, z = ApplyCall(x, c)
  PROVE  /\ Worthy(z, job, m) = Worthy(x, job, m)
         /\ c.op = "merge" => z.usdce + AllNo(z, job) = x.usdce + AllNo(x, job)
<1>. DEFINE a == c.amount
            J == c.legs
            ids == {l.id : l \in ToSet(job)}
<1>1. /\ c \in ProperCall /\ J # {} /\ J \subseteq ids
      /\ c.op = "merge" => \E l \in ToSet(job) : J = {l.id}
      /\ c.op \in {"merge", "convert"} /\ a \in Nat
  BY DEF OwnCall, ProperCall, RelayerCall, Call
<1>2. z \in Wallet
  BY <1>1, ApplyTyped
<1>3. ids \subseteq Leg /\ m.id \in ids /\ \A l, k \in ids : EventOf[l] = EventOf[k]
  <2>1. ToSet(job) \subseteq JobLeg /\ \A l, k \in ToSet(job) : EventOf[l.id] = EventOf[k.id]
    BY JobLegs
  <2>. QED
    BY <2>1 DEF JobLeg
<1>4. /\ \A l \in J : z.no[l] = x.no[l] - a
      /\ \A l \in ids \ J : z.no[l] = x.no[l]
      /\ c.op = "merge" => /\ z.usdce = x.usdce + a
                           /\ z.yes[m.id] = IF m.id \in J THEN x.yes[m.id] - a ELSE x.yes[m.id]
      /\ c.op = "convert" => /\ z.usdce = x.usdce + (Cardinality(J) - 1) * a
                             /\ z.yes[m.id] = IF m.id \in J THEN x.yes[m.id] ELSE x.yes[m.id] + a
  <2>1. m.id \notin J => m.id \in Complement(J)
    BY <1>1, <1>3 DEF Complement
  <2>2. m.id \in J => m.id \notin Complement(J)
    BY DEF Complement
  <2>3. CASE c.op = "merge"
    BY <1>1, <1>3, <2>3 DEF ApplyCall, Wallet
  <2>4. CASE c.op = "convert"
    BY <1>1, <1>3, <2>1, <2>2, <2>4 DEF ApplyCall, Wallet
  <2>. QED
    BY <1>1, <2>3, <2>4
<1>5. /\ IsFiniteSet(J) /\ Cardinality(J) \in Nat /\ AllNo(x, job) \in Nat /\ AllNo(z, job) \in Nat
      /\ AllNo(x, job) = AllNo(z, job) + a * Cardinality(J)
  <2>. HIDE DEF a, J
  <2>. QED
    BY <1>1, <1>2, <1>4, NoTaken
<1>6. /\ x.usdce \in Nat /\ x.yes[m.id] \in Nat /\ x.no[m.id] \in Nat
      /\ z.usdce \in Nat /\ z.yes[m.id] \in Nat /\ z.no[m.id] \in Nat
  BY <1>2, <1>3 DEF Wallet
<1>7. z.no[m.id] = IF m.id \in J THEN x.no[m.id] - a ELSE x.no[m.id]
  BY <1>3, <1>4
<1>. DEFINE A == AllNo(x, job)
            B == AllNo(z, job)
            k == Cardinality(J)
            y == m.id \in J
<1>8. CASE c.op = "merge"
  <2>1. k = 1
    BY <1>1, <1>8, FS_Singleton
  <2>2. A = B + a
    BY <1>1, <1>5, <2>1
  <2>3. B \in Nat /\ a \in Nat
    BY <1>1, <1>5
  <2>. HIDE DEF A, B, a, J
  <2>4. /\ z.usdce + B + z.yes[m.id] - z.no[m.id] = x.usdce + A + x.yes[m.id] - x.no[m.id]
        /\ z.usdce + B = x.usdce + A
    BY <1>4, <1>6, <1>7, <1>8, <2>2, <2>3
  <2>. QED
    BY <2>4 DEF Worthy, A, B
<1>9. CASE c.op = "convert"
  <2>1. a * k \in Nat /\ (k - 1) * a = a * k - a
    BY <1>1, <1>5
  <2>. DEFINE p == a * k
  <2>2. A = B + p /\ p \in Nat
    BY <1>5, <2>1
  <2>. HIDE DEF p
  <2>3. z.usdce = x.usdce + (p - a)
    BY <1>4, <1>9, <2>1 DEF p
  <2>. HIDE DEF A, B, k, a
  <2>4. z.usdce + B + z.yes[m.id] - z.no[m.id] = x.usdce + A + x.yes[m.id] - x.no[m.id]
    <3>1. a \in Nat /\ A \in Nat /\ B \in Nat
      BY <1>1, <1>5 DEF a, A, B
    <3>2. z.yes[m.id] = IF m.id \in J THEN x.yes[m.id] ELSE x.yes[m.id] + a
      BY <1>4, <1>9
    <3>. HIDE DEF J
    <3>3. CASE m.id \in J
      <4>1. z.yes[m.id] = x.yes[m.id] /\ z.no[m.id] = x.no[m.id] - a
        BY <1>7, <3>2, <3>3
      <4>. QED
        BY <1>6, <2>2, <2>3, <3>1, <4>1
    <3>4. CASE m.id \notin J
      <4>1. z.yes[m.id] = x.yes[m.id] + a /\ z.no[m.id] = x.no[m.id]
        BY <1>7, <3>2, <3>4
      <4>. QED
        BY <1>6, <2>2, <2>3, <3>1, <4>1
    <3>. QED
      BY <3>3, <3>4
  <2>. QED
    BY <1>1, <1>9, <2>4 DEF Worthy, A, B, a, J
<1>. QED
  BY <1>1, <1>8, <1>9

OwnPlanned(job) == [call : OwnCall(job), gas : Nat]

\* A merge of one of the legs is one of them, and a list of planned ones.
LEMMA OwnMerges ==
  ASSUME NEW job, IsJob(job), NEW s \in Seq(JobLeg), ToSet(s) \subseteq ToSet(job),
         NEW ms, DOMAIN ms = DOMAIN s,
         \A i \in DOMAIN s : \E a \in Nat : ms[i] = Merge(s[i].id, a),
         ms = [i \in DOMAIN s |-> ms[i]]
  PROVE  ms \in Seq(OwnCall(job)) /\ AllMerges(ms) \in Seq(OwnPlanned(job))
<1>1. Len(s) \in Nat /\ DOMAIN s = 1..Len(s) /\ \A i \in 1..Len(s) : s[i] \in ToSet(job) /\ s[i] \in JobLeg
  <2>1. Len(s) \in Nat /\ DOMAIN s = 1..Len(s) /\ \A i \in 1..Len(s) : s[i] \in JobLeg
    OBVIOUS
  <2>2. \A i \in 1..Len(s) : s[i] \in ToSet(s)
    BY <2>1 DEF ToSet
  <2>. QED
    BY <2>1, <2>2
<1>2. ASSUME NEW i \in 1..Len(s) PROVE ms[i] \in OwnCall(job)
  <2>1. PICK a \in Nat : ms[i] = Merge(s[i].id, a)
    BY <1>1
  <2>2. s[i].id \in Leg /\ s[i] \in ToSet(job)
    BY <1>1 DEF JobLeg
  <2>3. Merge(s[i].id, a) \in ProperCall
    BY <2>2, FS_Singleton DEF Merge, ProperCall, RelayerCall, Call
  <2>4. Merge(s[i].id, a).legs = {s[i].id} /\ Merge(s[i].id, a).op = "merge"
    BY DEF Merge
  <2>. QED
    BY <2>1, <2>2, <2>3, <2>4 DEF OwnCall
<1>3. ms \in [1..Len(s) -> OwnCall(job)]
  BY <1>1, <1>2
<1>4. \A c \in OwnCall(job) : Planned(c, MergeGas) \in OwnPlanned(job)
  BY DEF Planned, OwnPlanned, MergeGas
<1>5. AllMerges(ms) \in [1..Len(s) -> OwnPlanned(job)]
  BY <1>1, <1>2, <1>4 DEF AllMerges
<1>. QED
  BY <1>1, <1>2, <1>3, <1>5

\* A job's merges are its own.
LEMMA JobMergesOwn ==
  ASSUME NEW w \in Wallet, NEW job, IsJob(job)
  PROVE  /\ Merges(w, job) \in Seq(OwnCall(job)) /\ AllMerges(Merges(w, job)) \in Seq(OwnPlanned(job))
         /\ \A i \in DOMAIN Merges(w, job) : Merges(w, job)[i].op = "merge"
<1>. DEFINE K == {l \in ToSet(job) : Netted(w, l) > 0 /\ l.cid}
            s == Only(job, K)
            ms == Merges(w, job)
<1>1. s \in Seq(JobLeg) /\ ToSet(s) = ToSet(job) \intersect K
  <2>1. job \in Seq(JobLeg)
    BY JobLegs
  <2>. HIDE DEF K
  <2>. QED
    BY <2>1, OnlyRange
<1>2. ms = [i \in DOMAIN s |-> Merge(s[i].id, Netted(w, s[i]))]
  BY DEF Merges
<1>. HIDE DEF s, ms
<1>3. \A i \in DOMAIN s : Netted(w, s[i]) \in Nat
  <2>1. \A i \in DOMAIN s : s[i] \in JobLeg
    BY <1>1
  <2>. QED
    BY <2>1, LegRead
<1>4. /\ DOMAIN ms = DOMAIN s /\ \A i \in DOMAIN s : \E a \in Nat : ms[i] = Merge(s[i].id, a)
      /\ ms = [i \in DOMAIN s |-> ms[i]] /\ ToSet(s) \subseteq ToSet(job)
  BY <1>1, <1>2, <1>3
<1>5. ms \in Seq(OwnCall(job)) /\ AllMerges(ms) \in Seq(OwnPlanned(job))
  BY <1>1, <1>4, OwnMerges
<1>6. \A i \in DOMAIN ms : ms[i].op = "merge"
  BY <1>4 DEF Merge
<1>. QED
  BY <1>5, <1>6 DEF ms

\* So are a tier's calls.
LEMMA TierCallsOwn ==
  ASSUME NEW w \in Wallet, NEW job, IsJob(job), NEW v \in Levels(w, job), NEW n \in Nat
  PROVE  TierCalls(Tier(w, job, v), n) \in Seq(OwnPlanned(job))
<1>. DEFINE t == Tier(w, job, v)
            ids == {l.id : l \in ToSet(t.members)}
            all == {l.id : l \in ToSet(job)}
            c == Convert(ids, t.amount)
<1>1. PICK rest : TierShape(t, w, job, v, rest)
  BY TierHasShape
<1>2. t.amount \in Nat
  <2>1. v \in Nat \ {0}
    BY LevelsFinite
  <2>2. Below(w, job, v) \in Nat /\ Below(w, job, v) < v /\ Amount(w, job, v) = v - Below(w, job, v)
    BY <2>1, BelowIs
  <2>3. Amount(w, job, v) \in Nat
    BY <2>1, <2>2
  <2>. QED
    BY <1>1, <2>3 DEF TierShape
<1>. HIDE DEF t
<1>3. /\ t.members \in Seq(JobLeg) /\ t.members # <<>> /\ ToSet(t.members) \subseteq ToSet(job)
      /\ rest \in Seq(JobLeg) /\ ToSet(rest) \subseteq ToSet(job)
      /\ t.post = [i \in DOMAIN rest |-> Merge(rest[i].id, t.amount)]
  BY <1>1 DEF TierShape
<1>4. ids \subseteq all /\ ids # {} /\ all \subseteq Leg /\ IsFiniteSet(all)
  <2>1. 1 \in DOMAIN t.members
    BY <1>3
  <2>2. t.members[1] \in ToSet(t.members)
    BY <2>1 DEF ToSet
  <2>3. all \subseteq Leg
    BY JobLegs DEF JobLeg
  <2>4. \A l \in all : w.no[l] = w.no[l] - 0
    BY <2>3 DEF Wallet
  <2>5. IsFiniteSet(all)
    <3>. HIDE DEF all
    <3>1. all \subseteq {l.id : l \in ToSet(job)} /\ {l.id : l \in ToSet(job)} \ all = {}
      BY DEF all
    <3>. QED
      BY <2>4, <3>1, NoTaken
  <2>. QED
    BY <1>3, <2>2, <2>3, <2>5
<1>. HIDE DEF ids, all
<1>5. c \in OwnCall(job)
  <2>1. IsFiniteSet(ids) /\ ids \in SUBSET Leg
    BY <1>4, FS_Subset
  <2>2. c \in ProperCall
    BY <1>2, <1>4, <2>1 DEF Convert, ProperCall, RelayerCall, Call
  <2>. QED
    BY <1>4, <2>2 DEF OwnCall, Convert, all
<1>6. Planned(c, ConvertGas(n)) \in OwnPlanned(job)
  <2>. HIDE DEF c
  <2>. QED
    BY <1>5 DEF Planned, OwnPlanned, ConvertGas
<1>7. AllMerges(t.post) \in Seq(OwnPlanned(job))
  <2>. DEFINE ms == t.post
  <2>1. /\ DOMAIN ms = DOMAIN rest /\ \A i \in DOMAIN rest : \E a \in Nat : ms[i] = Merge(rest[i].id, a)
        /\ ms = [i \in DOMAIN rest |-> ms[i]]
    BY <1>2, <1>3
  <2>. HIDE DEF ms
  <2>2. AllMerges(ms) \in Seq(OwnPlanned(job))
    BY <1>3, <2>1, OwnMerges
  <2>. QED
    BY <2>2 DEF ms
<1>8. TierCalls(t, n) = <<Planned(c, ConvertGas(n))>> \o AllMerges(t.post)
  BY DEF TierCalls, ids
<1>. DEFINE p == Planned(c, ConvertGas(n))
            q == AllMerges(t.post)
<1>. HIDE DEF p, q
<1>9. <<p>> \o q \in Seq(OwnPlanned(job))
  BY <1>6, <1>7 DEF p, q
<1>. QED
  BY <1>8, <1>9 DEF p, q, t

\* All that a job calls is its own.
LEMMA JobCallsOwn ==
  ASSUME NEW w \in Wallet, NEW job, IsJob(job)
  PROVE  JobCalls(w, job) \in Seq(OwnPlanned(job))
<1>. DEFINE ts == Tiers(w, job)
            lv == TierLevels(w, job)
            lists == [i \in DOMAIN ts |-> TierCalls(ts[i], Len(job))]
            a == AllMerges(Merges(w, job))
            b == FlattenSeq(lists)
<1>1. lv \in Seq(Nat) /\ \A i \in 1..Len(lv) : lv[i] \in Levels(w, job)
  BY TierLevelsClimb
<1>. HIDE DEF lv
<1>2. Len(lv) \in Nat /\ DOMAIN lv = 1..Len(lv) /\ Len(job) \in Nat
  <2>1. job \in Seq(JobLeg)
    BY JobLegs
  <2>. QED
    BY <1>1, <2>1
<1>3. DOMAIN ts = 1..Len(lv) /\ \A i \in 1..Len(lv) : ts[i] = Tier(w, job, lv[i])
  BY <1>2 DEF Tiers, lv
<1>. HIDE DEF ts
<1>4. lists \in [1..Len(lv) -> Seq(OwnPlanned(job))]
  <2>1. \A i \in 1..Len(lv) : TierCalls(ts[i], Len(job)) \in Seq(OwnPlanned(job))
    BY <1>1, <1>2, <1>3, TierCallsOwn
  <2>. QED
    BY <1>3, <2>1
<1>5. lists \in Seq(Seq(OwnPlanned(job)))
  BY <1>2, <1>4
<1>6. JobCalls(w, job) = a \o b
  BY DEF JobCalls, ts
<1>. HIDE DEF lists
<1>7. b \in Seq(OwnPlanned(job))
  BY <1>5, FlattenOfBoth
<1>8. a \in Seq(OwnPlanned(job))
  BY JobMergesOwn
<1>. HIDE DEF a, b
<1>. QED
  BY <1>6, <1>7, <1>8

\* The calls are all of a kind, and such a call leaves `val` as it is.
AllOf(calls, E) == Len(calls) \in Nat /\ \A i \in 1..Len(calls) : calls[i] \in E
Keeps(E, val)   == \A x \in Wallet, c \in E : CallValid(x, c) => val[ApplyCall(x, c)] = val[x]

\* What no call changes is at the end what it was at the start.
LEMMA Unchanging ==
  ASSUME NEW w, NEW z, NEW calls, Leads(w, calls, z), NEW E, AllOf(calls, E), NEW val, Keeps(E, val)
  PROVE  val[z] = val[w]
<1>. DEFINE n == Len(calls)
<1>0. n \in Nat /\ \A i \in 1..n : calls[i] \in E
  BY DEF AllOf
<1>1. PICK f : Course(f, w, calls) /\ f[n] = z
  BY DEF Leads
<1>. DEFINE S == {i \in 0..n : val[f[i]] = val[w]}
<1>2. 0 \in S
  BY <1>0, <1>1 DEF Course
<1>3. ASSUME NEW i \in 0..(n - 1), i \in S PROVE i + 1 \in S
  <2>1. i + 1 \in 1..n /\ (i + 1) - 1 = i /\ i + 1 \in 0..n /\ i \in 0..n
    BY <1>0
  <2>2. f[i] \in Wallet /\ CallValid(f[i], calls[i + 1]) /\ f[i + 1] = ApplyCall(f[i], calls[i + 1])
    BY <1>1, <2>1 DEF Course
  <2>3. val[ApplyCall(f[i], calls[i + 1])] = val[f[i]]
    BY <1>0, <2>1, <2>2 DEF Keeps
  <2>. QED
    BY <1>3, <2>1, <2>2, <2>3
<1>4. \A i \in 0..n : i \in S
  <2>. HIDE DEF S, n
  <2>. QED
    BY <1>0, <1>2, <1>3, UpTo
<1>5. n \in 0..n
  BY <1>0
<1>. QED
  BY <1>1, <1>4, <1>5

\* The calls of a job are its own, one by one.
LEMMA EachCallOwn ==
  ASSUME NEW w \in Wallet, NEW job, IsJob(job)
  PROVE  /\ Len(CallsOf(JobCalls(w, job))) \in Nat
         /\ \A i \in 1..Len(CallsOf(JobCalls(w, job))) : CallsOf(JobCalls(w, job))[i] \in OwnCall(job)
<1>. DEFINE p == JobCalls(w, job)
            c == CallsOf(p)
<1>1. p \in Seq(OwnPlanned(job))
  BY JobCallsOwn
<1>. HIDE DEF p
<1>2. Len(p) \in Nat /\ DOMAIN p = 1..Len(p) /\ \A i \in 1..Len(p) : p[i] \in OwnPlanned(job)
  BY <1>1
<1>3. \A i \in 1..Len(p) : p[i].call \in OwnCall(job)
  BY <1>2 DEF OwnPlanned
<1>4. c = [i \in 1..Len(p) |-> p[i].call]
  BY <1>2 DEF CallsOf
<1>5. c \in [1..Len(p) -> OwnCall(job)]
  BY <1>3, <1>4
<1>6. Len(c) = Len(p)
  BY <1>2, <1>5
<1>. QED
  BY <1>2, <1>5, <1>6 DEF p

\* Where a job's plan ends, what netting turns into one another is what it was.
LEMMA JobConserves ==
  ASSUME NEW w \in Wallet, NEW job, IsJob(job), NEW z \in Wallet,
         Leads(w, CallsOf(JobCalls(w, job)), z), NEW m \in ToSet(job)
  PROVE  Worthy(z, job, m) = Worthy(w, job, m)
<1>. DEFINE val == [x \in Wallet |-> Worthy(x, job, m)]
            calls == CallsOf(JobCalls(w, job))
<1>1. ASSUME NEW x \in Wallet, NEW c \in OwnCall(job), CallValid(x, c)
      PROVE  val[ApplyCall(x, c)] = val[x]
  <2>1. ApplyCall(x, c) \in Wallet
    BY <1>1, ApplyTyped DEF OwnCall
  <2>. DEFINE y == ApplyCall(x, c)
  <2>. HIDE DEF y
  <2>2. Worthy(y, job, m) = Worthy(x, job, m)
    BY <1>1, CallConserves DEF y
  <2>3. y \in Wallet
    BY <2>1 DEF y
  <2>. QED
    BY <2>2, <2>3 DEF y
<1>2. Len(calls) \in Nat /\ \A i \in 1..Len(calls) : calls[i] \in OwnCall(job)
  BY EachCallOwn
<1>3. val[z] = Worthy(z, job, m) /\ val[w] = Worthy(w, job, m)
  OBVIOUS
<1>5. Leads(w, calls, z) /\ AllOf(calls, OwnCall(job)) /\ Keeps(OwnCall(job), val)
  BY <1>1, <1>2 DEF AllOf, Keeps
<1>. HIDE DEF val, calls
<1>4. val[z] = val[w]
  BY <1>5, Unchanging
<1>. QED
  BY <1>3, <1>4

\* If it makes merges only, what it frees is the NO it takes.
LEMMA MergesConserve ==
  ASSUME NEW w \in Wallet, NEW job, IsJob(job), NEW z \in Wallet, job # <<>>,
         Leads(w, Merges(w, job), z)
  PROVE  z.usdce + AllNo(z, job) = w.usdce + AllNo(w, job)
<1>. DEFINE val == [x \in Wallet |-> x.usdce + AllNo(x, job)]
            calls == Merges(w, job)
            E == {c \in OwnCall(job) : c.op = "merge"}
<1>0. PICK m : m \in ToSet(job)
  <2>1. job \in Seq(JobLeg)
    BY JobLegs
  <2>2. 1 \in DOMAIN job
    BY <2>1
  <2>. QED
    BY <2>2 DEF ToSet
<1>1. ASSUME NEW x \in Wallet, NEW c \in E, CallValid(x, c)
      PROVE  val[ApplyCall(x, c)] = val[x]
  <2>0. c \in OwnCall(job) /\ c.op = "merge"
    OBVIOUS
  <2>1. ApplyCall(x, c) \in Wallet
    BY <1>1, <2>0, ApplyTyped DEF OwnCall
  <2>. DEFINE y == ApplyCall(x, c)
  <2>. HIDE DEF y
  <2>2. y.usdce + AllNo(y, job) = x.usdce + AllNo(x, job)
    BY <1>0, <1>1, <2>0, CallConserves DEF y
  <2>3. y \in Wallet
    BY <2>1 DEF y
  <2>. QED
    BY <2>2, <2>3 DEF y
<1>2. Len(calls) \in Nat /\ \A i \in 1..Len(calls) : calls[i] \in E
  <2>1. calls \in Seq(OwnCall(job)) /\ \A i \in DOMAIN calls : calls[i].op = "merge"
    BY JobMergesOwn
  <2>. HIDE DEF calls
  <2>2. Len(calls) \in Nat /\ DOMAIN calls = 1..Len(calls) /\ \A i \in 1..Len(calls) : calls[i] \in OwnCall(job)
    BY <2>1
  <2>. QED
    BY <2>1, <2>2
<1>3. val[z] = z.usdce + AllNo(z, job) /\ val[w] = w.usdce + AllNo(w, job)
  OBVIOUS
<1>5. Leads(w, calls, z) /\ AllOf(calls, E) /\ Keeps(E, val)
  BY <1>1, <1>2 DEF AllOf, Keeps
<1>. HIDE DEF val, calls, E
<1>4. val[z] = val[w]
  BY <1>5, Unchanging
<1>. QED
  BY <1>3, <1>4

\* The NO of all the legs is a number.
LEMMA AllNoIsNat ==
  ASSUME NEW job, IsJob(job), NEW x \in Wallet
  PROVE  AllNo(x, job) \in Nat
<1>. DEFINE a == [i \in DOMAIN job |-> x.no[job[i].id]]
<1>1. DOMAIN job = 1..Len(job) /\ Len(job) \in Nat /\ \A i \in 1..Len(job) : job[i].id \in Leg
  <2>1. \A i \in 1..Len(job) : job[i] \in JobLeg
    BY JobLegs
  <2>. QED
    BY <2>1, JobLegs DEF JobLeg
<1>2. \A i \in 1..Len(job) : x.no[job[i].id] \in Nat
  BY <1>1 DEF Wallet
<1>3. a \in [1..Len(job) -> Nat]
  BY <1>1, <1>2
<1>4. a \in Seq(Nat)
  BY <1>1, <1>3
<1>5. AllNo(x, job) = SumUp(a)
  BY DEF AllNo
<1>. HIDE DEF a
<1>. QED
  BY <1>4, <1>5, SumOfBoth

\* Legs without NO add up to none.
LEMMA NoneLeft ==
  ASSUME NEW job, IsJob(job), NEW x, \A l \in ToSet(job) : x.no[l.id] = 0
  PROVE  AllNo(x, job) = 0
<1>. DEFINE a == [i \in DOMAIN job |-> x.no[job[i].id]]
            g == [i \in 0..Len(job) |-> 0]
<1>1. Len(job) \in Nat /\ DOMAIN job = 1..Len(job) /\ \A i \in 1..Len(job) : job[i] \in ToSet(job)
  BY JobLegs DEF ToSet
<1>2. \A i \in 1..Len(job) : a[i] = 0
  BY <1>1
<1>3. a \in [1..Len(job) -> Nat]
  BY <1>1, <1>2
<1>4. a \in Seq(Nat) /\ Len(a) = Len(job)
  BY <1>1, <1>3
<1>5. g[0] = 0 /\ g[Len(job)] = 0 /\ \A i \in 1..Len(job) : g[i] = g[i - 1] + a[i]
  BY <1>1, <1>2
<1>6. AllNo(x, job) = SumUp(a)
  BY DEF AllNo
<1>. HIDE DEF a, g
<1>. QED
  BY <1>4, <1>5, <1>6, SumIs

\* If one leg has all that is left, that is the sum.
LEMMA OneHasAll ==
  ASSUME NEW job, IsJob(job), NEW x \in Wallet, NEW m \in ToSet(job),
         \A l \in ToSet(job) : l # m => x.no[l.id] = 0
  PROVE  AllNo(x, job) = x.no[m.id]
<1>. DEFINE z == [x EXCEPT !.no = [l \in Leg |-> 0]]
            ids == {l.id : l \in ToSet(job)}
            a == x.no[m.id]
<1>1. ids \subseteq Leg /\ m.id \in ids
  BY JobLegs DEF JobLeg
<1>2. z \in Wallet /\ a \in Nat /\ \A l \in ids : z.no[l] = 0
  BY <1>1 DEF Wallet
<1>3. \A l \in ids \ {m.id} : x.no[l] = 0
  OBVIOUS
<1>4. AllNo(z, job) = 0
  BY <1>2, NoneLeft
<1>. HIDE DEF z, a
<1>5. \A l \in {m.id} : z.no[l] = x.no[l] - a
  BY <1>1, <1>2 DEF a
<1>6. AllNo(x, job) = AllNo(z, job) + a * Cardinality({m.id})
  <2>1. \A l \in ids \ {m.id} : z.no[l] = x.no[l]
    BY <1>2, <1>3
  <2>2. {m.id} \subseteq ids
    BY <1>1
  <2>. QED
    BY <1>2, <1>5, <2>1, <2>2, NoTaken
<1>7. Cardinality({m.id}) = 1 /\ a \in Nat
  BY <1>2, FS_Singleton
<1>8. AllNo(x, job) = a
  BY <1>4, <1>6, <1>7
<1>. QED
  BY <1>8 DEF a

\* Some leg has the most left.
LEMMA MostLeft ==
  ASSUME NEW w \in Wallet, NEW job, IsJob(job), job # <<>>
  PROVE  \E m \in ToSet(job) : /\ \A l \in ToSet(job) : Remaining(w, l) <= Remaining(w, m)
                               /\ Max({0} \union {Remaining(w, l) : l \in ToSet(job)}) = Remaining(w, m)
<1>. DEFINE R == {Remaining(w, l) : l \in ToSet(job)}
            T == {0} \union R
<1>1. PICK b \in Nat : \A u \in Levels(w, job) : u <= b
  BY LevelsFinite
<1>2. \A l \in ToSet(job) : Remaining(w, l) \in Nat /\ Remaining(w, l) \in 0..b
  <2>. SUFFICES ASSUME NEW l \in ToSet(job) PROVE Remaining(w, l) \in Nat /\ Remaining(w, l) \in 0..b
    OBVIOUS
  <2>1. Remaining(w, l) \in Nat
    BY JobLegs, LegRead
  <2>2. Remaining(w, l) # 0 => Remaining(w, l) <= b
    BY <1>1, LevelsFinite
  <2>. QED
    BY <1>1, <2>1, <2>2
<1>3. R \subseteq 0..b /\ R # {} /\ T \subseteq 0..b /\ T # {}
  <2>1. job \in Seq(JobLeg)
    BY JobLegs
  <2>2. job[1] \in ToSet(job)
    BY <2>1 DEF ToSet
  <2>. QED
    BY <1>1, <1>2, <2>2
<1>4. Max(R) \in R /\ \A u \in R : u <= Max(R)
  <2>. HIDE DEF R, T
  <2>. QED
    BY <1>1, <1>3, Greatest
<1>5. Max(T) \in T /\ \A u \in T : u <= Max(T)
  <2>. HIDE DEF R, T
  <2>. QED
    BY <1>1, <1>3, Greatest
<1>6. PICK m \in ToSet(job) : Remaining(w, m) = Max(R)
  BY <1>4
<1>7. Max(T) = Remaining(w, m)
  <2>1. Remaining(w, m) <= Max(T) /\ Remaining(w, m) \in 0..b /\ Max(T) \in 0..b
    BY <1>2, <1>3, <1>5
  <2>2. Max(T) <= Remaining(w, m)
    BY <1>2, <1>4, <1>5, <1>6
  <2>. QED
    BY <1>1, <2>1, <2>2
<1>. QED
  BY <1>4, <1>6, <1>7

\* The most that netting can free is all the NO but the most one leg has left.
LEMMA BestIs ==
  ASSUME NEW w, NEW job, \A l \in ToSet(job) : l.yid
  PROVE  Best(w, job) = AllNo(w, job) - Max({0} \union {Remaining(w, l) : l \in ToSet(job)})
<1>. DEFINE R == {Remaining(w, l) : l \in ToSet(job)}
            left(l) == w.no[l.id] - Min({w.no[l.id], w.yes[l.id]})
            L == {left(l) : l \in ToSet(job)}
<1>1. \A l \in ToSet(job) : left(l) = Remaining(w, l)
  BY DEF Remaining, Netted, No, Yes
<1>. HIDE DEF left
<1>2. L = R
  BY <1>1
<1>3. Best(w, job) = AllNo(w, job) - Max({0} \union L)
  BY DEF Best, AllNo, left
<1>. HIDE DEF R, L
<1>. QED
  BY <1>2, <1>3 DEF R

\* A job frees the most that netting can.
LEMMA JobFreesTheMost ==
  ASSUME NEW w \in Wallet, NEW job, IsJob(job), \A l \in ToSet(job) : l.cid /\ l.yid
  PROVE  JobProceeds(w, job) = Best(w, job)
<1>. DEFINE V == Reached(TierLevels(w, job), Len(TierLevels(w, job)))
            M == Max({0} \union {Remaining(w, l) : l \in ToSet(job)})
<1>1. JobProceeds(w, job) \in Nat /\ \E z \in Wallet :
        /\ Leads(w, CallsOf(JobCalls(w, job)), z) /\ Finally(z, w, job)
        /\ z.usdce = w.usdce + JobProceeds(w, job)
  <2>1. Fresh(w, w, job)
    BY DEF Fresh
  <2>. QED
    BY <2>1, JobRuns
<1>2. PICK z \in Wallet : /\ Leads(w, CallsOf(JobCalls(w, job)), z) /\ Finally(z, w, job)
                          /\ z.usdce = w.usdce + JobProceeds(w, job)
  BY <1>1
<1>3. Best(w, job) = AllNo(w, job) - M
  BY BestIs
<1>4. w.usdce \in Nat /\ z.usdce \in Nat
  BY DEF Wallet
<1>5. CASE job = <<>>
  <2>1. ToSet(job) = {} /\ DOMAIN job = {}
    BY <1>5 DEF ToSet
  <2>2. AtRest(w, job)
    BY <2>1 DEF AtRest
  <2>3. CallsOf(JobCalls(w, job)) = <<>>
    <3>1. JobCalls(w, job) = <<>>
      BY <2>2, SettledRests
    <3>. QED
      BY <3>1 DEF CallsOf
  <2>4. JobProceeds(w, job) = 0
    <3>1. z = w
      BY <1>2, <2>3, LeadsNowhere
    <3>. QED
      BY <1>1, <1>2, <1>4, <3>1
  <2>5. AllNo(w, job) = 0
    BY <2>1, NoneLeft
  <2>6. M = 0
    <3>1. {0} \union {Remaining(w, l) : l \in ToSet(job)} = {0}
      BY <2>1
    <3>. QED
      BY <3>1 DEF Max
  <2>. QED
    BY <1>3, <2>4, <2>5, <2>6
<1>6. CASE job # <<>>
  <2>1. PICK m \in ToSet(job) : /\ \A l \in ToSet(job) : Remaining(w, l) <= Remaining(w, m)
                                /\ M = Remaining(w, m)
    BY <1>6, MostLeft
  <2>. HIDE DEF M
  <2>. DEFINE r == Remaining(w, m)
  <2>2. \A l \in ToSet(job) : l \in JobLeg /\ l.id \in Leg /\ Remaining(w, l) \in Nat
    BY JobLegs, LegRead
  <2>3. V \in Nat /\ V <= r
    <3>. DEFINE lv == TierLevels(w, job)
    <3>1. V \in Nat
      BY LastIsHighest
    <3>2. lv \in Seq(Nat) /\ \A i \in 1..Len(lv) : lv[i] \in Levels(w, job)
      BY TierLevelsClimb
    <3>3. \A u \in Levels(w, job) : u <= r
      BY <2>1 DEF Levels
    <3>. HIDE DEF lv
    <3>4. Len(lv) # 0 => Len(lv) \in 1..Len(lv)
      BY <3>2
    <3>5. Len(lv) # 0 => lv[Len(lv)] <= r
      BY <3>2, <3>3, <3>4
    <3>6. 0 <= r
      BY <2>2
    <3>. QED
      BY <3>1, <3>5, <3>6 DEF Reached, lv
  <2>4. \A l \in ToSet(job) : WorkedLeg(z, l, Remaining(w, l), V)
    BY <1>2 DEF Finally, Worked
  <2>5. \A l \in ToSet(job) : z.no[l.id] = Left(Remaining(w, l), V)
    BY <2>4 DEF WorkedLeg
  <2>6. \A l \in ToSet(job) : l # m => z.no[l.id] = 0
    <3>. SUFFICES ASSUME NEW l \in ToSet(job), l # m PROVE z.no[l.id] = 0
      OBVIOUS
    <3>1. Remaining(w, l) > V => r > V
      BY <2>1, <2>2, <2>3
    <3>3. \A k, n \in ToSet(job) : Remaining(w, k) > V /\ Remaining(w, n) > V => k = n
      <4>1. V \in Nat /\ \A v \in Worth(w, job) : v <= V
        BY LastIsHighest
      <4>. HIDE DEF V
      <4>. QED
        BY <4>1, OneIsLeft
    <3>. HIDE DEF V
    <3>2. Remaining(w, l) <= V
      BY <2>2, <2>3, <3>1, <3>3
    <3>. QED
      BY <2>5, <3>2 DEF Left
  <2>7. /\ w.no[m.id] \in Nat /\ w.yes[m.id] \in Nat /\ z.no[m.id] \in Nat /\ r \in Nat
        /\ AllNo(w, job) \in Nat
    <3>1. AllNo(w, job) \in Nat
      BY AllNoIsNat
    <3>2. m.id \in Leg /\ r \in Nat
      BY <2>2
    <3>. QED
      BY <3>1, <3>2 DEF Wallet
  <2>8. CASE r # 0
    <3>1. z.yes[m.id] = 0
      <4>1. r >= V /\ r > 0
        BY <2>3, <2>7, <2>8
      <4>. QED
        BY <2>4, <4>1 DEF WorkedLeg
    <3>2. AllNo(z, job) = z.no[m.id]
      BY <2>6, OneHasAll
    <3>3. r = w.no[m.id] - w.yes[m.id]
      <4>1. /\ No(w, m) = w.no[m.id] /\ Yes(w, m) = w.yes[m.id]
            /\ Netted(w, m) = (IF No(w, m) <= Yes(w, m) THEN No(w, m) ELSE Yes(w, m))
            /\ r = No(w, m) - Netted(w, m)
        BY <2>2, LegRead
      <4>. HIDE DEF r
      <4>. QED
        BY <2>7, <2>8, <4>1
    <3>4. Worthy(z, job, m) = Worthy(w, job, m)
      BY <1>2, JobConserves
    <3>. HIDE DEF r
    <3>5. z.usdce + z.no[m.id] + 0 - z.no[m.id] = w.usdce + AllNo(w, job) + w.yes[m.id] - w.no[m.id]
      BY <3>1, <3>2, <3>4 DEF Worthy
    <3>6. JobProceeds(w, job) = AllNo(w, job) - r
      BY <1>1, <1>2, <1>4, <2>7, <3>3, <3>5
    <3>. QED
      BY <1>3, <2>1, <3>6 DEF r
  <2>9. CASE r = 0
    <3>1. Levels(w, job) = {}
      BY <2>1, <2>2, <2>9 DEF Levels
    <3>2. JobCalls(w, job) = AllMerges(Merges(w, job))
      BY <3>1, MergesOnly DEF Worth
    <3>3. CallsOf(JobCalls(w, job)) = Merges(w, job)
      <4>1. Fresh(w, w, job)
        BY DEF Fresh
      <4>2. Merges(w, job) \in Seq(ProperCall)
        BY <4>1, JobMergesRun
      <4>. QED
        BY <3>2, <4>2, CallsOfMerges
    <3>4. z.usdce + AllNo(z, job) = w.usdce + AllNo(w, job)
      BY <1>2, <1>6, <3>3, MergesConserve
    <3>5. AllNo(z, job) = 0
      <4>1. Remaining(w, m) = 0 /\ Left(0, V) = 0
        BY <2>3, <2>9 DEF Left
      <4>2. z.no[m.id] = 0
        BY <2>5, <4>1
      <4>. QED
        BY <2>6, <4>2, NoneLeft
    <3>. QED
      BY <1>1, <1>2, <1>3, <1>4, <2>1, <2>7, <2>9, <3>4, <3>5
  <2>. QED
    BY <2>8, <2>9
<1>. QED
  BY <1>5, <1>6

---------------------------------------------------------------------------
(* The submissions a plan is cut into.                                     *)

Chunks == Seq(Seq(PlannedCall))
\* gas_chunks' loop: p joins the last chunk or opens the next.
Chunked(chunks, p) ==
  IF chunks # <<>> /\ Fits(Last(chunks), p)
  THEN Front(chunks) \o <<Append(Last(chunks), p)>>
  ELSE Append(chunks, <<p>>)

ChunkTrace(f, plan) ==
  /\ f \in [0..Len(plan) -> Chunks] /\ f[0] = <<>> /\ f[Len(plan)] = GasChunks(plan)
  /\ \A i \in 1..Len(plan) : f[i] = Chunked(f[i - 1], plan[i])

\* The last of a list and what is before it.
LEMMA FrontAndLast ==
  ASSUME NEW E, NEW s \in Seq(E), s # <<>>
  PROVE  /\ Front(s) \in Seq(E) /\ Last(s) \in E /\ Len(s) \in Nat \ {0}
         /\ Len(Front(s)) = Len(s) - 1 /\ \A i \in 1..(Len(s) - 1) : Front(s)[i] = s[i]
         /\ Last(s) = s[Len(s)] /\ s = Front(s) \o <<Last(s)>>
<1>1. Len(s) \in Nat /\ Len(s) # 0 /\ Len(s) \in 1..Len(s) /\ DOMAIN s = 1..Len(s)
  OBVIOUS
<1>2. Last(s) \in E /\ Last(s) = s[Len(s)]
  BY <1>1 DEF Last
<1>3. /\ Front(s) \in Seq(E) /\ Len(Front(s)) = Len(s) - 1
      /\ \A i \in 1..(Len(s) - 1) : Front(s)[i] = s[i]
  <2>. DEFINE k == Len(s) - 1
  <2>1. 1 \in Nat \ {0} /\ k \in (1 - 1)..Len(s) /\ k \in Nat
    BY <1>1
  <2>4. Front(s) = SubSeq(s, 1, k)
    BY DEF Front
  <2>. HIDE DEF k
  <2>2. /\ SubSeq(s, 1, k) \in Seq(E) /\ Len(SubSeq(s, 1, k)) = k - 1 + 1
        /\ \A i \in 1..(k - 1 + 1) : SubSeq(s, 1, k)[i] = s[1 + i - 1]
    BY <2>1, PartOf
  <2>3. k - 1 + 1 = k /\ \A i \in 1..k : 1 + i - 1 = i
    BY <2>1
  <2>5. Front(s) \in Seq(E) /\ Len(Front(s)) = k /\ \A i \in 1..k : Front(s)[i] = s[i]
    BY <2>2, <2>3, <2>4
  <2>. QED
    BY <2>5 DEF k
<1>4. s = Front(s) \o <<Last(s)>>
  <2>. DEFINE a == Front(s)
              b == Last(s)
              c == Append(a, b)
  <2>1. /\ a \in Seq(E) /\ b \in E /\ Len(a) = Len(s) - 1 /\ b = s[Len(s)]
        /\ \A i \in 1..(Len(s) - 1) : a[i] = s[i]
    BY <1>2, <1>3
  <2>. HIDE DEF a, b
  <2>2. /\ c \in Seq(E) /\ Len(c) = Len(a) + 1 /\ c[Len(a) + 1] = b
        /\ \A i \in 1..Len(a) : c[i] = a[i]
    BY <2>1, AppendProperties
  <2>6. c = a \o <<b>>
    BY <2>1, AppendIsConcat
  <2>. HIDE DEF c
  <2>3. Len(a) + 1 = Len(s)
    BY <1>1, <2>1
  <2>4. \A i \in 1..Len(s) : c[i] = s[i]
    <3>1. \A n \in Nat : \A i \in 1..n : i = n \/ i \in 1..(n - 1)
      OBVIOUS
    <3>. QED
      BY <1>1, <2>1, <2>2, <2>3, <3>1
  <2>5. Len(c) = Len(s)
    BY <2>2, <2>3
  <2>7. c = s
    BY <2>2, <2>4, <2>5, SeqEqual
  <2>. QED
    BY <2>6, <2>7 DEF a, b
<1>. QED
  BY <1>1, <1>2, <1>3, <1>4

\* What the loop makes of well-formed chunks is well-formed.
LEMMA ChunkedTyped ==
  ASSUME NEW chunks \in Chunks, NEW p \in PlannedCall
  PROVE  Chunked(chunks, p) \in Chunks
<1>1. <<p>> \in Seq(PlannedCall)
  OBVIOUS
<1>2. Append(chunks, <<p>>) \in Chunks
  BY <1>1 DEF Chunks
<1>3. ASSUME chunks # <<>> PROVE Front(chunks) \o <<Append(Last(chunks), p)>> \in Chunks
  <2>1. Front(chunks) \in Chunks /\ Last(chunks) \in Seq(PlannedCall)
    BY <1>3, FrontAndLast DEF Chunks
  <2>2. Append(Last(chunks), p) \in Seq(PlannedCall)
    BY <2>1
  <2>3. <<Append(Last(chunks), p)>> \in Chunks
    BY <2>2 DEF Chunks
  <2>. QED
    BY <2>1, <2>3 DEF Chunks
<1>. QED
  BY <1>2, <1>3 DEF Chunked

\* GasChunks is the loop run over the plan.
LEMMA ChunkSteps ==
  ASSUME NEW plan \in Seq(PlannedCall)
  PROVE  \E f : ChunkTrace(f, plan)
<1>. DEFINE n == Len(plan)
            X == Chunks
            d == [p \in X \X PlannedCall |-> Chunked(p[1], p[2])]
            Body(g) == [t \in SUBSET (DOMAIN plan) |-> IF t = {} THEN <<>>
                          ELSE IF g[t \ {Max(t)}] # <<>> /\ Fits(Last(g[t \ {Max(t)}]), plan[Max(t)])
                               THEN Front(g[t \ {Max(t)}]) \o <<Append(Last(g[t \ {Max(t)}]), plan[Max(t)])>>
                               ELSE Append(g[t \ {Max(t)}], <<plan[Max(t)]>>)]
            h == CHOOSE g : g = Body(g)
<1>1. n \in Nat /\ plan \in [1..n -> PlannedCall] /\ DOMAIN plan = 1..n
  OBVIOUS
<1>14. <<>> \in X
  BY DEF Chunks
<1>2. d \in [X \X PlannedCall -> X]
  BY ChunkedTyped
<1>3. \A t \in SUBSET (1..n) : t # {} => plan[Max(t)] \in PlannedCall
  BY <1>1, MaxExists
<1>4. \A v \in X, x \in PlannedCall : d[<<v, x>>] = Chunked(v, x)
  OBVIOUS
<1>5. PICK g \in [SUBSET (1..n) -> X] : Folding(g, n, plan, <<>>, d)
  <2>. HIDE DEF d, n, Body, h, X
  <2>. QED
    BY <1>1, <1>2, <1>14, FoldExists
<1>6. g = Body(g)
  <2>. HIDE DEF d, X
  <2>. QED
    BY <1>1, <1>3, <1>4, <1>5 DEF Folding, Chunked
<1>7. h = Body(h)
  BY <1>6
<1>8. GasChunks(plan) = h[1..n]
  BY <1>1 DEF GasChunks, FoldLeft, MapThenFoldSet
<1>9. Follows(h, plan, X, <<>>, d)
  <2>. HIDE DEF h, d, X
  <2>. QED
    BY <1>1, <1>3, <1>4, <1>7 DEF Follows, Chunked
<1>13. Foldable(X, PlannedCall, <<>>, plan, d)
  BY <1>1, <1>2, <1>14 DEF Foldable
<1>10. PICK f : Trace(f, X, plan, <<>>, d, h)
  <2>. HIDE DEF h, d, Body, X
  <2>. QED
    BY <1>9, <1>13, FoldTrace
<1>11. \A i \in 1..n : f[i - 1] \in X /\ plan[i] \in PlannedCall
  BY <1>1, <1>10 DEF Trace
<1>12. \A i \in 1..n : f[i] = Chunked(f[i - 1], plan[i])
  <2>. HIDE DEF d, X, h
  <2>. QED
    BY <1>4, <1>10, <1>11 DEF Trace
<1>. QED
  <2>. HIDE DEF h, d
  <2>. QED
    BY <1>8, <1>10, <1>12 DEF Trace, ChunkTrace

\* A call more weighs its gas more.
LEMMA GasOfMore ==
  ASSUME NEW chunk \in Seq(PlannedCall), NEW p \in PlannedCall
  PROVE  /\ Append(chunk, p) \in Seq(PlannedCall) /\ Len(Append(chunk, p)) = Len(chunk) + 1
         /\ Gas(chunk) \in Nat /\ Gas(Append(chunk, p)) = Gas(chunk) + p.gas /\ p.gas \in Nat
<1>. DEFINE more == Append(chunk, p)
            v == [i \in DOMAIN chunk |-> chunk[i].gas]
            u == [i \in DOMAIN more |-> more[i].gas]
<1>1. more \in Seq(PlannedCall) /\ Len(more) = Len(chunk) + 1
      /\ more[Len(chunk) + 1] = p /\ \A i \in 1..Len(chunk) : more[i] = chunk[i]
  OBVIOUS
<1>2. p.gas \in Nat /\ \A i \in 1..Len(chunk) : chunk[i].gas \in Nat
  <2>1. \A i \in 1..Len(chunk) : chunk[i] \in PlannedCall
    OBVIOUS
  <2>2. \A c \in PlannedCall : c.gas \in Nat
    BY DEF PlannedCall
  <2>. QED
    BY <2>1, <2>2
<1>. HIDE DEF more
<1>3. DOMAIN more = 1..(Len(chunk) + 1) /\ DOMAIN chunk = 1..Len(chunk) /\ Len(chunk) \in Nat
  BY <1>1
<1>4. v \in Seq(Nat) /\ Len(v) = Len(chunk) /\ \A i \in 1..Len(chunk) : v[i] = chunk[i].gas
  <2>1. v \in [1..Len(chunk) -> Nat]
    BY <1>2, <1>3
  <2>. QED
    BY <1>3, <2>1
<1>5. u = v \o <<p.gas>>
  <2>. DEFINE c == Append(v, p.gas)
  <2>1. /\ u \in Seq(Nat) /\ Len(u) = Len(chunk) + 1 /\ u[Len(chunk) + 1] = p.gas
        /\ \A i \in 1..Len(chunk) : u[i] = chunk[i].gas
    <3>1. \A i \in 1..(Len(chunk) + 1) : i = Len(chunk) + 1 \/ i \in 1..Len(chunk)
      BY <1>3
    <3>2. \A i \in 1..(Len(chunk) + 1) : more[i].gas \in Nat
      BY <1>1, <1>2, <3>1
    <3>3. u \in [1..(Len(chunk) + 1) -> Nat]
      BY <1>3, <3>2
    <3>. QED
      BY <1>1, <1>3, <3>3
  <2>. HIDE DEF u, v
  <2>2. /\ c \in Seq(Nat) /\ Len(c) = Len(v) + 1 /\ c[Len(v) + 1] = p.gas
        /\ \A i \in 1..Len(v) : c[i] = v[i]
    BY <1>2, <1>4, AppendProperties
  <2>3. c = v \o <<p.gas>>
    BY <1>2, <1>4, AppendIsConcat
  <2>. HIDE DEF c
  <2>4. \A i \in 1..(Len(chunk) + 1) : c[i] = u[i]
    <3>1. \A i \in 1..(Len(chunk) + 1) : i = Len(chunk) + 1 \/ i \in 1..Len(chunk)
      BY <1>3
    <3>. QED
      BY <1>4, <2>1, <2>2, <3>1
  <2>5. Len(c) = Len(u)
    BY <1>4, <2>1, <2>2
  <2>6. u = c
    BY <2>1, <2>2, <2>4, <2>5, SeqEqual
  <2>. QED
    BY <2>3, <2>6
<1>. HIDE DEF u, v
<1>6. <<p.gas>> \in Seq(Nat) /\ SumUp(<<p.gas>>) = p.gas
  BY <1>2, SumOfOne
<1>7. SumUp(v \o <<p.gas>>) = SumUp(v) + SumUp(<<p.gas>>) /\ SumUp(v) \in Nat
  BY <1>4, <1>6, SumOfBoth
<1>. QED
  BY <1>1, <1>2, <1>5, <1>6, <1>7 DEF Gas, u, v, more

\* Chunks packed as tight as the caps allow.
Packed(chunks) ==
  \A i \in 1..Len(chunks) :
    /\ chunks[i] # <<>>
    /\ Len(chunks[i]) = 1 \/ WithinBudget(chunks[i])
    /\ i < Len(chunks) => ~WithinBudget(Append(chunks[i], chunks[i + 1][1]))

\* Fits asks whether the chunk is within the caps with the call.
LEMMA FitsIsLight ==
  ASSUME NEW chunk \in Seq(PlannedCall), NEW p \in PlannedCall
  PROVE  Fits(chunk, p) <=> WithinBudget(Append(chunk, p))
<1>1. Max({MaxCalls, 1}) \in Nat
  <2>. DEFINE n == MaxCalls + 1
              t == {MaxCalls, 1}
  <2>1. n \in Nat /\ t \subseteq 0..n /\ t # {}
    BY PlanAssumption
  <2>2. Max(t) \in t
    <3>. HIDE DEF n, t
    <3>. QED
      BY <2>1, Greatest
  <2>. QED
    BY <2>2, PlanAssumption
<1>2. /\ Len(Append(chunk, p)) = Len(chunk) + 1
      /\ Gas(chunk) \in Nat /\ Gas(Append(chunk, p)) = Gas(chunk) + p.gas /\ p.gas \in Nat
  BY GasOfMore
<1>3. Len(chunk) \in Nat
  OBVIOUS
<1>4. Len(chunk) < Max({MaxCalls, 1}) <=> Len(chunk) + 1 <= Max({MaxCalls, 1})
  BY <1>1, <1>3
<1>. QED
  BY <1>2, <1>4 DEF Fits, WithinBudget

\* The loop keeps chunks packed and puts each call after those before it.
LEMMA ChunkedPacks ==
  ASSUME NEW chunks \in Chunks, NEW p \in PlannedCall, Packed(chunks)
  PROVE  /\ Packed(Chunked(chunks, p))
         /\ FlattenSeq(Chunked(chunks, p)) = Append(FlattenSeq(chunks), p)
         /\ FlattenSeq(chunks) \in Seq(PlannedCall)
<1>. DEFINE n == Len(chunks)
<1>1. n \in Nat /\ chunks \in Seq(Seq(PlannedCall)) /\ \A i \in 1..n : chunks[i] \in Seq(PlannedCall)
  BY DEF Chunks
<1>2. FlattenSeq(chunks) \in Seq(PlannedCall)
  BY <1>1, FlattenOfBoth
<1>3. CASE chunks # <<>> /\ Fits(Last(chunks), p)
  <2>. DEFINE front == Front(chunks)
              c == Last(chunks)
              m == Append(c, p)
              new == Append(front, m)
  <2>1. /\ front \in Seq(Seq(PlannedCall)) /\ c \in Seq(PlannedCall) /\ n \in Nat \ {0}
        /\ Len(front) = n - 1 /\ \A i \in 1..(n - 1) : front[i] = chunks[i]
        /\ c = chunks[n] /\ chunks = front \o <<c>>
    BY <1>1, <1>3, FrontAndLast
  <2>2. Chunked(chunks, p) = front \o <<m>>
    BY <1>3 DEF Chunked
  <2>3. WithinBudget(m)
    BY <1>3, <2>1, FitsIsLight
  <2>. HIDE DEF n, front, c
  <2>4. m \in Seq(PlannedCall) /\ m # <<>> /\ (c # <<>> => m[1] = c[1])
    BY <2>1
  <2>5. m = c \o <<p>>
    BY <2>1, AppendIsConcat
  <2>. HIDE DEF m
  <2>6. /\ new \in Seq(Seq(PlannedCall)) /\ Len(new) = n /\ new[n] = m
        /\ \A i \in 1..(n - 1) : new[i] = chunks[i]
    <3>1. /\ new \in Seq(Seq(PlannedCall)) /\ Len(new) = Len(front) + 1 /\ new[Len(front) + 1] = m
          /\ \A i \in 1..Len(front) : new[i] = front[i]
      BY <2>1, <2>4, AppendProperties
    <3>2. Len(front) + 1 = n /\ Len(front) = n - 1
      BY <1>1, <2>1
    <3>. HIDE DEF new
    <3>. QED
      BY <2>1, <3>1, <3>2
  <2>7. new = front \o <<m>>
    BY <2>1, <2>4, AppendIsConcat
  <2>. HIDE DEF new
  <2>8. Packed(new)
    <3>. SUFFICES ASSUME NEW i \in 1..n
                  PROVE  /\ new[i] # <<>>
                         /\ Len(new[i]) = 1 \/ WithinBudget(new[i])
                         /\ i < n => ~WithinBudget(Append(new[i], new[i + 1][1]))
      BY <2>6 DEF Packed
    <3>1. \A j \in 1..n : /\ chunks[j] # <<>>
                          /\ Len(chunks[j]) = 1 \/ WithinBudget(chunks[j])
                          /\ j < n => ~WithinBudget(Append(chunks[j], chunks[j + 1][1]))
      BY DEF Packed, n
    <3>2. CASE i = n
      BY <2>3, <2>4, <2>6, <3>2
    <3>3. CASE i # n
      <4>1. i \in 1..(n - 1) /\ i + 1 \in 1..n
        BY <1>1, <3>3
      <4>2. new[i] = chunks[i]
        BY <2>6, <4>1
      <4>3. new[i + 1][1] = chunks[i + 1][1]
        <5>1. CASE i + 1 = n
          <6>1. c # <<>>
            BY <2>1, <3>1, <4>1, <5>1
          <6>. QED
            BY <2>1, <2>4, <2>6, <5>1, <6>1
        <5>2. CASE i + 1 # n
          <6>1. i + 1 \in 1..(n - 1)
            BY <1>1, <4>1, <5>2
          <6>. QED
            BY <2>6, <6>1
        <5>. QED
          BY <5>1, <5>2
      <4>. QED
        BY <3>1, <4>2, <4>3
    <3>. QED
      BY <3>2, <3>3
  <2>9. FlattenSeq(front \o <<m>>) = Append(FlattenSeq(front \o <<c>>), p)
    <3>1. <<m>> \in Seq(Seq(PlannedCall)) /\ <<c>> \in Seq(Seq(PlannedCall))
      BY <2>1, <2>4
    <3>2. FlattenSeq(<<m>>) = m /\ FlattenSeq(<<c>>) = c
      BY <2>1, <2>4, FlattenOfOne
    <3>3. FlattenSeq(front \o <<m>>) = FlattenSeq(front) \o m
      BY <2>1, <3>1, <3>2, FlattenOfBoth
    <3>4. FlattenSeq(front \o <<c>>) = FlattenSeq(front) \o c
      BY <2>1, <3>1, <3>2, FlattenOfBoth
    <3>5. FlattenSeq(front) \in Seq(PlannedCall)
      BY <2>1, FlattenOfBoth
    <3>. DEFINE a == FlattenSeq(front)
                b == <<p>>
                ac == a \o c
    <3>. HIDE DEF a
    <3>6. a \in Seq(PlannedCall) /\ b \in Seq(PlannedCall) /\ ac \in Seq(PlannedCall)
      BY <2>1, <3>5 DEF a
    <3>7. a \o (c \o b) = (a \o c) \o b
      <4>1. \A x, y, z \in Seq(PlannedCall) : x \o (y \o z) = (x \o y) \o z
        BY Associative
      <4>2. a \in Seq(PlannedCall) /\ b \in Seq(PlannedCall) /\ c \in Seq(PlannedCall)
        BY <2>1, <3>6
      <4>. HIDE DEF b
      <4>. QED
        BY <4>1, <4>2
    <3>8. Append(ac, p) = ac \o b
      <4>. HIDE DEF ac
      <4>. QED
        BY <3>6, AppendIsConcat
    <3>. QED
      BY <2>5, <3>3, <3>4, <3>7, <3>8 DEF a
  <2>. QED
    BY <1>2, <2>1, <2>2, <2>7, <2>8, <2>9
<1>4. CASE ~(chunks # <<>> /\ Fits(Last(chunks), p))
  <2>. DEFINE m == <<p>>
              new == Append(chunks, m)
  <2>1. m \in Seq(PlannedCall) /\ m # <<>> /\ Len(m) = 1 /\ m[1] = p
    OBVIOUS
  <2>2. Chunked(chunks, p) = new
    BY <1>4 DEF Chunked
  <2>3. FlattenSeq(new) = Append(FlattenSeq(chunks), p)
    <3>. DEFINE a == FlattenSeq(chunks)
    <3>1. <<m>> \in Seq(Seq(PlannedCall))
      BY <2>1
    <3>2. new = chunks \o <<m>>
      <4>. HIDE DEF m
      <4>. QED
        BY <1>1, <2>1, AppendIsConcat
    <3>3. FlattenSeq(<<m>>) = m
      <4>. HIDE DEF m
      <4>. QED
        BY <2>1, FlattenOfOne
    <3>4. FlattenSeq(chunks \o <<m>>) = a \o m
      <4>. HIDE DEF m
      <4>. QED
        BY <1>1, <3>1, <3>3, FlattenOfBoth
    <3>5. a \in Seq(PlannedCall)
      BY <1>2
    <3>. HIDE DEF a
    <3>6. Append(a, p) = a \o m
      BY <3>5, AppendIsConcat
    <3>. QED
      BY <3>2, <3>4, <3>6 DEF a
  <2>. HIDE DEF n, m
  <2>4. /\ Len(new) = n + 1 /\ new[n + 1] = m /\ \A i \in 1..n : new[i] = chunks[i]
    BY <1>1, <2>1, AppendProperties DEF n
  <2>5. ASSUME n \in 1..n PROVE ~WithinBudget(Append(chunks[n], p))
    <3>1. chunks # <<>> /\ Last(chunks) = chunks[n]
      BY <1>1, <2>5 DEF n, Last
    <3>2. ~Fits(chunks[n], p)
      BY <1>4, <3>1
    <3>. QED
      BY <1>1, <2>5, <3>2, FitsIsLight
  <2>. HIDE DEF new
  <2>6. Packed(new)
    <3>. SUFFICES ASSUME NEW i \in 1..(n + 1)
                  PROVE  /\ new[i] # <<>>
                         /\ Len(new[i]) = 1 \/ WithinBudget(new[i])
                         /\ i < n + 1 => ~WithinBudget(Append(new[i], new[i + 1][1]))
      BY <2>4 DEF Packed
    <3>1. \A j \in 1..n : /\ chunks[j] # <<>>
                          /\ Len(chunks[j]) = 1 \/ WithinBudget(chunks[j])
                          /\ j < n => ~WithinBudget(Append(chunks[j], chunks[j + 1][1]))
      BY DEF Packed, n
    <3>2. CASE i = n + 1
      BY <1>1, <2>1, <2>4, <3>2
    <3>3. CASE i = n
      <4>1. n \in 1..n
        BY <1>1, <3>3
      <4>2. ~WithinBudget(Append(new[i], new[i + 1][1]))
        BY <2>1, <2>4, <2>5, <3>3, <4>1
      <4>. QED
        BY <2>4, <3>1, <3>3, <4>1, <4>2
    <3>4. CASE i # n /\ i # n + 1
      <4>1. i \in 1..n /\ i + 1 \in 1..n /\ i < n
        BY <1>1, <3>4
      <4>. QED
        BY <2>4, <3>1, <4>1
    <3>. QED
      BY <3>2, <3>3, <3>4
  <2>. QED
    BY <1>2, <2>2, <2>3, <2>6
<1>. QED
  BY <1>3, <1>4

\* A list built by appending the elements of s is s.
LEMMA AppendedIs ==
  ASSUME NEW E, NEW s \in Seq(E), NEW g, g[0] = <<>>, \A i \in 1..Len(s) : g[i] = Append(g[i - 1], s[i])
  PROVE  g[Len(s)] = s
<1>. DEFINE n == Len(s)
            S == {i \in 0..n : g[i] \in Seq(E) /\ Len(g[i]) = i /\ \A j \in 1..i : g[i][j] = s[j]}
<1>1. n \in Nat /\ \A i \in 1..n : s[i] \in E
  OBVIOUS
<1>2. 0 \in S
  <2>1. <<>> \in Seq(E) /\ Len(<<>>) = 0 /\ 0 \in 0..n /\ 1..0 = {}
    BY <1>1
  <2>. QED
    BY <2>1
<1>3. ASSUME NEW i \in 0..(n - 1), i \in S PROVE i + 1 \in S
  <2>1. g[i] \in Seq(E) /\ Len(g[i]) = i /\ \A j \in 1..i : g[i][j] = s[j]
    BY <1>3
  <2>2. i + 1 \in 1..n /\ (i + 1) - 1 = i /\ i + 1 \in 0..n
    BY <1>1
  <2>3. g[i + 1] = Append(g[i], s[i + 1]) /\ s[i + 1] \in E
    BY <1>1, <2>2
  <2>4. /\ g[i + 1] \in Seq(E) /\ Len(g[i + 1]) = i + 1 /\ g[i + 1][i + 1] = s[i + 1]
        /\ \A j \in 1..i : g[i + 1][j] = g[i][j]
    BY <2>1, <2>3, AppendProperties
  <2>5. \A j \in 1..(i + 1) : j \in 1..i \/ j = i + 1
    BY <2>2
  <2>6. \A j \in 1..(i + 1) : g[i + 1][j] = s[j]
    BY <2>1, <2>4, <2>5
  <2>. QED
    BY <2>2, <2>4, <2>6
<1>4. n \in S
  <2>1. \A i \in 0..n : i \in S
    <3>. HIDE DEF S, n
    <3>. QED
      BY <1>1, <1>2, <1>3, UpTo
  <2>. HIDE DEF S
  <2>. QED
    BY <1>1, <2>1
<1>5. g[n] \in Seq(E) /\ Len(g[n]) = n /\ \A j \in 1..n : g[n][j] = s[j]
  BY <1>4
<1>. QED
  BY <1>5, SeqEqual

\* gas_chunks cuts the plan into packed submissions that hold all of it, in
\* its order.
LEMMA ChunksHoldThePlan ==
  ASSUME NEW plan \in Seq(PlannedCall)
  PROVE  /\ GasChunks(plan) \in Chunks /\ Packed(GasChunks(plan))
         /\ FlattenSeq(GasChunks(plan)) = plan
<1>. DEFINE n == Len(plan)
<1>1. PICK f : ChunkTrace(f, plan)
  BY ChunkSteps
<1>2. /\ n \in Nat /\ f[0] = <<>> /\ f[n] = GasChunks(plan)
      /\ \A i \in 0..n : f[i] \in Chunks
      /\ \A i \in 1..n : f[i] = Chunked(f[i - 1], plan[i]) /\ plan[i] \in PlannedCall
  <2>1. /\ f \in [0..n -> Chunks] /\ f[0] = <<>> /\ f[n] = GasChunks(plan)
        /\ \A i \in 1..n : f[i] = Chunked(f[i - 1], plan[i])
    BY <1>1 DEF ChunkTrace
  <2>2. n \in Nat /\ \A i \in 1..n : plan[i] \in PlannedCall
    OBVIOUS
  <2>3. \A i \in 0..n : f[i] \in Chunks
    BY <2>1
  <2>. QED
    BY <2>1, <2>2, <2>3
<1>. HIDE DEF n
<1>. DEFINE S == {i \in 0..n : Packed(f[i])}
<1>3. 0 \in S
  <2>1. Len(<<>>) = 0 /\ 0 \in 0..n
    BY <1>2
  <2>2. Packed(<<>>)
    BY <2>1 DEF Packed
  <2>. QED
    BY <1>2, <2>1, <2>2
<1>4. ASSUME NEW i \in 0..(n - 1), i \in S PROVE i + 1 \in S
  <2>1. i + 1 \in 1..n /\ (i + 1) - 1 = i /\ i + 1 \in 0..n /\ i \in 0..n
    BY <1>2
  <2>2. f[i + 1] = Chunked(f[i], plan[i + 1]) /\ plan[i + 1] \in PlannedCall /\ f[i] \in Chunks
    BY <1>2, <2>1
  <2>3. Packed(f[i])
    BY <1>4
  <2>. QED
    BY <2>1, <2>2, <2>3, ChunkedPacks
<1>5. \A i \in 0..n : i \in S
  <2>. HIDE DEF S
  <2>. QED
    BY <1>2, <1>3, <1>4, UpTo
<1>6. \A i \in 0..n : Packed(f[i])
  BY <1>5
<1>. HIDE DEF S
<1>. DEFINE g == [i \in 0..n |-> FlattenSeq(f[i])]
<1>7. g[0] = <<>>
  BY <1>2, FlattenOfOne
<1>8. ASSUME NEW i \in 1..n PROVE g[i] = Append(g[i - 1], plan[i])
  <2>1. i - 1 \in 0..n /\ i \in 0..n
    BY <1>2
  <2>2. f[i - 1] \in Chunks /\ plan[i] \in PlannedCall /\ Packed(f[i - 1])
    BY <1>2, <1>6, <2>1
  <2>3. FlattenSeq(Chunked(f[i - 1], plan[i])) = Append(FlattenSeq(f[i - 1]), plan[i])
    BY <2>2, ChunkedPacks
  <2>. QED
    BY <1>2, <2>1, <2>3
<1>9. g[n] = FlattenSeq(GasChunks(plan)) /\ n \in 0..n
  BY <1>2
<1>. HIDE DEF g
<1>10. g[n] = plan
  BY <1>7, <1>8, AppendedIs DEF n
<1>. QED
  BY <1>2, <1>6, <1>9, <1>10

---------------------------------------------------------------------------
(* PlanExec.  What is still to run leads from the wallet as it is to where *)
(* the plan ends: that is known when the plan is made, and each call that  *)
(* runs leaves it true of the calls behind it.                             *)

\* A list is its first element and the others.
LEMMA FirstAndOthers ==
  ASSUME NEW E, NEW s \in Seq(E), s # <<>>
  PROVE  /\ Head(s) \in E /\ Tail(s) \in Seq(E) /\ s = <<Head(s)>> \o Tail(s)
         /\ Len(Tail(s)) = Len(s) - 1 /\ Len(s) \in Nat \ {0}
         /\ \A i \in 1..(Len(s) - 1) : Tail(s)[i] = s[i + 1]
<1>1. /\ Head(s) \in E /\ Tail(s) \in Seq(E) /\ Len(Tail(s)) = Len(s) - 1 /\ Len(s) \in Nat \ {0}
      /\ \A i \in 1..(Len(s) - 1) : Tail(s)[i] = s[i + 1]
      /\ Head(s) = s[1]
  OBVIOUS
<1>2. s = <<Head(s)>> \o Tail(s)
  <2>. DEFINE h == <<Head(s)>>
              t == Tail(s)
  <2>1. /\ h \in Seq(E) /\ t \in Seq(E) /\ Len(h) = 1 /\ h[1] = s[1]
        /\ Len(t) = Len(s) - 1 /\ \A i \in 1..(Len(s) - 1) : t[i] = s[i + 1]
    BY <1>1
  <2>. HIDE DEF h, t
  <2>2. /\ (h \o t) \in Seq(E)
        /\ Len(h \o t) = Len(h) + Len(t)
        /\ \A i \in 1..Len(h) + Len(t) : (h \o t)[i] = IF i <= Len(h) THEN h[i] ELSE t[i - Len(h)]
    <3>1. \A x, y \in Seq(E) :
            /\ (x \o y) \in Seq(E) /\ Len(x \o y) = Len(x) + Len(y)
            /\ \A i \in 1..Len(x) + Len(y) : (x \o y)[i] = IF i <= Len(x) THEN x[i] ELSE y[i - Len(x)]
      BY ConcatProperties
    <3>. QED
      BY <2>1, <3>1
  <2>. DEFINE c == h \o t
  <2>. HIDE DEF c
  <2>3. /\ c \in Seq(E) /\ Len(c) = Len(s)
        /\ \A i \in 1..Len(s) : c[i] = IF i <= 1 THEN h[i] ELSE t[i - 1]
    BY <1>1, <2>1, <2>2 DEF c
  <2>4. \A i \in 1..Len(s) : c[i] = s[i]
    <3>. SUFFICES ASSUME NEW i \in 1..Len(s) PROVE c[i] = s[i]
      OBVIOUS
    <3>1. CASE i = 1
      BY <2>1, <2>3, <3>1
    <3>2. CASE i # 1
      <4>1. ~(i <= 1) /\ i - 1 \in 1..(Len(s) - 1) /\ (i - 1) + 1 = i
        BY <1>1, <3>2
      <4>. QED
        BY <2>1, <2>3, <4>1
    <3>. QED
      BY <3>1, <3>2
  <2>5. c = s
    BY <2>3, <2>4, SeqEqual
  <2>. QED
    BY <2>5 DEF c, h, t
<1>. QED
  BY <1>1, <1>2

\* The first element of two lists put together is the first one's.
LEMMA FirstOfBoth ==
  ASSUME NEW E, NEW s \in Seq(E), NEW t \in Seq(E), s # <<>>
  PROVE  Head(s \o t) = Head(s) /\ Tail(s \o t) = Tail(s) \o t /\ s \o t # <<>>
<1>1. s \o t = <<Head(s)>> \o (Tail(s) \o t)
  <2>. DEFINE h == <<Head(s)>>
              r == Tail(s)
  <2>1. h \in Seq(E) /\ r \in Seq(E) /\ s = h \o r
    BY FirstAndOthers
  <2>2. \A x, y, z \in Seq(E) : x \o (y \o z) = (x \o y) \o z
    BY Associative, SMTT(30)
  <2>. HIDE DEF h, r
  <2>3. h \o (r \o t) = (h \o r) \o t
    BY <2>1, <2>2
  <2>. QED
    BY <2>1, <2>3 DEF h, r
<1>2. Head(s) \in E /\ Tail(s) \o t \in Seq(E)
  BY FirstAndOthers
<1>3. ASSUME NEW x \in E, NEW r \in Seq(E)
      PROVE  Head(<<x>> \o r) = x /\ Tail(<<x>> \o r) = r /\ <<x>> \o r # <<>>
  <2>. DEFINE c == <<x>> \o r
  <2>1. /\ c \in Seq(E) /\ Len(c) = Len(r) + 1 /\ c[1] = x
        /\ \A i \in 1..Len(r) : c[i + 1] = r[i]
    OBVIOUS
  <2>. HIDE DEF c
  <2>2. c # <<>> /\ Head(c) = x /\ Tail(c) \in Seq(E) /\ Len(Tail(c)) = Len(r)
        /\ \A i \in 1..Len(r) : Tail(c)[i] = r[i]
    BY <2>1
  <2>3. Tail(c) = r
    BY <2>2, SeqEqual
  <2>. QED
    BY <2>2, <2>3 DEF c
<1>. DEFINE u == Tail(s) \o t
<1>4. u \in Seq(E) /\ s \o t = <<Head(s)>> \o u
  BY <1>1, <1>2
<1>. HIDE DEF u
<1>5. Head(<<Head(s)>> \o u) = Head(s) /\ Tail(<<Head(s)>> \o u) = u /\ <<Head(s)>> \o u # <<>>
  BY <1>2, <1>3, <1>4
<1>. QED
  BY <1>4, <1>5 DEF u

Rest == batch \o CallsOf(FlattenSeq(due))

PlanInv ==
  /\ jobs \in JobLists /\ snap \in Snapshots /\ held \in Wallet /\ planned \in BOOLEAN
  /\ due \in Chunks /\ batch \in Seq(ProperCall) /\ Packed(due)
  /\ ~planned => held = snap /\ due = <<>> /\ batch = <<>>
  /\ planned => \E z \in Wallet : Leads(held, Rest, z) /\ Done(z, snap, jobs)

\* The plan made from the snapshot leads to its end.
LEMMA PlanKeeps == PlanInv /\ Plan => PlanInv'
<1>. SUFFICES ASSUME PlanInv, Plan PROVE PlanInv'
  OBVIOUS
<1>. DEFINE plan == PlanCalls(snap, jobs)
<1>1. /\ jobs' = jobs /\ snap' = snap /\ held' = held /\ planned' /\ batch' = batch
      /\ due' = GasChunks(plan) /\ held = snap /\ batch = <<>>
  BY DEF Plan, PlanInv
<1>2. snap \in Wallet /\ IsJobList(jobs)
  BY ExecAssumption DEF PlanInv
<1>3. plan \in Seq(PlannedCall) /\ \E z \in Wallet : Leads(snap, CallsOf(plan), z) /\ Done(z, snap, jobs)
  BY <1>2, PlanRuns
<1>. HIDE DEF plan
<1>4. GasChunks(plan) \in Chunks /\ Packed(GasChunks(plan)) /\ FlattenSeq(GasChunks(plan)) = plan
  BY <1>3, ChunksHoldThePlan
<1>5. Rest' = CallsOf(plan)
  <2>1. Rest' = <<>> \o CallsOf(plan)
    BY <1>1, <1>4 DEF Rest
  <2>2. CallsOf(plan) \in Seq(ProperCall)
    BY <1>3, CallsOfBoth
  <2>. QED
    BY <2>1, <2>2, ConcatEmptySeq
<1>. QED
  BY <1>1, <1>3, <1>4, <1>5 DEF PlanInv

\* Starting a submission moves its calls to the front.
LEMMA SubmitKeeps == PlanInv /\ Submit => PlanInv'
<1>. SUFFICES ASSUME PlanInv, Submit PROVE PlanInv'
  OBVIOUS
<1>1. /\ jobs' = jobs /\ snap' = snap /\ held' = held /\ planned' = planned /\ batch = <<>>
      /\ due # <<>> /\ batch' = CallsOf(Head(due)) /\ due' = Tail(due) /\ planned
  BY DEF Submit, PlanInv
<1>2. due \in Seq(Seq(PlannedCall))
  BY DEF PlanInv, Chunks
<1>3. /\ Head(due) \in Seq(PlannedCall) /\ Tail(due) \in Seq(Seq(PlannedCall)) /\ due = <<Head(due)>> \o Tail(due)
      /\ Len(Tail(due)) = Len(due) - 1 /\ Len(due) \in Nat \ {0}
      /\ \A i \in 1..(Len(due) - 1) : Tail(due)[i] = due[i + 1]
  BY <1>1, <1>2, FirstAndOthers
<1>. DEFINE h == Head(due)
            t == Tail(due)
            rest == FlattenSeq(t)
<1>4. FlattenSeq(due) = h \o rest /\ rest \in Seq(PlannedCall)
  <2>1. <<h>> \in Seq(Seq(PlannedCall)) /\ FlattenSeq(<<h>>) = h
    BY <1>3, FlattenOfOne
  <2>2. FlattenSeq(<<h>> \o t) = FlattenSeq(<<h>>) \o FlattenSeq(t) /\ FlattenSeq(t) \in Seq(PlannedCall)
    <3>. DEFINE a == <<h>>
    <3>1. a \in Seq(Seq(PlannedCall)) /\ t \in Seq(Seq(PlannedCall))
      BY <1>3, <2>1
    <3>. HIDE DEF a, t
    <3>. QED
      BY <3>1, FlattenOfBoth DEF a
  <2>. QED
    BY <1>3, <2>1, <2>2
<1>5. Rest' = Rest /\ CallsOf(h) \in Seq(ProperCall)
  <2>1. h \in Seq(PlannedCall)
    BY <1>3
  <2>. HIDE DEF h, rest
  <2>2. CallsOf(h \o rest) = CallsOf(h) \o CallsOf(rest) /\ CallsOf(h) \in Seq(ProperCall)
        /\ CallsOf(rest) \in Seq(ProperCall)
    BY <1>4, <2>1, CallsOfBoth
  <2>3. Rest' = CallsOf(h) \o CallsOf(rest)
    BY <1>1 DEF Rest, h, rest
  <2>4. Rest = <<>> \o (CallsOf(h) \o CallsOf(rest))
    BY <1>1, <1>4, <2>2 DEF Rest
  <2>5. CallsOf(h) \o CallsOf(rest) \in Seq(ProperCall)
    <3>. DEFINE a == CallsOf(h)
                b == CallsOf(rest)
    <3>. HIDE DEF a, b
    <3>. QED
      BY <2>2 DEF a, b
  <2>. DEFINE c == CallsOf(h) \o CallsOf(rest)
  <2>6. <<>> \o c = c
    <3>. HIDE DEF c
    <3>. QED
      BY <2>5, ConcatEmptySeq DEF c
  <2>. QED
    BY <2>2, <2>3, <2>4, <2>6
<1>6. Packed(t)
  <2>1. \A i \in 1..Len(due) :
          /\ due[i] # <<>>
          /\ Len(due[i]) = 1 \/ WithinBudget(due[i])
          /\ i < Len(due) => ~WithinBudget(Append(due[i], due[i + 1][1]))
    BY DEF PlanInv, Packed
  <2>. HIDE DEF t
  <2>. SUFFICES ASSUME NEW i \in 1..Len(t)
                PROVE  /\ t[i] # <<>>
                       /\ Len(t[i]) = 1 \/ WithinBudget(t[i])
                       /\ i < Len(t) => ~WithinBudget(Append(t[i], t[i + 1][1]))
    BY DEF Packed
  <2>2. /\ i + 1 \in 1..Len(due) /\ t[i] = due[i + 1]
        /\ i < Len(t) => i + 1 < Len(due) /\ t[i + 1] = due[(i + 1) + 1]
    <3>1. Len(t) = Len(due) - 1 /\ \A j \in 1..(Len(due) - 1) : t[j] = due[j + 1]
      BY <1>3 DEF t
    <3>2. i + 1 \in 1..Len(due) /\ i \in 1..(Len(due) - 1)
          /\ (i < Len(t) => i + 1 < Len(due) /\ i + 1 \in 1..(Len(due) - 1))
      BY <1>3, <3>1
    <3>. QED
      BY <3>1, <3>2
  <2>. QED
    BY <2>1, <2>2
<1>7. PICK z \in Wallet : Leads(held, Rest, z) /\ Done(z, snap, jobs)
  BY <1>1 DEF PlanInv
<1>8. batch' \in Seq(ProperCall) /\ due' \in Chunks /\ Packed(due')
  BY <1>1, <1>3, <1>5, <1>6 DEF Chunks
<1>. QED
  BY <1>1, <1>5, <1>7, <1>8 DEF PlanInv

\* The next call is valid, and those behind it still lead to the end.
LEMMA NextCall ==
  ASSUME PlanInv, batch # <<>>
  PROVE  /\ CallValid(held, Head(batch)) /\ planned /\ Tail(batch) \in Seq(ProperCall)
         /\ Head(batch) \in ProperCall
         /\ \E z \in Wallet : /\ Leads(ApplyCall(held, Head(batch)), Tail(batch) \o CallsOf(FlattenSeq(due)), z)
                              /\ Done(z, snap, jobs)
<1>. DEFINE r == CallsOf(FlattenSeq(due))
<1>1. planned /\ batch \in Seq(ProperCall) /\ due \in Seq(Seq(PlannedCall))
  BY DEF PlanInv, Chunks
<1>2. PICK z \in Wallet : Leads(held, Rest, z) /\ Done(z, snap, jobs)
  BY <1>1 DEF PlanInv
<1>3. r \in Seq(ProperCall)
  <2>1. FlattenSeq(due) \in Seq(PlannedCall)
    BY <1>1, FlattenOfBoth
  <2>. QED
    BY <2>1, CallsOfBoth
<1>4. Rest = batch \o r
  BY DEF Rest
<1>. HIDE DEF r
<1>5. /\ Head(batch \o r) = Head(batch) /\ Tail(batch \o r) = Tail(batch) \o r /\ batch \o r # <<>>
      /\ batch \o r \in Seq(ProperCall)
  <2>1. batch \o r \in Seq(ProperCall)
    BY <1>1, <1>3
  <2>. QED
    BY <1>1, <1>3, <2>1, FirstOfBoth
<1>6. CallValid(held, Head(Rest)) /\ Leads(ApplyCall(held, Head(Rest)), Tail(Rest), z)
  <2>1. Rest \in Seq(ProperCall) /\ Rest # <<>>
    BY <1>4, <1>5
  <2>. QED
    BY <1>2, <2>1, LeadsFirst
<1>7. Head(batch) \in ProperCall /\ Tail(batch) \in Seq(ProperCall)
  BY <1>1, FirstAndOthers
<1>. QED
  BY <1>1, <1>2, <1>4, <1>5, <1>6, <1>7 DEF r

\* A call that runs leaves the others leading to the end.
LEMMA ExecuteKeeps == PlanInv /\ Execute => PlanInv'
<1>. SUFFICES ASSUME PlanInv, Execute PROVE PlanInv'
  OBVIOUS
<1>1. /\ jobs' = jobs /\ snap' = snap /\ planned' = planned /\ due' = due /\ batch # <<>>
      /\ held' = ApplyCall(held, Head(batch)) /\ batch' = Tail(batch)
  BY DEF Execute
<1>2. /\ CallValid(held, Head(batch)) /\ planned /\ Tail(batch) \in Seq(ProperCall)
      /\ Head(batch) \in ProperCall
      /\ \E z \in Wallet : /\ Leads(ApplyCall(held, Head(batch)), Tail(batch) \o CallsOf(FlattenSeq(due)), z)
                           /\ Done(z, snap, jobs)
  BY <1>1, NextCall
<1>3. held' \in Wallet
  <2>1. held \in Wallet
    BY DEF PlanInv
  <2>. QED
    BY <1>1, <1>2, <2>1, ApplyTyped
<1>4. Rest' = Tail(batch) \o CallsOf(FlattenSeq(due))
  BY <1>1 DEF Rest
<1>5. \E z \in Wallet : Leads(held', Rest', z) /\ Done(z, snap', jobs')
  BY <1>1, <1>2, <1>4
<1>6. planned' /\ due' \in Chunks /\ Packed(due') /\ batch' \in Seq(ProperCall)
      /\ jobs' \in JobLists /\ snap' \in Snapshots /\ planned' \in BOOLEAN
  BY <1>1, <1>2 DEF PlanInv
<1>. QED
  BY <1>3, <1>5, <1>6 DEF PlanInv

\* Whatever snapshot a plan is made from, what is left of it leads to its end.
THEOREM PlanInvariant == PlanSpec => []PlanInv
<1>1. PlanInit => PlanInv
  <2>1. <<>> \in Chunks /\ <<>> \in Seq(ProperCall) /\ Packed(<<>>)
    BY DEF Chunks, Packed
  <2>. QED
    BY <2>1, ExecAssumption DEF PlanInit, PlanInv
<1>2. PlanInv /\ UNCHANGED planVars => PlanInv'
  BY DEF planVars, PlanInv, Rest
<1>3. PlanInv /\ [PlanNext]_planVars => PlanInv'
  BY <1>2, PlanKeeps, SubmitKeeps, ExecuteKeeps DEF PlanNext
<1>. QED
  BY <1>1, <1>3, PTL DEF PlanSpec

\* At every point of every submission the next call burns no more than the
\* wallet holds by then: no submission reverts (plan_calls' order).
THEOREM EveryCallRunsAlways == PlanSpec => []EveryCallRuns
<1>1. PlanInv => EveryCallRuns
  BY NextCall DEF EveryCallRuns
<1>. QED
  BY <1>1, PlanInvariant, PTL

\* Once all has run, the wallet stands where the plan ends.
LEMMA FinishedIsDone ==
  ASSUME PlanInv, Finished
  PROVE  Done(held, snap, jobs) /\ held \in Wallet /\ snap \in Wallet /\ IsJobList(jobs)
<1>1. planned /\ due = <<>> /\ batch = <<>> /\ held \in Wallet
  BY DEF Finished, PlanInv
<1>2. PICK z \in Wallet : Leads(held, Rest, z) /\ Done(z, snap, jobs)
  BY <1>1 DEF PlanInv
<1>3. Rest = <<>>
  <2>1. FlattenSeq(<<>>) = <<>> /\ CallsOf(<<>>) = <<>> /\ <<>> \o <<>> = <<>>
    BY FlattenOfOne DEF CallsOf
  <2>. QED
    BY <1>1, <2>1 DEF Rest
<1>4. z = held
  BY <1>1, <1>2, <1>3, LeadsNowhere
<1>. QED
  BY <1>1, <1>2, <1>4, ExecAssumption DEF PlanInv

\* The USDC.e a plan frees is the sum it announced from the snapshot
\* (EventPlan.proceeds).
THEOREM ProceedsAlwaysExact == PlanSpec => []ProceedsExact
<1>1. PlanInv => ProceedsExact
  BY FinishedIsDone DEF ProceedsExact, Done
<1>. QED
  BY <1>1, PlanInvariant, PTL

\* One pass is the fixpoint of read -> convert -> re-read (plan_tiers).
THEOREM OnePassAlwaysSuffices == PlanSpec => []OnePassSuffices
<1>1. PlanInv => OnePassSuffices
  <2>. SUFFICES ASSUME PlanInv, Finished, \A l \in Legs(jobs) : l.cid \/ l.yid
                PROVE  PlanCalls(held, jobs) = <<>>
    BY DEF OnePassSuffices
  <2>1. Done(held, snap, jobs) /\ held \in Wallet /\ snap \in Wallet /\ IsJobList(jobs)
    BY FinishedIsDone
  <2>2. DOMAIN jobs = 1..Len(jobs)
    BY <2>1, JobList
  <2>3. \A i \in 1..Len(jobs) : \A l \in ToSet(jobs[i]) : l.cid \/ l.yid
    BY <2>2 DEF Legs
  <2>. QED
    BY <2>1, <2>3, PlanSettles DEF Done
<1>. QED
  BY <1>1, PlanInvariant, PTL

\* The tiers free all that netting can free, truncated or not: per event the
\* YES+NO pairs and every remaining NO but the largest (plan_tiers).
THEOREM FreesTheMostAlways == PlanSpec => []FreesTheMost
<1>1. PlanInv => FreesTheMost
  <2>. SUFFICES ASSUME PlanInv, Finished, AllMergeable
                PROVE  held.usdce = snap.usdce + SumUp([i \in DOMAIN jobs |-> Best(snap, jobs[i])])
    BY DEF FreesTheMost
  <2>1. Done(held, snap, jobs) /\ snap \in Wallet /\ IsJobList(jobs)
    BY FinishedIsDone
  <2>2. DOMAIN jobs = 1..Len(jobs) /\ \A i \in 1..Len(jobs) : IsJob(jobs[i])
    BY <2>1, JobList
  <2>3. \A i \in DOMAIN jobs : JobProceeds(snap, jobs[i]) = Best(snap, jobs[i])
    <3>. SUFFICES ASSUME NEW i \in DOMAIN jobs PROVE JobProceeds(snap, jobs[i]) = Best(snap, jobs[i])
      OBVIOUS
    <3>1. IsJob(jobs[i]) /\ \A l \in ToSet(jobs[i]) : l.cid /\ l.yid
      BY <2>2 DEF AllMergeable, Legs
    <3>. QED
      BY <2>1, <3>1, JobFreesTheMost
  <2>4. Proceeds(snap, jobs) = SumUp([i \in DOMAIN jobs |-> Best(snap, jobs[i])])
    <3>1. [i \in DOMAIN jobs |-> JobProceeds(snap, jobs[i])] = [i \in DOMAIN jobs |-> Best(snap, jobs[i])]
      BY <2>3
    <3>. QED
      BY <3>1 DEF Proceeds
  <2>. QED
    BY <2>1, <2>4 DEF Done
<1>. QED
  BY <1>1, PlanInvariant, PTL

\* Every submission keeps to the caps unless it is one call, and none could
\* have taken the next one's first call (gas_chunks).
THEOREM ChunksAlwaysPacked == PlanSpec => []ChunksPackGreedily
<1>1. PlanInv => ChunksPackGreedily
  <2>1. PlanInv => DOMAIN due = 1..Len(due)
    BY DEF PlanInv, Chunks
  <2>. QED
    BY <2>1 DEF PlanInv, Packed, ChunksPackGreedily
<1>. QED
  BY <1>1, PlanInvariant, PTL
=============================================================================
