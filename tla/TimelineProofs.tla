--------------------------- MODULE TimelineProofs ---------------------------
(* Proofs about the timeline and the stores below it, for every archive, every *)
(* limit and every session: frames are kept on their way from memory through   *)
(* the archive to a reader or an export, and a cursor at rest in the past is   *)
(* served what there is of it.                                                 *)
EXTENDS Timeline, FiniteSetTheorems, NaturalsInduction, WellFoundedInduction, TLAPS

----------------------------------------------------------------------------
(* Numbers, bounds and sequences.                                             *)

\* A set of numbers with a member has a least one.
LEMMA LeastNat ==
  ASSUME NEW T \in SUBSET Nat, T # {}
  PROVE  \E x \in T : \A y \in T : x <= y
<1>1. IsWellFoundedOn(OpToRel(<, Nat), Nat)
  BY NatLessThanWellFounded, Zenon
<1>2. PICK x \in T : \A y \in T : ~(<<y, x>> \in OpToRel(<, Nat))
  BY <1>1, WFMin, Zenon
<1>3. \A y \in T : ~(y < x)
  BY <1>2 DEF OpToRel
<1> QED BY <1>3

\* A fact that holds at 0 and passes on from each number to the next holds up to n.
LEMMA Induct ==
  ASSUME NEW n \in Nat, NEW P, 0 \in P, \A i \in 1 .. n : i - 1 \in P => i \in P
  PROVE  \A i \in 0 .. n : i \in P
<1> DEFINE T == {i \in 0 .. n : i \notin P}
<1> SUFFICES ASSUME T # {} PROVE FALSE
  OBVIOUS
<1>0. T \in SUBSET Nat
  OBVIOUS
<1>1. PICK x \in T : \A y \in T : x <= y
  <2> HIDE DEF T
  <2> QED BY <1>0, LeastNat
<1>2. x \in 1 .. n /\ x - 1 \in 0 .. n /\ ~(x <= x - 1)
  OBVIOUS
<1> QED BY <1>1, <1>2

\* A bounded set of numbers that is not empty has a first and a last.
LEMMA Bounded ==
  ASSUME NEW m \in Nat, NEW T \in SUBSET (0 .. m), T # {}
  PROVE  /\ Min(T) \in T /\ \A x \in T : Min(T) <= x
         /\ Max(T) \in T /\ \A x \in T : x <= Max(T)
<1>1. \E x \in T : \A y \in T : x <= y
  <2>1. T \in SUBSET Nat
    OBVIOUS
  <2> QED BY <2>1, LeastNat
<1>2. Min(T) \in T /\ \A x \in T : Min(T) <= x
  BY <1>1 DEF Min
<1> DEFINE R == {m - x : x \in T}
<1>3. R \in SUBSET Nat /\ R # {}
  <2>1. \A x \in T : m - x \in Nat
    OBVIOUS
  <2>2. \E x \in T : m - x \in R
    OBVIOUS
  <2> QED BY <2>1, <2>2
<1>4. PICK r \in R : \A y \in R : r <= y
  <2> HIDE DEF R
  <2> QED BY <1>3, LeastNat
<1>5. PICK x \in T : r = m - x
  BY <1>4
<1>6. \A y \in T : x >= y
  <2> TAKE y \in T
  <2>1. m - y \in R
    OBVIOUS
  <2>2. m - x <= m - y
    BY <1>4, <1>5, <2>1
  <2> QED BY <2>2
<1>7. Max(T) \in T /\ \A y \in T : Max(T) >= y
  BY <1>6 DEF Max
<1>8. \A y \in T : y <= Max(T)
  BY <1>7
<1> QED BY <1>2, <1>7, <1>8

\* The larger and the smaller of two.
LEMMA OfTwo ==
  ASSUME NEW x \in Int, NEW y \in Int
  PROVE  /\ Max({x, y}) \in {x, y} /\ Max({x, y}) >= x /\ Max({x, y}) >= y
         /\ Min({x, y}) \in {x, y} /\ Min({x, y}) <= x /\ Min({x, y}) <= y
BY DEF Max, Min

\* What is in a sequence that has been put together, cut, or typed.
LEMMA Joined ==
  ASSUME NEW S, NEW s \in Seq(S), NEW u \in Seq(S)
  PROVE  s \o u \in Seq(S) /\ ToSet(s \o u) = ToSet(s) \union ToSet(u)
<1>1. s \o u \in Seq(S) /\ Len(s \o u) = Len(s) + Len(u) /\ DOMAIN s = 1 .. Len(s) /\ DOMAIN u = 1 .. Len(u)
      /\ DOMAIN (s \o u) = 1 .. Len(s) + Len(u)
  OBVIOUS
<1>2. \A i \in 1 .. Len(s) + Len(u) : (s \o u)[i] = IF i <= Len(s) THEN s[i] ELSE u[i - Len(s)]
  OBVIOUS
<1>3. ToSet(s) \union ToSet(u) \subseteq ToSet(s \o u)
  <2>1. ASSUME NEW i \in 1 .. Len(s) PROVE s[i] \in ToSet(s \o u)
    BY <1>1, <1>2 DEF ToSet
  <2>2. ASSUME NEW i \in 1 .. Len(u) PROVE u[i] \in ToSet(s \o u)
    <3>1. Len(s) + i \in 1 .. Len(s) + Len(u) /\ (s \o u)[Len(s) + i] = u[i]
      BY <1>1, <1>2
    <3> QED BY <1>1, <3>1 DEF ToSet
  <2> QED BY <1>1, <2>1, <2>2 DEF ToSet
<1>4. ToSet(s \o u) \subseteq ToSet(s) \union ToSet(u)
  <2>1. ASSUME NEW i \in 1 .. Len(s) + Len(u) PROVE (s \o u)[i] \in ToSet(s) \union ToSet(u)
    <3>1. CASE i <= Len(s)
      BY <1>1, <1>2, <3>1 DEF ToSet
    <3>2. CASE ~(i <= Len(s))
      <4>1. i - Len(s) \in 1 .. Len(u)
        BY <3>2
      <4> QED BY <1>1, <1>2, <3>2, <4>1 DEF ToSet
    <3> QED BY <3>1, <3>2
  <2> QED BY <1>1, <2>1 DEF ToSet
<1> QED BY <1>1, <1>3, <1>4

LEMMA CutInTwo ==
  ASSUME NEW S, NEW s \in Seq(S), NEW k \in 0 .. Len(s)
  PROVE  /\ SubSeq(s, 1, k) \in Seq(S) /\ SubSeq(s, k + 1, Len(s)) \in Seq(S)
         /\ Len(SubSeq(s, 1, k)) = k /\ Len(SubSeq(s, k + 1, Len(s))) = Len(s) - k
         /\ \A i \in 1 .. Len(s) - k : SubSeq(s, k + 1, Len(s))[i] = s[k + i]
         /\ ToSet(SubSeq(s, 1, k)) \union ToSet(SubSeq(s, k + 1, Len(s))) = ToSet(s)
<1> DEFINE a == SubSeq(s, 1, k)
           b == SubSeq(s, k + 1, Len(s))
<1>1. a \in Seq(S) /\ Len(a) = k /\ DOMAIN a = 1 .. k /\ \A i \in 1 .. k : a[i] = s[i]
  OBVIOUS
<1>2. b \in Seq(S) /\ Len(b) = Len(s) - k /\ DOMAIN b = 1 .. Len(s) - k
      /\ \A i \in 1 .. Len(s) - k : b[i] = s[k + i]
  OBVIOUS
<1>3. DOMAIN s = 1 .. Len(s)
  OBVIOUS
<1> HIDE DEF a, b
<1>4. ToSet(a) \union ToSet(b) \subseteq ToSet(s)
  <2>1. \A i \in 1 .. k : i \in 1 .. Len(s)
    OBVIOUS
  <2>2. \A i \in 1 .. Len(s) - k : k + i \in 1 .. Len(s)
    OBVIOUS
  <2>3. \A i \in DOMAIN a : \E j \in DOMAIN s : a[i] = s[j]
    BY <1>1, <1>3, <2>1
  <2>4. \A i \in DOMAIN b : \E j \in DOMAIN s : b[i] = s[j]
    BY <1>2, <1>3, <2>2
  <2> QED BY <2>3, <2>4 DEF ToSet
<1>5. ASSUME NEW i \in 1 .. Len(s) PROVE s[i] \in ToSet(a) \union ToSet(b)
  <2>0. k \in Nat /\ Len(s) \in Nat
    OBVIOUS
  <2>1. CASE i <= k
    BY <1>1, <2>1 DEF ToSet
  <2>2. CASE ~(i <= k)
    <3>1. i - k \in 1 .. Len(s) - k /\ k + (i - k) = i
      BY <2>0, <2>2
    <3>2. b[i - k] = s[i] /\ i - k \in DOMAIN b
      BY <1>2, <3>1
    <3> QED BY <3>2 DEF ToSet
  <2> QED BY <2>1, <2>2
<1> QED BY <1>1, <1>2, <1>3, <1>4, <1>5 DEF ToSet, a, b

LEMMA InSeq ==
  ASSUME NEW S, NEW s \in Seq(S)
  PROVE  ToSet(s) \subseteq S /\ IsFiniteSet(ToSet(s)) /\ (s # <<>> => ToSet(s) # {})
<1>1. s \in [1 .. Len(s) -> S] /\ Len(s) \in Nat /\ DOMAIN s = 1 .. Len(s)
  OBVIOUS
<1>2. ToSet(s) \subseteq S
  BY <1>1 DEF ToSet
<1>3. IsFiniteSet(1 .. Len(s))
  BY <1>1, FS_Interval
<1>4. s \in Surjection(1 .. Len(s), ToSet(s))
  BY <1>1 DEF ToSet, Surjection
<1>5. IsFiniteSet(ToSet(s))
  BY <1>3, <1>4, FS_Surjection
<1>6. s # <<>> => 1 \in 1 .. Len(s)
  OBVIOUS
<1> QED BY <1>1, <1>2, <1>5, <1>6 DEF ToSet

----------------------------------------------------------------------------
(* The binary searches. Each is a function of its rounds: it exists, and      *)
(* facts about it go from one round to the next.                              *)

\* A function that starts from a and takes a step in each round.
Iterates(g, step, a, n) == g = [k \in 0 .. n |-> IF k = 0 THEN a ELSE step[k][g[k - 1]]]
LEMMA IterationExists ==
  ASSUME NEW step, NEW a, NEW len \in Nat
  PROVE  \E g : Iterates(g, step, a, len)
<1> DEFINE value(g, k) == IF k = 0 THEN a ELSE step[k][g[k - 1]]
           Has(n) == \E g : Iterates(g, step, a, n)
           T == {n \in Nat : ~Has(n)}
<1> SUFFICES T = {}
  OBVIOUS
<1> SUFFICES ASSUME T # {} PROVE FALSE
  OBVIOUS
<1>1. PICK n \in T : \A y \in T : n <= y
  <2> HIDE DEF Has
  <2> QED BY LeastNat
<1>2. n \in Nat /\ ~Has(n)
  OBVIOUS
<1>3. n # 0
  <2> SUFFICES ASSUME n = 0 PROVE Has(n)
    BY <1>2
  <2> DEFINE g == [k \in 0 .. 0 |-> a]
  <2>1. g = [k \in 0 .. 0 |-> value(g, k)]
    OBVIOUS
  <2>2. Iterates(g, step, a, 0)
    BY <2>1, Zenon DEF Iterates
  <2> HIDE DEF g
  <2> QED BY <2>2
<1>4. n - 1 \in Nat /\ Has(n - 1)
  <2>1. n - 1 \in Nat /\ ~(n <= n - 1)
    BY <1>2, <1>3
  <2>2. n - 1 \notin T
    BY <1>1, <2>1
  <2> HIDE DEF Has
  <2> QED BY <2>1, <2>2
<1>5. PICK g : g = [k \in 0 .. n - 1 |-> value(g, k)]
  BY <1>4 DEF Iterates
<1> DEFINE h == [k \in 0 .. n |-> IF k = n THEN value(g, n) ELSE g[k]]
<1>6. \A k \in 0 .. n : h[k] = value(h, k)
  <2> TAKE k \in 0 .. n
  <2>1. k # 0 => h[k - 1] = g[k - 1]
    BY <1>2
  <2>2. value(h, k) = value(g, k)
    BY <2>1
  <2>3. h[k] = value(g, k)
    BY <1>2, <1>5
  <2> QED BY <2>2, <2>3
<1>7. h = [k \in 0 .. n |-> h[k]]
  OBVIOUS
<1>8. h = [k \in 0 .. n |-> value(h, k)]
  <2> HIDE DEF h, value
  <2> QED BY <1>6, <1>7
<1> QED BY <1>2, <1>8 DEF Iterates

\* Its values stay where a starts and every step leads.
LEMMA IterationTyped ==
  ASSUME NEW W, NEW n \in Nat, NEW step \in [1 .. n -> [W -> W]], NEW a \in W
  PROVE  \E g \in [0 .. n -> W] : Iterates(g, step, a, n)
<1>1. PICK g : Iterates(g, step, a, n)
  BY IterationExists
<1>2. g = [k \in 0 .. n |-> IF k = 0 THEN a ELSE step[k][g[k - 1]]]
  BY <1>1 DEF Iterates
<1> DEFINE P == {k \in 0 .. n : g[k] \in W}
<1>3. 0 \in P
  BY <1>2
<1>4. ASSUME NEW k \in 1 .. n, k - 1 \in P PROVE k \in P
  <2>1. g[k] = step[k][g[k - 1]] /\ g[k - 1] \in W
    BY <1>2, <1>4
  <2> QED BY <2>1
<1>5. \A k \in 0 .. n : k \in P
  <2> HIDE DEF P
  <2> QED BY <1>3, <1>4, Induct
<1>6. g \in [0 .. n -> W]
  BY <1>2, <1>5
<1> QED BY <1>1, <1>6

\* What a round of firstGte narrows: all before lo is older than t, nothing after hi is, if
\* the array is sorted.
Timed(s) == s \in Seq({f \in ToSet(s) : f.t \in Int})
Between(s, t) ==
  {w \in [lo : 0 .. Len(s), hi : 0 .. Len(s)] :
     /\ w.lo <= w.hi
     /\ InSequence(s) => /\ \A i \in 1 .. w.lo : s[i].t < t
                         /\ \A i \in w.hi + 1 .. Len(s) : s[i].t >= t}

LEMMA TimedSeq ==
  ASSUME NEW s, Timed(s)
  PROVE  Len(s) \in Nat /\ DOMAIN s = 1 .. Len(s) /\ \A i \in 1 .. Len(s) : s[i].t \in Int /\ s[i] \in ToSet(s)
<1> DEFINE S == {f \in ToSet(s) : f.t \in Int}
<1>1. s \in Seq(S)
  BY DEF Timed
<1>2. \A f \in S : f \in ToSet(s) /\ f.t \in Int
  OBVIOUS
<1> HIDE DEF S
<1>3. Len(s) \in Nat /\ DOMAIN s = 1 .. Len(s) /\ \A i \in 1 .. Len(s) : s[i] \in S
  BY <1>1
<1> QED BY <1>2, <1>3

LEMMA HalvedKeeps ==
  ASSUME NEW s, Timed(s), NEW t \in Int, NEW w \in Between(s, t)
  PROVE  /\ Halved(w, s, t) \in Between(s, t)
         /\ w.lo >= w.hi => Halved(w, s, t) = w
         /\ w.lo < w.hi => Halved(w, s, t).hi - Halved(w, s, t).lo <= w.hi - w.lo - 1
<1> DEFINE n == Len(s)
           mid == (w.lo + w.hi) \div 2
<1>1. n \in Nat /\ DOMAIN s = 1 .. n /\ \A i \in 1 .. n : s[i].t \in Int
  BY TimedSeq
<1>2. w \in [lo : 0 .. n, hi : 0 .. n] /\ w.lo <= w.hi
      /\ (InSequence(s) => (\A i \in 1 .. w.lo : s[i].t < t) /\ (\A i \in w.hi + 1 .. n : s[i].t >= t))
  BY DEF Between
<1>3. CASE w.lo >= w.hi
  <2>1. Halved(w, s, t) = w
    BY <1>3 DEF Halved
  <2> QED BY <1>2, <1>3, <2>1
<1>4. CASE w.lo < w.hi
  <2>1. mid \in w.lo .. w.hi - 1 /\ mid + 1 \in 1 .. n
    BY <1>2, <1>4
  <2> HIDE DEF mid, n
  <2>2. CASE s[mid + 1].t < t
    <3> DEFINE v == [w EXCEPT !.lo = mid + 1]
    <3>1. Halved(w, s, t) = v
      BY <1>2, <1>4, <2>2 DEF Halved, mid
    <3>2. v \in [lo : 0 .. n, hi : 0 .. n] /\ v.lo = mid + 1 /\ v.hi = w.hi /\ v.lo <= v.hi
      BY <1>2, <2>1
    <3> HIDE DEF v
    <3>3. ASSUME InSequence(s), NEW i \in 1 .. mid + 1 PROVE s[i].t < t
      <4>1. i \in 1 .. n /\ (i < mid + 1 \/ i = mid + 1)
        BY <1>1, <2>1
      <4>2. i < mid + 1 => s[i].t <= s[mid + 1].t
        BY <1>1, <2>1, <3>3, <4>1 DEF InSequence
      <4>3. s[i].t \in Int /\ s[mid + 1].t \in Int
        BY <1>1, <2>1, <4>1
      <4> QED BY <2>2, <4>1, <4>2, <4>3
    <3>4. v \in Between(s, t)
      BY <1>2, <3>2, <3>3 DEF Between, n
    <3>5. v.hi - v.lo <= w.hi - w.lo - 1
      BY <1>2, <2>1, <3>2
    <3> QED BY <1>4, <3>1, <3>4, <3>5, <1>2
  <2>3. CASE ~(s[mid + 1].t < t)
    <3> DEFINE v == [w EXCEPT !.hi = mid]
    <3>1. Halved(w, s, t) = v
      BY <1>2, <1>4, <2>3 DEF Halved, mid
    <3>0. mid \in 0 .. n /\ w.lo <= mid
      BY <1>1, <1>2, <2>1
    <3>2. v \in [lo : 0 .. n, hi : 0 .. n] /\ v.lo = w.lo /\ v.hi = mid /\ v.lo <= v.hi
      BY <1>2, <3>0
    <3> HIDE DEF v
    <3>3. ASSUME InSequence(s), NEW i \in mid + 1 .. n PROVE s[i].t >= t
      <4>1. i \in 1 .. n /\ (i > mid + 1 \/ i = mid + 1)
        BY <1>1, <2>1
      <4>2. i > mid + 1 => s[mid + 1].t <= s[i].t
        BY <1>1, <2>1, <3>3, <4>1 DEF InSequence
      <4>3. s[i].t \in Int /\ s[mid + 1].t \in Int
        BY <1>1, <2>1, <4>1
      <4> QED BY <2>3, <4>1, <4>2, <4>3
    <3>4. v \in Between(s, t)
      BY <1>2, <3>2, <3>3 DEF Between, n
    <3>5. v.hi - v.lo <= w.hi - w.lo - 1
      BY <1>2, <2>1, <3>2
    <3> QED BY <1>4, <3>1, <3>4, <3>5, <1>2
  <2> QED BY <2>2, <2>3
<1> QED BY <1>2, <1>3, <1>4

\* firstGte tells how many elements come before the first that is not older than t, if the
\* array is sorted, and never more than there are.
LEMMA FirstGteIs ==
  ASSUME NEW s, Timed(s), NEW t \in Int
  PROVE  /\ FirstGte(s, t) \in 0 .. Len(s)
         /\ InSequence(s) => /\ \A i \in 1 .. FirstGte(s, t) : s[i].t < t
                             /\ \A i \in FirstGte(s, t) + 1 .. Len(s) : s[i].t >= t
<1> DEFINE n == Len(s)
           start == [lo |-> 0, hi |-> n]
           W == Between(s, t)
           step == [k \in 1 .. n |-> [w \in W |-> Halved(w, s, t)]]
<1>0. n \in Nat
  BY TimedSeq
<1>1. start \in W
  <2>1. start \in [lo : 0 .. n, hi : 0 .. n] /\ start.lo = 0 /\ start.hi = n
    BY <1>0
  <2> HIDE DEF start
  <2> QED BY <1>0, <2>1 DEF Between
<1>2. \A w \in W : Halved(w, s, t) \in W
  BY HalvedKeeps
<1>3. step \in [1 .. n -> [W -> W]]
  <2> HIDE DEF W
  <2> QED BY <1>2
<1>4. PICK g \in [0 .. n -> W] : Iterates(g, step, start, n)
  <2> HIDE DEF W, n, step, start
  <2> QED BY <1>0, <1>1, <1>3, IterationTyped
<1>5. \A k \in 1 .. n : k - 1 \in 0 .. n
  BY <1>0
<1>6. \A k \in 1 .. n : step[k][g[k - 1]] = Halved(g[k - 1], s, t)
  <2> HIDE DEF W, n
  <2> QED BY <1>4, <1>5
<1> DEFINE value(f, k) == IF k = 0 THEN start ELSE Halved(f[k - 1], s, t)
<1>7. g = [k \in 0 .. n |-> value(g, k)]
  <2>1. g = [k \in 0 .. n |-> IF k = 0 THEN start ELSE step[k][g[k - 1]]]
    BY <1>4 DEF Iterates
  <2>2. \A k \in 0 .. n : k # 0 => k \in 1 .. n
    BY <1>0
  <2> HIDE DEF W, n, step, start
  <2>3. \A k \in 0 .. n : (IF k = 0 THEN start ELSE step[k][g[k - 1]]) = value(g, k)
    BY <1>6, <2>2
  <2> QED BY <2>1, <2>3
<1> DEFINE after[k \in 0 .. n] == IF k = 0 THEN [lo |-> 0, hi |-> n] ELSE Halved(after[k - 1], s, t)
<1>8. FirstGte(s, t) = after[n].lo
  BY DEF FirstGte
<1>9. after = [k \in 0 .. n |-> value(after, k)]
  BY <1>7, Zenon
<1> HIDE DEF after
<1>10. \A k \in 1 .. n : after[k] = Halved(after[k - 1], s, t)
  <2> HIDE DEF n
  <2>1. \A k \in 0 .. n : after[k] = value(after, k)
    BY <1>9
  <2>2. \A k \in 1 .. n : k \in 0 .. n /\ k # 0
    BY <1>0
  <2> QED BY <2>1, <2>2
<1>11. after[0] = start /\ 0 \in 0 .. n /\ n \in 0 .. n
  BY <1>0, <1>9
<1> DEFINE P == {k \in 0 .. n : after[k] \in W /\ after[k].hi - after[k].lo <= n - k}
<1>12. 0 \in P
  <2>1. start.hi - start.lo <= n - 0
    BY <1>0
  <2> HIDE DEF W, n, start
  <2> QED BY <1>1, <1>11, <2>1
<1>13. ASSUME NEW k \in 1 .. n, k - 1 \in P PROVE k \in P
  <2> DEFINE w == after[k - 1]
             v == Halved(w, s, t)
  <2>1. w \in W /\ w.hi - w.lo <= n - (k - 1) /\ after[k] = v /\ k \in 0 .. n
    BY <1>10, <1>13
  <2> HIDE DEF w
  <2>2. v \in W /\ (w.lo >= w.hi => v = w) /\ (w.lo < w.hi => v.hi - v.lo <= w.hi - w.lo - 1)
    BY <2>1, HalvedKeeps
  <2> HIDE DEF v
  <2>3. w.lo \in 0 .. n /\ w.hi \in 0 .. n /\ v.lo \in 0 .. n /\ v.hi \in 0 .. n
    BY <2>1, <2>2 DEF Between
  <2>4. v.hi - v.lo <= n - k
    BY <1>0, <2>1, <2>2, <2>3
  <2> HIDE DEF W
  <2> QED BY <2>1, <2>2, <2>4
<1>14. n \in P
  <2> HIDE DEF P
  <2> QED BY <1>0, <1>11, <1>12, <1>13, Induct
<1> DEFINE e == after[n]
<1>15. e \in W /\ e.hi - e.lo <= n - n /\ FirstGte(s, t) = e.lo
  BY <1>8, <1>14
<1> HIDE DEF e
<1>16. /\ e.lo \in 0 .. n /\ e.hi \in 0 .. n /\ e.lo <= e.hi
       /\ InSequence(s) => (\A i \in 1 .. e.lo : s[i].t < t) /\ (\A i \in e.hi + 1 .. n : s[i].t >= t)
  BY <1>15 DEF Between
<1>17. e.lo = e.hi
  BY <1>0, <1>15, <1>16
<1> QED BY <1>15, <1>16, <1>17

----------------------------------------------------------------------------
(* Frames are kept. The invariant: types; what a flush has to write; what a   *)
(* read of the archive finds; what an export has still to find.               *)

Entry == [key : Chunks, start : 0 .. MaxTime, end : 0 .. MaxTime, n : Nat]
TypeInv ==
  /\ now \in 0 .. MaxTime /\ received \in 0 .. MaxFrames
  /\ setting \in Retentions /\ retention \in Retentions
  /\ trace \in Seq(Frame) /\ restoring \in Seq(Frame) /\ writeBuffer \in Seq(Frame)
  /\ snapshot # None => snapshot.frames \in Seq(Frame) /\ snapshot.retention \in Retentions
  /\ flush \in [pc : {"idle", "append", "appended", "limits", "save"}, frames : SUBSET Frame]
  /\ IsFiniteSet(flush.frames)
  /\ files \in [Chunks -> SUBSET Frame]
  /\ index \subseteq Entry /\ savedIndex \subseteq Entry

\* A flush has frames to write until it comes to the limits, and what it has appended is in
\* the file of its group until it is in the index.
FlushInv ==
  /\ flush.frames = {} <=> flush.pc \in {"idle", "limits", "save"}
  /\ flush.pc = "appended" => Group \subseteq files[GroupKey] \union excused

\* What is in a file is found by the index, unless it is being entered; while the directory
\* is not open, by the index that has been saved.
Listed(entries, f) == \E e \in entries : e.start <= f.t /\ f.t <= e.end /\ f \in files[e.key]
ReadInv ==
  /\ ready /\ ~clearing =>
       \A c \in Chunks : \A f \in files[c] \ excused : Listed(index, f) \/ (flush.pc = "appended" /\ f \in Group)
  /\ ~ready => /\ writeBuffer = <<>> /\ flush = Idle
               /\ \A c \in Chunks : \A f \in files[c] \ excused : Listed(savedIndex, f)

\* What an export was to hold is in its copy of memory, in the files it reads, or excused.
ExportInv ==
  /\ exporting # None => /\ exporting.keys \subseteq Chunks
                         /\ exporting.due \ excused \subseteq exporting.hot \union ArchivePart(exporting)
  /\ ExportComplete

Held == ToSet(trace) \union ToSet(restoring) \union Unwritten \union Stored \union excused
KeptInv == \A n \in 1 .. received : \E f \in Held : f.n = n

KeepInv == TypeInv /\ FlushInv /\ ReadInv /\ ExportInv /\ KeptInv

LEMMA Limits ==
  /\ MaxTime \in Nat /\ MaxFrames \in Nat /\ Retentions \subseteq Nat /\ TraceMax \in Nat \ {0}
  /\ MessageCap \in Nat \ {0} /\ RestoreChunk \in Nat \ {0} /\ SnapshotMin \in Nat \ {0} /\ SnapshotMax \in Nat
  /\ ChunkLen \in Nat \ {0}
BY ColdStoreAssumption, DataStoreAssumption DEF ColdStoreAssumption, DataStoreAssumption

\* A frame has a time, and its time a chunk.
LEMMA OfAFrame ==
  ASSUME NEW f \in Frame PROVE f.t \in 0 .. MaxTime /\ f.t \in Int /\ f.n \in 1 .. MaxFrames /\ ChunkOf(f) \in Chunks
<1>1. f.t \in 0 .. MaxTime /\ f.n \in 1 .. MaxFrames
  BY DEF Frame
<1>2. (f.t \div ChunkLen) * ChunkLen \in Chunks
  BY <1>1, DataStoreAssumption DEF DataStoreAssumption
<1> QED BY <1>1, <1>2, Limits DEF ChunkOf

LEMMA FramesTimed == ASSUME NEW s \in Seq(Frame) PROVE Timed(s)
<1> DEFINE S == {f \in ToSet(s) : f.t \in Int}
<1>1. \A i \in DOMAIN s : s[i] \in Frame /\ s[i] \in ToSet(s)
  BY DEF ToSet
<1>2. \A i \in DOMAIN s : s[i] \in S
  BY <1>1, OfAFrame
<1> HIDE DEF S
<1>3. s \in Seq(S)
  <2>1. Len(s) \in Nat /\ DOMAIN s = 1 .. Len(s) /\ s = [i \in 1 .. Len(s) |-> s[i]]
    OBVIOUS
  <2> QED BY <1>2, <2>1
<1> QED BY <1>3 DEF Timed, S

\* The chunks are within the bounds of numbers.
LEMMA ChunksBounded == LastChunk \in Nat /\ Chunks \in SUBSET (0 .. LastChunk)
BY ColdStoreAssumption DEF ColdStoreAssumption, Chunks

\* The group a flush is at: it has members, all of one chunk.
LEMMA GroupIs ==
  ASSUME TypeInv, flush.frames # {}
  PROVE  /\ GroupKey \in Chunks /\ Group # {} /\ Group \subseteq flush.frames /\ IsFiniteSet(Group)
         /\ Earliest(Group) \in 0 .. MaxTime /\ Latest(Group) \in 0 .. MaxTime
         /\ \A f \in Group : /\ f \in Frame /\ ChunkOf(f) = GroupKey
                             /\ Earliest(Group) <= f.t /\ f.t <= Latest(Group)
<1> DEFINE K == {ChunkOf(f) : f \in flush.frames}
<1>1. flush.frames \subseteq Frame /\ IsFiniteSet(flush.frames)
  BY DEF TypeInv
<1>2. K \in SUBSET (0 .. LastChunk) /\ K # {} /\ K \subseteq Chunks
  BY <1>1, OfAFrame, ChunksBounded
<1>3. GroupKey \in K
  <2>1. Min(K) \in K
    <3> HIDE DEF K
    <3> QED BY <1>2, ChunksBounded, Bounded
  <2> QED BY <2>1 DEF GroupKey
<1>4. Group # {} /\ Group \subseteq flush.frames /\ \A f \in Group : ChunkOf(f) = GroupKey
  BY <1>3 DEF Group
<1> DEFINE T == {f.t : f \in Group}
<1>5. T \in SUBSET (0 .. MaxTime) /\ T # {}
  BY <1>1, <1>4, OfAFrame
<1>6. Earliest(Group) = Min(T) /\ Latest(Group) = Max(T)
  BY DEF Earliest, Latest
<1>7. /\ Min(T) \in T /\ \A x \in T : Min(T) <= x
      /\ Max(T) \in T /\ \A x \in T : x <= Max(T)
  <2> HIDE DEF T
  <2> QED BY <1>5, Limits, Bounded
<1>8. \A f \in Group : f.t \in T
  OBVIOUS
<1>9. Min(T) \in 0 .. MaxTime /\ Max(T) \in 0 .. MaxTime
  BY <1>5, <1>7
<1>10. IsFiniteSet(Group)
  BY <1>1, <1>4, FS_Subset
<1> HIDE DEF T
<1> QED BY <1>1, <1>2, <1>3, <1>4, <1>6, <1>7, <1>8, <1>9, <1>10

----------------------------------------------------------------------------
(* What leaves one part of a store for another.                               *)

\* What the archive has is left alone, or only given up as excused: then the flush, the
\* reads and the export are where they were.
ArchiveRests ==
  /\ UNCHANGED <<ready, index, files, savedIndex, flush, clearing>>
  /\ excused \subseteq excused'
  /\ ~ready => writeBuffer' = writeBuffer
LEMMA RestKeeps ==
  ASSUME FlushInv, ReadInv, ArchiveRests PROVE FlushInv' /\ ReadInv'
<1>1. FlushInv'
  BY DEF FlushInv, ArchiveRests, Group, GroupKey
<1>2. ReadInv'
  BY DEF ReadInv, Listed, ArchiveRests, Group, GroupKey
<1> QED BY <1>1, <1>2

\* A file loses only what is excused: an export misses only that.
LEMMA ExportKeeps ==
  ASSUME ExportInv, UNCHANGED <<exporting, exported>>, excused \subseteq excused',
         \A c \in Chunks : files[c] \subseteq files'[c] \union excused'
  PROVE  ExportInv'
<1>1. ExportComplete'
  BY DEF ExportInv, ExportComplete
<1>2. ASSUME exporting # None, NEW f \in exporting.due \ excused' PROVE f \in exporting.hot \union ArchivePart(exporting)'
  <2>1. exporting' = exporting
    OBVIOUS
  <2>2. exporting.keys \subseteq Chunks /\ f \in exporting.hot \union ArchivePart(exporting)
    BY <1>2 DEF ExportInv
  <2>3. ArchivePart(exporting) \ excused' \subseteq ArchivePart(exporting)'
    BY <2>1, <2>2 DEF ArchivePart, ReadChunks
  <2> QED BY <1>2, <2>2, <2>3
<1>3. exporting' # None => /\ exporting'.keys \subseteq Chunks
                           /\ exporting'.due \ excused' \subseteq exporting'.hot \union ArchivePart(exporting)'
  BY <1>2 DEF ExportInv
<1> QED BY <1>1, <1>3 DEF ExportInv

LEMMA HeldKeeps == ASSUME KeptInv, received' = received, Held \subseteq Held' PROVE KeptInv'
BY DEF KeptInv

----------------------------------------------------------------------------
(* From memory to the queue.                                                  *)

\* What leaves the trace is queued, or the archive is not open and it is excused.
Leaves(gone) ==
  QueueFrames(gone) /\ excused' = IF ready THEN excused ELSE excused \union ToSet(gone)
LEMMA LeavesKeeps ==
  ASSUME NEW gone \in Seq(Frame), writeBuffer \in Seq(Frame), Leaves(gone)
  PROVE  /\ writeBuffer' \in Seq(Frame) /\ excused \subseteq excused'
         /\ ToSet(writeBuffer) \subseteq ToSet(writeBuffer')
         /\ ToSet(gone) \subseteq ToSet(writeBuffer') \union excused'
         /\ ~ready => writeBuffer' = writeBuffer
<1>1. CASE ~ready
  BY <1>1 DEF Leaves, QueueFrames
<1>2. CASE ready /\ gone = <<>>
  <2>1. ToSet(gone) = {}
    BY <1>2 DEF ToSet
  <2> QED BY <1>2, <2>1 DEF Leaves, QueueFrames
<1>3. CASE ready /\ gone # <<>>
  <2>1. writeBuffer' = writeBuffer \o gone
    BY <1>3 DEF Leaves, QueueFrames
  <2>2. writeBuffer' \in Seq(Frame) /\ ToSet(writeBuffer') = ToSet(writeBuffer) \union ToSet(gone)
    BY <2>1, Joined
  <2> QED BY <1>3, <2>2 DEF Leaves
<1> QED BY <1>1, <1>2, <1>3

\* A trace that is cut: the front leaves, the rest stays.
LEMMA CutKeeps ==
  ASSUME NEW s \in Seq(Frame), NEW k \in 0 .. Len(s), writeBuffer \in Seq(Frame),
         trace' = SubSeq(s, k + 1, Len(s)), Leaves(SubSeq(s, 1, k))
  PROVE  /\ trace' \in Seq(Frame) /\ writeBuffer' \in Seq(Frame) /\ excused \subseteq excused'
         /\ ToSet(writeBuffer) \subseteq ToSet(writeBuffer')
         /\ ToSet(s) \subseteq ToSet(trace') \union ToSet(writeBuffer') \union excused'
         /\ ~ready => writeBuffer' = writeBuffer
<1> DEFINE gone == SubSeq(s, 1, k)
           rest == SubSeq(s, k + 1, Len(s))
<1>1. gone \in Seq(Frame) /\ rest \in Seq(Frame) /\ ToSet(gone) \union ToSet(rest) = ToSet(s)
  BY CutInTwo
<1>2. trace' = rest /\ Leaves(gone)
  OBVIOUS
<1> HIDE DEF gone, rest
<1>3. /\ writeBuffer' \in Seq(Frame) /\ excused \subseteq excused'
      /\ ToSet(writeBuffer) \subseteq ToSet(writeBuffer')
      /\ ToSet(gone) \subseteq ToSet(writeBuffer') \union excused'
      /\ ~ready => writeBuffer' = writeBuffer
  BY <1>1, <1>2, LeavesKeeps
<1> QED BY <1>1, <1>2, <1>3

\* How many leave: no more than there are.
LEMMA HowMany ==
  ASSUME NEW s \in Seq(Frame), NEW t \in Int
  PROVE  Max({FirstGte(s, t), Len(s) - TraceMax}) \in 0 .. Len(s)
<1> DEFINE a == FirstGte(s, t)
           b == Len(s) - TraceMax
           m == Max({a, b})
<1>1. Len(s) \in Nat /\ a \in 0 .. Len(s)
  BY FramesTimed, FirstGteIs
<1>2. b \in Int /\ b <= Len(s)
  BY <1>1, Limits
<1> HIDE DEF a, b
<1>3. m \in {a, b} /\ m >= a
  <2>1. a \in Int /\ b \in Int
    BY <1>1, <1>2
  <2> QED BY <2>1, OfTwo, Zenon
<1> HIDE DEF m
<1>4. m \in 0 .. Len(s)
  BY <1>1, <1>2, <1>3
<1> QED BY <1>4 DEF m, a, b

LEMMA IngestKeeps ==
  ASSUME TypeInv, NEW fs \in Seq(Frame), fs # <<>>, Ingest(fs)
  PROVE  /\ trace' \in Seq(Frame) /\ writeBuffer' \in Seq(Frame) /\ excused \subseteq excused'
         /\ ToSet(writeBuffer) \subseteq ToSet(writeBuffer')
         /\ ToSet(trace) \union ToSet(fs) \subseteq ToSet(trace') \union ToSet(writeBuffer') \union excused'
         /\ ~ready => writeBuffer' = writeBuffer
<1> DEFINE grown == trace \o fs
           newest == Max({f.t : f \in ToSet(fs)})
           out == Evicted(grown, newest)
<1>1. trace \in Seq(Frame) /\ writeBuffer \in Seq(Frame)
  BY DEF TypeInv
<1>2. grown \in Seq(Frame) /\ ToSet(grown) = ToSet(trace) \union ToSet(fs)
  BY <1>1, Joined
<1>3. newest \in 0 .. MaxTime
  <2> DEFINE T == {f.t : f \in ToSet(fs)}
  <2>1. T \in SUBSET (0 .. MaxTime) /\ T # {}
    BY InSeq, OfAFrame
  <2> HIDE DEF T
  <2>2. Max(T) \in T
    BY <2>1, Limits, Bounded
  <2> QED BY <2>1, <2>2 DEF T
<1>4. trace' = SubSeq(grown, out + 1, Len(grown)) /\ Leaves(SubSeq(grown, 1, out))
  BY DEF Ingest, Leaves
<1> HIDE DEF grown, newest
<1>5. out \in 0 .. Len(grown)
  <2>1. newest - retention \in Int
    BY <1>3, Limits DEF TypeInv
  <2>2. Max({FirstGte(grown, newest - retention), Len(grown) - TraceMax}) \in 0 .. Len(grown)
    BY <1>2, <2>1, HowMany
  <2> QED BY <2>2 DEF Evicted
<1> HIDE DEF out
<1> QED BY <1>1, <1>2, <1>4, <1>5, CutKeeps

----------------------------------------------------------------------------
(* The operations of the stores, one by one. Each keeps what it has to.       *)

\* Those of memory leave the archive alone.
MemoryStep == ArchiveRests /\ UNCHANGED <<exporting, exported>>
LEMMA MemoryKeeps ==
  ASSUME KeepInv, MemoryStep
  PROVE  FlushInv' /\ ReadInv' /\ ExportInv'
<1>1. FlushInv' /\ ReadInv'
  BY RestKeeps DEF KeepInv, MemoryStep
<1>2. ExportInv'
  BY ExportKeeps DEF KeepInv, MemoryStep, ArchiveRests
<1> QED BY <1>1, <1>2

ExportsRest == UNCHANGED <<exporting, exported>>

LEMMA NothingMoves ==
  ASSUME KeepInv, UNCHANGED <<now, received, setting, retention, trace, restoring, snapshot, coldVars>>,
         ExportInv'
  PROVE  KeepInv'
<1>1. TypeInv'
  BY DEF KeepInv, TypeInv, coldVars
<1>2. FlushInv' /\ ReadInv'
  BY RestKeeps DEF KeepInv, ArchiveRests, coldVars
<1>3. KeptInv'
  BY DEF KeepInv, KeptInv, Held, Unwritten, Stored, coldVars
<1> QED BY <1>1, <1>2, <1>3 DEF KeepInv

LEMMA MessageKeeps == ASSUME KeepInv, IngestMessage, ExportsRest PROVE KeepInv'
<1>0. TypeInv /\ KeptInv
  BY DEF KeepInv
<1>1. PICK t \in 0 .. now, i \in Ids : Ingest(<<Message(received + 1, t, i)>>)
  BY DEF IngestMessage
<1> DEFINE f == Message(received + 1, t, i)
<1>2. f \in Frame /\ f.n = received + 1 /\ received + 1 \in 1 .. MaxFrames
  <2>1. received + 1 \in 1 .. MaxFrames /\ t \in 0 .. MaxTime
    BY <1>0, Limits DEF TypeInv, IngestMessage
  <2> QED BY <2>1 DEF Message, Frame
<1> HIDE DEF f
<1>3. <<f>> \in Seq(Frame) /\ <<f>> # <<>> /\ Ingest(<<f>>) /\ ToSet(<<f>>) = {f}
  BY <1>1, <1>2 DEF ToSet, f
<1>4. /\ trace' \in Seq(Frame) /\ writeBuffer' \in Seq(Frame) /\ excused \subseteq excused'
      /\ ToSet(writeBuffer) \subseteq ToSet(writeBuffer')
      /\ ToSet(trace) \union {f} \subseteq ToSet(trace') \union ToSet(writeBuffer') \union excused'
      /\ ~ready => writeBuffer' = writeBuffer
  BY <1>0, <1>3, IngestKeeps
<1>5. received' = received + 1 /\ UNCHANGED <<now, setting, retention, snapshot, restoring, ready, index, files,
                                              savedIndex, flush, clearing>>
  BY DEF IngestMessage
<1>6. TypeInv'
  BY <1>0, <1>2, <1>4, <1>5, Limits DEF TypeInv
<1>7. FlushInv' /\ ReadInv' /\ ExportInv'
  BY <1>4, <1>5, MemoryKeeps DEF MemoryStep, ArchiveRests, ExportsRest
<1>8. Held \union {f} \subseteq Held'
  BY <1>4, <1>5 DEF Held, Unwritten, Stored
<1>9. KeptInv'
  <2> SUFFICES ASSUME NEW n \in 1 .. received' PROVE \E g \in Held' : g.n = n
    BY DEF KeptInv
  <2>1. n \in 1 .. received \/ n = received + 1
    BY <1>0, <1>5 DEF TypeInv
  <2> QED BY <1>0, <1>2, <1>8, <2>1 DEF KeptInv
<1> QED BY <1>6, <1>7, <1>9 DEF KeepInv

LEMMA TickKeeps == ASSUME KeepInv, Tick, ExportsRest PROVE KeepInv'
<1>1. TypeInv'
  BY Limits DEF KeepInv, TypeInv, Tick, coldVars
<1>2. FlushInv' /\ ReadInv' /\ ExportInv'
  BY MemoryKeeps DEF MemoryStep, ArchiveRests, Tick, coldVars, ExportsRest
<1>3. KeptInv'
  BY DEF KeepInv, KeptInv, Held, Unwritten, Stored, Tick, coldVars
<1> QED BY <1>1, <1>2, <1>3 DEF KeepInv

LEMMA RestoreKeeps == ASSUME KeepInv, RestoreSnapshot, ExportsRest PROVE KeepInv'
<1>0. TypeInv /\ KeptInv /\ restoring \in Seq(Frame) /\ restoring # <<>> /\ Len(restoring) \in Nat \ {0}
  BY DEF KeepInv, TypeInv, RestoreSnapshot
<1> DEFINE n == Min({RestoreChunk, Len(restoring)})
           fs == SubSeq(restoring, 1, n)
           rest == SubSeq(restoring, n + 1, Len(restoring))
<1>1. n \in 0 .. Len(restoring) /\ n # 0
  <2>1. RestoreChunk \in Nat \ {0} /\ Len(restoring) \in Nat \ {0}
    BY <1>0, Limits
  <2>2. n \in {RestoreChunk, Len(restoring)} /\ n <= Len(restoring)
    <3>1. RestoreChunk \in Int /\ Len(restoring) \in Int
      BY <2>1
    <3> QED BY <3>1, OfTwo, Zenon
  <2> HIDE DEF n
  <2> QED BY <2>1, <2>2
<1>2. Ingest(fs) /\ restoring' = rest
  BY DEF RestoreSnapshot
<1> HIDE DEF n
<1>3. /\ fs \in Seq(Frame) /\ rest \in Seq(Frame) /\ Len(fs) = n
      /\ ToSet(fs) \union ToSet(rest) = ToSet(restoring)
  BY <1>0, <1>1, CutInTwo
<1> HIDE DEF fs, rest
<1>4. fs # <<>>
  BY <1>1, <1>3
<1>5. /\ trace' \in Seq(Frame) /\ writeBuffer' \in Seq(Frame) /\ excused \subseteq excused'
      /\ ToSet(writeBuffer) \subseteq ToSet(writeBuffer')
      /\ ToSet(trace) \union ToSet(fs) \subseteq ToSet(trace') \union ToSet(writeBuffer') \union excused'
      /\ ~ready => writeBuffer' = writeBuffer
  BY <1>0, <1>2, <1>3, <1>4, IngestKeeps
<1>6. UNCHANGED <<now, setting, retention, received, snapshot, ready, index, files, savedIndex, flush, clearing>>
  BY DEF RestoreSnapshot
<1>7. TypeInv'
  BY <1>0, <1>2, <1>3, <1>5, <1>6 DEF TypeInv
<1>8. FlushInv' /\ ReadInv' /\ ExportInv'
  BY <1>5, <1>6, MemoryKeeps DEF MemoryStep, ArchiveRests, ExportsRest
<1>9. Held \subseteq Held'
  BY <1>2, <1>3, <1>5, <1>6 DEF Held, Unwritten, Stored
<1> QED BY <1>0, <1>6, <1>7, <1>8, <1>9, HeldKeeps DEF KeepInv

LEMMA SnapshotKeeps == ASSUME KeepInv, PersistSnapshot, ExportsRest PROVE KeepInv'
<1>0. TypeInv /\ trace \in Seq(Frame) /\ retention \in Retentions
  BY DEF KeepInv, TypeInv
<1>1. snapshot' # None => snapshot'.frames \in Seq(Frame) /\ snapshot'.retention \in Retentions
  <2>1. ASSUME NEW n \in SnapshotSizes PROVE SubSeq(trace, Len(trace) - n + 1, Len(trace)) \in Seq(Frame)
    <3> DEFINE most == Min({SnapshotMax, Len(trace)})
    <3>1. SnapshotMax \in Nat /\ Len(trace) \in Nat /\ SnapshotMin \in Nat \ {0}
      BY <1>0, Limits
    <3>2. most \in {SnapshotMax, Len(trace)} /\ most <= Len(trace)
      <4>1. SnapshotMax \in Int /\ Len(trace) \in Int
        BY <3>1
      <4> QED BY <4>1, OfTwo, Zenon
    <3>3. n \in {most, most \div 2}
      BY DEF SnapshotSizes
    <3> HIDE DEF most
    <3>4. n \in Nat /\ n <= Len(trace)
      BY <3>1, <3>2, <3>3
    <3> DEFINE k == Len(trace) - n
    <3>5. k \in 0 .. Len(trace)
      BY <3>1, <3>4
    <3> HIDE DEF k
    <3>6. SubSeq(trace, k + 1, Len(trace)) \in Seq(Frame)
      BY <1>0, <3>5, CutInTwo
    <3> QED BY <3>6 DEF k
  <2>2. ASSUME NEW n \in SnapshotSizes,
               snapshot' = [at |-> now, retention |-> retention,
                            frames |-> SubSeq(trace, Len(trace) - n + 1, Len(trace))]
        PROVE  snapshot'.frames \in Seq(Frame) /\ snapshot'.retention \in Retentions
    <3> DEFINE s == SubSeq(trace, Len(trace) - n + 1, Len(trace))
    <3>1. s \in Seq(Frame) /\ snapshot' = [at |-> now, retention |-> retention, frames |-> s]
      BY <2>1, <2>2
    <3> HIDE DEF s
    <3> QED BY <1>0, <3>1
  <2> QED BY <2>2 DEF PersistSnapshot
<1>2. UNCHANGED <<now, received, setting, retention, trace, restoring, coldVars>>
  BY DEF PersistSnapshot
<1>3. TypeInv'
  BY <1>0, <1>1, <1>2 DEF TypeInv, coldVars
<1>4. FlushInv' /\ ReadInv' /\ ExportInv'
  BY <1>2, MemoryKeeps DEF MemoryStep, ArchiveRests, coldVars, ExportsRest
<1>5. KeptInv'
  BY <1>2 DEF KeepInv, KeptInv, Held, Unwritten, Stored, coldVars
<1> QED BY <1>3, <1>4, <1>5 DEF KeepInv

LEMMA RetentionKeeps == ASSUME KeepInv, SetRetention, ExportsRest PROVE KeepInv'
<1>0. TypeInv /\ KeptInv /\ trace \in Seq(Frame) /\ writeBuffer \in Seq(Frame)
  BY DEF KeepInv, TypeInv
<1> DEFINE cut(w) == IF trace = <<>> THEN 0 ELSE Max({FirstGte(trace, Last(trace).t - w), Len(trace) - TraceMax})
<1>1. PICK w \in Retentions :
         /\ setting' = w /\ retention' = w
         /\ trace' = SubSeq(trace, cut(w) + 1, Len(trace))
         /\ Leaves(SubSeq(trace, 1, cut(w)))
  BY DEF SetRetention, Leaves
<1> DEFINE k == cut(w)
<1>2. k \in 0 .. Len(trace)
  <2>1. CASE trace = <<>>
    BY <2>1
  <2>2. CASE trace # <<>>
    <3>1. Last(trace) \in Frame
      BY <1>0, <2>2 DEF Last
    <3>2. Last(trace).t - w \in Int
      BY <3>1, OfAFrame, Limits
    <3> QED BY <1>0, <2>2, <3>2, HowMany
  <2> QED BY <2>1, <2>2
<1>3. trace' = SubSeq(trace, k + 1, Len(trace)) /\ Leaves(SubSeq(trace, 1, k))
  BY <1>1
<1> HIDE DEF k, cut
<1>4. /\ trace' \in Seq(Frame) /\ writeBuffer' \in Seq(Frame) /\ excused \subseteq excused'
      /\ ToSet(writeBuffer) \subseteq ToSet(writeBuffer')
      /\ ToSet(trace) \subseteq ToSet(trace') \union ToSet(writeBuffer') \union excused'
      /\ ~ready => writeBuffer' = writeBuffer
  BY <1>0, <1>2, <1>3, CutKeeps
<1>5. UNCHANGED <<now, received, snapshot, restoring, ready, index, files, savedIndex, flush, clearing>>
  BY DEF SetRetention, warmVars
<1>6. TypeInv'
  BY <1>0, <1>1, <1>4, <1>5 DEF TypeInv
<1>7. FlushInv' /\ ReadInv' /\ ExportInv'
  BY <1>4, <1>5, MemoryKeeps DEF MemoryStep, ArchiveRests, ExportsRest
<1>8. Held \subseteq Held'
  BY <1>4, <1>5 DEF Held, Unwritten, Stored
<1> QED BY <1>0, <1>5, <1>6, <1>7, <1>8, HeldKeeps DEF KeepInv

LEMMA ClearsKeep == ASSUME KeepInv, ClearData \/ ClearTrace, ExportsRest PROVE KeepInv'
<1>1. /\ trace' = trace \/ (trace' = <<>> /\ ToSet(trace) \subseteq excused')
      /\ excused \subseteq excused'
      /\ UNCHANGED <<now, received, setting, retention, restoring, snapshot, ready, index, files, savedIndex,
                     writeBuffer, flush, clearing>>
  BY DEF ClearData, ClearTrace
<1>2. TypeInv'
  <2>1. trace \in Seq(Frame) /\ <<>> \in Seq(Frame)
    BY DEF KeepInv, TypeInv
  <2>2. trace' \in Seq(Frame)
    BY <1>1, <2>1
  <2> QED BY <1>1, <2>2 DEF KeepInv, TypeInv
<1>3. FlushInv' /\ ReadInv' /\ ExportInv'
  BY <1>1, MemoryKeeps DEF MemoryStep, ArchiveRests, ExportsRest
<1>4. Held \subseteq Held'
  BY <1>1 DEF Held, Unwritten, Stored
<1> QED BY <1>1, <1>2, <1>3, <1>4, HeldKeeps DEF KeepInv

----------------------------------------------------------------------------
(* The archive's own steps, and the end of the page.                          *)

\* They leave memory alone.
ArchiveStep == UNCHANGED dataVars /\ ExportsRest
LEMMA DataStays ==
  ASSUME ArchiveStep
  PROVE  UNCHANGED <<now, received, setting, retention, trace, restoring, snapshot, exporting, exported>>
BY DEF ArchiveStep, dataVars, ExportsRest

\* What is written, or given up, is not lost.
LEMMA BeginsKeeps == ASSUME KeepInv, FlushBegins, ArchiveStep PROVE KeepInv'
<1>0. TypeInv /\ UNCHANGED <<now, received, setting, retention, trace, restoring, snapshot, exporting, exported>>
  BY DataStays DEF KeepInv
<1>1. UNCHANGED <<ready, index, files, savedIndex, clearing, excused>> /\ flush.pc = "idle" /\ flush.frames = {}
  BY DEF FlushBegins, KeepInv, FlushInv
<1>2. writeBuffer' = <<>> /\ writeBuffer \in Seq(Frame) /\ ToSet(writeBuffer') = {}
  BY <1>0 DEF FlushBegins, TypeInv, ToSet
<1>3. ToSet(writeBuffer) \subseteq Frame /\ IsFiniteSet(ToSet(writeBuffer))
      /\ (writeBuffer # <<>> => ToSet(writeBuffer) # {})
  BY <1>2, InSeq
<1>4. CASE writeBuffer = <<>>
  <2>1. flush' = Idle /\ flush = Idle
    BY <1>0, <1>1, <1>4 DEF FlushBegins, Idle, TypeInv
  <2>2. writeBuffer' = writeBuffer
    BY <1>2, <1>4
  <2>3. TypeInv'
    BY <1>0, <1>1, <2>1, <2>2 DEF TypeInv
  <2>4. FlushInv' /\ ReadInv' /\ ExportInv'
    BY <1>0, <1>1, <2>1, <2>2, MemoryKeeps DEF MemoryStep, ArchiveRests
  <2>5. Held \subseteq Held'
    BY <1>0, <1>1, <2>1, <2>2 DEF Held, Unwritten, Stored
  <2> QED BY <1>0, <2>3, <2>4, <2>5, HeldKeeps DEF KeepInv
<1>5. CASE writeBuffer # <<>>
  <2>1. flush' = [pc |-> "append", frames |-> ToSet(writeBuffer)]
    BY <1>5 DEF FlushBegins
  <2>2. flush'.pc = "append" /\ flush'.frames = ToSet(writeBuffer)
    BY <2>1
  <2>3. TypeInv'
    BY <1>0, <1>1, <1>2, <1>3, <2>1, <2>2 DEF TypeInv
  <2>4. FlushInv'
    BY <1>3, <1>5, <2>2 DEF FlushInv
  <2>5. ready
    BY <1>5 DEF KeepInv, ReadInv
  <2>6. ReadInv'
    BY <1>1, <2>5 DEF KeepInv, ReadInv, Listed
  <2>7. ExportInv'
    BY <1>0, <1>1, ExportKeeps DEF KeepInv
  <2>8. Held \subseteq Held'
    BY <1>0, <1>1, <2>2 DEF Held, Unwritten, Stored
  <2> QED BY <1>0, <2>3, <2>4, <2>6, <2>7, <2>8, HeldKeeps DEF KeepInv
<1> QED BY <1>4, <1>5

LEMMA AppendKeeps == ASSUME KeepInv, AppendFile, ArchiveStep PROVE KeepInv'
<1>0. TypeInv /\ UNCHANGED <<now, received, setting, retention, trace, restoring, snapshot, exporting, exported>>
  BY DataStays DEF KeepInv
<1>1. UNCHANGED <<ready, index, savedIndex, writeBuffer, clearing, excused>> /\ flush.pc = "append"
  BY DEF AppendFile
<1>2. flush.frames # {} /\ GroupKey \in Chunks /\ Group \subseteq Frame
  <2>1. flush.frames # {}
    BY <1>1 DEF KeepInv, FlushInv
  <2> QED BY <1>0, <2>1, GroupIs
<1>3. flush'.pc = "appended" /\ flush'.frames = flush.frames
      /\ flush' \in [pc : {"idle", "append", "appended", "limits", "save"}, frames : SUBSET Frame]
  BY <1>0 DEF AppendFile, TypeInv
<1>4. GroupKey' = GroupKey /\ Group' = Group
  BY <1>3 DEF GroupKey, Group
<1>5. files' \in [Chunks -> SUBSET Frame] /\ files'[GroupKey] = files[GroupKey] \union Group
      /\ \A c \in Chunks : files'[c] \subseteq files[c] \union Group /\ files[c] \subseteq files'[c]
  BY <1>0, <1>2 DEF AppendFile, TypeInv
<1>6. TypeInv'
  BY <1>0, <1>1, <1>3, <1>5 DEF TypeInv
<1>7. FlushInv'
  BY <1>2, <1>3, <1>4, <1>5 DEF FlushInv
<1>8. ready
  BY <1>1 DEF KeepInv, ReadInv, Idle
<1>9. ReadInv'
  <2> SUFFICES ASSUME ~clearing, NEW c \in Chunks, NEW f \in files'[c] \ excused
               PROVE  Listed(index, f)' \/ f \in Group
    BY <1>1, <1>3, <1>4, <1>8 DEF ReadInv
  <2>1. CASE f \in Group
    BY <2>1
  <2>2. CASE f \notin Group
    <3>1. f \in files[c] \ excused
      BY <1>5, <2>2
    <3>2. PICK e \in index : e.start <= f.t /\ f.t <= e.end /\ f \in files[e.key]
      BY <1>1, <1>8, <3>1 DEF KeepInv, ReadInv, Listed
    <3>3. e.key \in Chunks
      BY <1>0 DEF TypeInv, Entry
    <3> QED BY <1>1, <1>5, <3>2, <3>3 DEF Listed
  <2> QED BY <2>1, <2>2
<1>10. ExportInv'
  BY <1>0, <1>1, <1>5, ExportKeeps DEF KeepInv
<1>11. Held \subseteq Held'
  BY <1>0, <1>1, <1>3, <1>5 DEF Held, Unwritten, Stored
<1> QED BY <1>0, <1>6, <1>7, <1>9, <1>10, <1>11, HeldKeeps DEF KeepInv

\* The next group: this one goes, the rest stays.
LEMMA AfterGroupIs ==
  ASSUME TypeInv, flush.frames # {}
  PROVE  /\ AfterGroup \in [pc : {"idle", "append", "appended", "limits", "save"}, frames : SUBSET Frame]
         /\ AfterGroup.frames = flush.frames \ Group /\ IsFiniteSet(AfterGroup.frames)
         /\ AfterGroup.pc = IF AfterGroup.frames = {} THEN "limits" ELSE "append"
<1> DEFINE rest == flush.frames \ Group
<1>1. rest \subseteq Frame /\ IsFiniteSet(rest)
  <2>1. flush.frames \subseteq Frame /\ IsFiniteSet(flush.frames) /\ rest \subseteq flush.frames
    BY DEF TypeInv
  <2> HIDE DEF rest
  <2> QED BY <2>1, FS_Subset
<1>2. AfterGroup = [pc |-> IF rest = {} THEN "limits" ELSE "append", frames |-> rest]
  BY DEF AfterGroup
<1>3. rest = flush.frames \ Group
  OBVIOUS
<1> HIDE DEF rest
<1> QED BY <1>1, <1>2, <1>3

LEMMA FailsKeeps == ASSUME KeepInv, AppendFails, ArchiveStep PROVE KeepInv'
<1>0. TypeInv /\ UNCHANGED <<now, received, setting, retention, trace, restoring, snapshot, exporting, exported>>
  BY DataStays DEF KeepInv
<1>1. /\ UNCHANGED <<ready, index, files, savedIndex, writeBuffer, clearing>>
      /\ flush.pc = "append" /\ flush' = AfterGroup /\ excused' = excused \union Group
  BY DEF AppendFails
<1>2. flush.frames # {}
  BY <1>1 DEF KeepInv, FlushInv
<1>3. /\ flush' \in [pc : {"idle", "append", "appended", "limits", "save"}, frames : SUBSET Frame]
      /\ flush'.frames = flush.frames \ Group /\ IsFiniteSet(flush'.frames)
      /\ flush'.pc = IF flush'.frames = {} THEN "limits" ELSE "append"
  BY <1>0, <1>1, <1>2, AfterGroupIs
<1>4. TypeInv'
  BY <1>0, <1>1, <1>3 DEF TypeInv
<1>5. FlushInv'
  BY <1>3 DEF FlushInv
<1>6. ready
  BY <1>1 DEF KeepInv, ReadInv, Idle
<1>7. ReadInv'
  BY <1>1, <1>6 DEF KeepInv, ReadInv, Listed
<1>8. ExportInv'
  BY <1>0, <1>1, ExportKeeps DEF KeepInv
<1>9. Held \subseteq Held'
  BY <1>0, <1>1, <1>3 DEF Held, Unwritten, Stored
<1> QED BY <1>0, <1>4, <1>5, <1>7, <1>8, <1>9, HeldKeeps DEF KeepInv

\* An entry that is made or extended covers its group.
LEMMA EntryIs ==
  ASSUME TypeInv, flush.frames # {}
  PROVE  /\ NewEntry(GroupKey, Group) \in Entry /\ NewEntry(GroupKey, Group).key = GroupKey
         /\ NewEntry(GroupKey, Group).start = Earliest(Group) /\ NewEntry(GroupKey, Group).end = Latest(Group)
         /\ \A e \in index : /\ Extended(e, Group) \in Entry /\ Extended(e, Group).key = e.key
                             /\ Extended(e, Group).start = e.start /\ Extended(e, Group).end >= e.end
                             /\ Extended(e, Group).end >= Latest(Group)
<1> DEFINE k == GroupKey
           a == Earliest(Group)
           z == Latest(Group)
           c == Cardinality(Group)
<1>1. k \in Chunks /\ a \in 0 .. MaxTime /\ z \in 0 .. MaxTime /\ c \in Nat
  BY GroupIs, FS_CardinalityType
<1>2. NewEntry(k, Group) = [key |-> k, start |-> a, end |-> z, n |-> c]
  BY DEF NewEntry
<1>3. ASSUME NEW e \in index
      PROVE  /\ Extended(e, Group) \in Entry /\ Extended(e, Group).key = e.key
             /\ Extended(e, Group).start = e.start /\ Extended(e, Group).end >= e.end
             /\ Extended(e, Group).end >= z
  <2> DEFINE m == Max({e.end, z})
             j == e.n + c
  <2>1. Extended(e, Group) = [e EXCEPT !.end = m, !.n = j]
    BY DEF Extended
  <2>2. e \in Entry /\ e.end \in 0 .. MaxTime /\ e.n \in Nat
    BY DEF TypeInv, Entry
  <2>3. e.end \in Int /\ z \in Int
    BY <1>1, <2>2
  <2> HIDE DEF z, c
  <2>4. m \in {e.end, z} /\ m >= e.end /\ m >= z
    BY <2>3, OfTwo, Zenon
  <2>5. j \in Nat
    BY <1>1, <2>2
  <2> HIDE DEF m, j
  <2>6. m \in 0 .. MaxTime
    BY <1>1, <2>2, <2>4
  <2> DEFINE x == [e EXCEPT !.end = m, !.n = j]
  <2>7. x \in Entry /\ x.key = e.key /\ x.start = e.start /\ x.end = m
    BY <2>2, <2>5, <2>6 DEF Entry
  <2> HIDE DEF x
  <2> QED BY <2>1, <2>4, <2>7 DEF x
<1> HIDE DEF k, a, z, c
<1>4. /\ NewEntry(k, Group) \in Entry /\ NewEntry(k, Group).key = k
      /\ NewEntry(k, Group).start = a /\ NewEntry(k, Group).end = z
  BY <1>1, <1>2 DEF Entry
<1> QED BY <1>3, <1>4 DEF k, a, z

LEMMA EntersKeeps == ASSUME KeepInv, AppendIndex, ArchiveStep PROVE KeepInv'
<1>0. TypeInv /\ UNCHANGED <<now, received, setting, retention, trace, restoring, snapshot, exporting, exported>>
  BY DataStays DEF KeepInv
<1>1. /\ UNCHANGED <<ready, files, savedIndex, writeBuffer, clearing>>
      /\ flush.pc = "appended" /\ flush' = AfterGroup
  BY DEF AppendIndex
<1>2. flush.frames # {} /\ Group \subseteq files[GroupKey] \union excused
  BY <1>1 DEF KeepInv, FlushInv
<1>3. /\ flush' \in [pc : {"idle", "append", "appended", "limits", "save"}, frames : SUBSET Frame]
      /\ flush'.frames = flush.frames \ Group /\ IsFiniteSet(flush'.frames)
      /\ flush'.pc = IF flush'.frames = {} THEN "limits" ELSE "append"
  BY <1>0, <1>1, <1>2, AfterGroupIs
<1> DEFINE own == {e \in index : e.key = GroupKey}
<1>4. /\ index' = IF own # {} THEN (index \ own) \union {Extended(e, Group) : e \in own}
                  ELSE index \union {NewEntry(GroupKey, Group)}
      /\ excused' = excused \union
             {f \in files[GroupKey] : \E e \in index' : e.key = GroupKey /\ f.t < e.start}
  BY DEF AppendIndex
<1>5. /\ NewEntry(GroupKey, Group) \in Entry /\ NewEntry(GroupKey, Group).key = GroupKey
      /\ NewEntry(GroupKey, Group).start = Earliest(Group) /\ NewEntry(GroupKey, Group).end = Latest(Group)
      /\ \A e \in index : /\ Extended(e, Group) \in Entry /\ Extended(e, Group).key = e.key
                          /\ Extended(e, Group).start = e.start /\ Extended(e, Group).end >= e.end
                          /\ Extended(e, Group).end >= Latest(Group)
  BY <1>0, <1>2, EntryIs
<1>6. index' \subseteq Entry
  BY <1>0, <1>4, <1>5 DEF TypeInv
<1>7. TypeInv'
  BY <1>0, <1>1, <1>3, <1>6 DEF TypeInv
<1>8. FlushInv'
  BY <1>3 DEF FlushInv
<1>9. ready
  BY <1>1 DEF KeepInv, ReadInv, Idle
<1>10. ReadInv'
  <2> SUFFICES ASSUME ~clearing, NEW c \in Chunks, NEW f \in files[c] \ excused'
               PROVE  \E e \in index' : e.start <= f.t /\ f.t <= e.end /\ f \in files[e.key]
    BY <1>1, <1>9 DEF ReadInv, Listed
  <2>0. f \in files[c] \ excused /\ f \in Frame /\ f.t \in Int
    BY <1>0, <1>4, OfAFrame DEF TypeInv
  <2>1. Listed(index, f) \/ f \in Group
    BY <1>1, <1>9, <2>0 DEF KeepInv, ReadInv
  <2>2. CASE Listed(index, f)
    <3>1. PICK e \in index : e.start <= f.t /\ f.t <= e.end /\ f \in files[e.key]
      BY <2>2 DEF Listed
    <3>2. CASE e.key # GroupKey
      <4>1. e \in index'
        BY <1>4, <3>2
      <4> QED BY <3>1, <4>1
    <3>3. CASE e.key = GroupKey
      <4> DEFINE x == Extended(e, Group)
      <4>1. x \in index' /\ x.key = e.key /\ x.start = e.start /\ x.end >= e.end
        BY <1>4, <1>5, <3>3
      <4>2. x.end \in Int /\ e.end \in Int
        BY <1>0, <1>6, <4>1 DEF TypeInv, Entry
      <4> HIDE DEF x
      <4>3. f.t <= x.end
        BY <2>0, <3>1, <4>1, <4>2
      <4> QED BY <3>1, <4>1, <4>3
    <3> QED BY <3>2, <3>3
  <2>3. CASE f \in Group
    <3>1. f \in files[GroupKey] /\ Earliest(Group) <= f.t /\ f.t <= Latest(Group)
          /\ Latest(Group) \in Int
      BY <1>0, <1>2, <2>0, <2>3, GroupIs
    <3>2. CASE own = {}
      <4> DEFINE x == NewEntry(GroupKey, Group)
      <4>1. x \in index'
        BY <1>4, <3>2
      <4> QED BY <1>5, <3>1, <4>1
    <3>3. CASE own # {}
      <4>1. PICK e \in index : e.key = GroupKey
        BY <3>3
      <4> DEFINE x == Extended(e, Group)
      <4>2. x \in index' /\ x.key = GroupKey /\ x.end >= Latest(Group)
        BY <1>4, <1>5, <4>1
      <4>3. x.end \in Int /\ x.start \in Int
        BY <1>6, <4>2 DEF Entry
      <4> HIDE DEF x
      <4>4. ~(f.t < x.start)
        BY <1>4, <3>1, <4>2
      <4>5. f.t <= x.end /\ x.start <= f.t
        BY <2>0, <3>1, <4>2, <4>3, <4>4
      <4> QED BY <3>1, <4>2, <4>5
    <3> QED BY <3>2, <3>3
  <2> QED BY <2>1, <2>2, <2>3
<1>11. ExportInv'
  <2>1. excused \subseteq excused'
    BY <1>4
  <2> QED BY <1>0, <1>1, <2>1, ExportKeeps DEF KeepInv
<1>12. Held \subseteq Held'
  <2>1. GroupKey \in Chunks
    BY <1>0, <1>2, GroupIs
  <2>2. Group \subseteq Stored \union excused
    BY <1>2, <2>1 DEF Stored
  <2> QED BY <1>0, <1>1, <1>3, <1>4, <2>2 DEF Held, Unwritten, Stored
<1> QED BY <1>0, <1>7, <1>8, <1>10, <1>11, <1>12, HeldKeeps DEF KeepInv

LEMMA DropKeeps == ASSUME KeepInv, DropOldest, ArchiveStep PROVE KeepInv'
<1>0. TypeInv /\ UNCHANGED <<now, received, setting, retention, trace, restoring, snapshot, exporting, exported>>
  BY DataStays DEF KeepInv
<1>1. /\ UNCHANGED <<ready, savedIndex, writeBuffer, flush, clearing>> /\ flush.pc = "limits"
      /\ index' = index \ {Oldest} /\ excused' = excused \union files[Oldest.key]
      /\ files' = [files EXCEPT ![Oldest.key] = {}]
  BY DEF DropOldest
<1>2. /\ files' \in [Chunks -> SUBSET Frame]
      /\ \A c \in Chunks : files'[c] \subseteq files[c] /\ (c # Oldest.key => files'[c] = files[c])
      /\ \A c \in Chunks : files[c] \subseteq files'[c] \union excused'
  BY <1>0, <1>1 DEF TypeInv
<1>3. TypeInv'
  BY <1>0, <1>1, <1>2 DEF TypeInv
<1>4. FlushInv'
  BY <1>1 DEF KeepInv, FlushInv
<1>5. ready
  BY <1>1 DEF KeepInv, ReadInv, Idle
<1>6. ReadInv'
  <2> SUFFICES ASSUME ~clearing, NEW c \in Chunks, NEW f \in files'[c] \ excused' PROVE Listed(index, f)'
    BY <1>1, <1>5 DEF ReadInv
  <2>1. f \in files[c] \ excused /\ f \notin files[Oldest.key]
    BY <1>1, <1>2
  <2>2. PICK e \in index : e.start <= f.t /\ f.t <= e.end /\ f \in files[e.key]
    BY <1>1, <1>5, <2>1 DEF KeepInv, ReadInv, Listed
  <2>3. e # Oldest /\ e.key # Oldest.key /\ e.key \in Chunks
    BY <1>0, <2>1, <2>2 DEF TypeInv, Entry
  <2>4. e \in index' /\ f \in files'[e.key]
    BY <1>1, <1>2, <2>2, <2>3
  <2> QED BY <2>2, <2>4 DEF Listed
<1>7. ExportInv'
  BY <1>0, <1>1, <1>2, ExportKeeps DEF KeepInv
<1>8. Held \subseteq Held'
  BY <1>0, <1>1, <1>2 DEF Held, Unwritten, Stored
<1> QED BY <1>0, <1>3, <1>4, <1>6, <1>7, <1>8, HeldKeeps DEF KeepInv

\* The end of a flush, a timer, and the opening of the directory move no frame.
LEMMA EndsKeep == ASSUME KeepInv, LimitsKept \/ SaveIndex, ArchiveStep PROVE KeepInv'
<1>0. TypeInv /\ UNCHANGED <<now, received, setting, retention, trace, restoring, snapshot, exporting, exported>>
  BY DataStays DEF KeepInv
<1>1. UNCHANGED <<ready, index, files, writeBuffer, clearing, excused>> /\ flush.pc \in {"limits", "save"}
      /\ flush.frames = {} /\ savedIndex' \in {savedIndex, index}
  BY DEF LimitsKept, SaveIndex, KeepInv, FlushInv
<1>2. /\ flush' \in [pc : {"idle", "append", "appended", "limits", "save"}, frames : SUBSET Frame]
      /\ flush'.pc \in {"idle", "save"} /\ flush'.frames = {}
  <2>1. flush \in [pc : {"idle", "append", "appended", "limits", "save"}, frames : SUBSET Frame]
    BY <1>0 DEF TypeInv
  <2> QED BY <1>1, <2>1 DEF LimitsKept, SaveIndex, Idle
<1>3. IsFiniteSet(flush'.frames)
  BY <1>2, FS_EmptySet
<1>4. TypeInv'
  BY <1>0, <1>1, <1>2, <1>3 DEF TypeInv
<1>5. FlushInv'
  BY <1>2 DEF FlushInv
<1>6. ready
  BY <1>1 DEF KeepInv, ReadInv, Idle
<1>7. ReadInv'
  BY <1>1, <1>6 DEF KeepInv, ReadInv, Listed
<1>8. ExportInv'
  BY <1>0, <1>1, ExportKeeps DEF KeepInv
<1>9. Held \subseteq Held'
  BY <1>0, <1>1, <1>2 DEF Held, Unwritten, Stored
<1> QED BY <1>0, <1>4, <1>5, <1>7, <1>8, <1>9, HeldKeeps DEF KeepInv

LEMMA OpensKeeps == ASSUME KeepInv, ColdStoreOpens \/ FlushTimerFires, ArchiveStep PROVE KeepInv'
<1>0. TypeInv /\ UNCHANGED <<now, received, setting, retention, trace, restoring, snapshot, exporting, exported>>
  BY DataStays DEF KeepInv
<1>1. UNCHANGED <<files, savedIndex, writeBuffer, flush, clearing, excused>>
      /\ (UNCHANGED <<ready, index>> \/ (~ready /\ ready' /\ index' = savedIndex))
  BY DEF ColdStoreOpens, FlushTimerFires
<1>2. TypeInv'
  BY <1>0, <1>1 DEF TypeInv
<1>3. FlushInv'
  BY <1>1 DEF KeepInv, FlushInv, Group, GroupKey
<1>4. ReadInv'
  BY <1>1 DEF KeepInv, ReadInv, Listed, Group, GroupKey
<1>5. ExportInv'
  BY <1>0, <1>1, ExportKeeps DEF KeepInv
<1>6. Held \subseteq Held'
  BY <1>0, <1>1 DEF Held, Unwritten, Stored
<1> QED BY <1>0, <1>2, <1>3, <1>4, <1>5, <1>6, HeldKeeps DEF KeepInv

LEMMA ClearFilesKeeps == ASSUME KeepInv, ClearFiles, ready, ArchiveStep PROVE KeepInv'
<1>0. TypeInv /\ UNCHANGED <<now, received, setting, retention, trace, restoring, snapshot, exporting, exported>>
  BY DataStays DEF KeepInv
<1>1. /\ UNCHANGED <<ready, index, writeBuffer, flush>> /\ clearing' /\ savedIndex' = {}
      /\ files' = [c \in Chunks |-> IF \E e \in index : e.key = c THEN {} ELSE files[c]]
      /\ excused' = excused \union UNION {files[e.key] : e \in index}
  BY DEF ClearFiles
<1>2. /\ files' \in [Chunks -> SUBSET Frame]
      /\ \A c \in Chunks : files[c] \subseteq files'[c] \union excused'
  BY <1>0, <1>1 DEF TypeInv
<1>3. TypeInv'
  BY <1>0, <1>1, <1>2 DEF TypeInv
<1>4. GroupKey' = GroupKey /\ Group' = Group
  BY <1>1 DEF Group, GroupKey
<1>5. FlushInv'
  <2>1. ASSUME flush.pc = "appended" PROVE Group \subseteq files'[GroupKey] \union excused'
    <3>1. flush.frames # {} /\ Group \subseteq files[GroupKey] \union excused
      BY <2>1 DEF KeepInv, FlushInv
    <3>2. GroupKey \in Chunks
      BY <1>0, <3>1, GroupIs
    <3> QED BY <1>1, <1>2, <3>1, <3>2
  <2> QED BY <1>1, <1>4, <2>1 DEF KeepInv, FlushInv
<1>6. ReadInv'
  BY <1>1 DEF ReadInv
<1>7. ExportInv'
  BY <1>0, <1>1, <1>2, ExportKeeps DEF KeepInv
<1>8. Held \subseteq Held'
  BY <1>0, <1>1, <1>2 DEF Held, Unwritten, Stored
<1> QED BY <1>0, <1>3, <1>5, <1>6, <1>7, <1>8, HeldKeeps DEF KeepInv

\* The page ends: what the saved index does not list is excused.
LEMMA LostKeeps ==
  ASSUME KeepInv, NEW kept \in Seq(Frame), kept # <<>> => snapshot # None, MemoryLost(kept),
         exporting' = None, exported' = None
  PROVE  KeepInv'
<1>0. TypeInv /\ KeptInv
  BY DEF KeepInv
<1>1. /\ trace' = <<>> /\ restoring' = kept /\ UNCHANGED <<now, setting, received, files, savedIndex>>
      /\ snapshot' = IF kept = <<>> THEN None ELSE snapshot
      /\ retention' = IF kept = <<>> THEN setting ELSE snapshot.retention
      /\ ready' = FALSE /\ index' = {} /\ writeBuffer' = <<>> /\ flush' = Idle
  BY DEF MemoryLost, ColdStoreDies
<1>2. /\ excused \subseteq excused' /\ Unwritten \subseteq excused'
      /\ (ToSet(trace) \union ToSet(restoring)) \ ToSet(kept) \subseteq excused'
      /\ Stored \ FoundBy(savedIndex) \subseteq excused'
  BY DEF MemoryLost, ColdStoreDies
<1>3. /\ flush' \in [pc : {"idle", "append", "appended", "limits", "save"}, frames : SUBSET Frame]
      /\ flush'.pc = "idle" /\ flush'.frames = {} /\ IsFiniteSet(flush'.frames)
  BY <1>1, FS_EmptySet DEF Idle
<1>4. TypeInv'
  <2>1. retention' \in Retentions /\ (snapshot' # None => snapshot'.frames \in Seq(Frame) /\ snapshot'.retention \in Retentions)
    BY <1>0, <1>1 DEF TypeInv
  <2>2. trace' \in Seq(Frame) /\ writeBuffer' \in Seq(Frame) /\ restoring' \in Seq(Frame)
    BY <1>1
  <2> QED BY <1>0, <1>1, <1>3, <2>1, <2>2 DEF TypeInv
<1>5. FlushInv'
  BY <1>3 DEF FlushInv
<1>6. ReadInv'
  <2>1. ASSUME NEW c \in Chunks, NEW f \in files[c] \ excused' PROVE Listed(savedIndex, f)
    <3>1. f \in FoundBy(savedIndex)
      BY <1>2, <2>1 DEF Stored
    <3> QED BY <3>1 DEF Listed, FoundBy
  <2>2. ASSUME NEW c \in Chunks, NEW f \in (files[c])' \ excused' PROVE Listed(savedIndex, f)'
    <3>1. f \in files[c] \ excused'
      BY <1>1, <2>2
    <3>2. Listed(savedIndex, f)
      BY <2>1, <3>1
    <3> QED BY <1>1, <3>2 DEF Listed
  <2> QED BY <1>1, <2>2 DEF ReadInv, Idle
<1>7. ExportInv'
  BY DEF ExportInv, ExportComplete
<1>8. Held \subseteq Held'
  <2>1. Stored' = Stored
    BY <1>1 DEF Stored
  <2> QED BY <1>1, <1>2, <2>1 DEF Held
<1> QED BY <1>0, <1>1, <1>4, <1>5, <1>6, <1>7, <1>8, HeldKeeps DEF KeepInv

\* An export begins with a copy of memory and the names of the files to read.
SourceInv == active \in Sources
LEMMA ExportBeginsSafe == ASSUME KeepInv, SourceInv, ExportBegins PROVE ExportInv'
<1> DEFINE Begun(from, to) ==
             exporting' = [from |-> from, to |-> to, source |-> active,
                           hot |-> InRange(ToSet(IF active = "live" THEN trace ELSE session.frames), from, to),
                           keys |-> IF ready THEN Relevant(from, to) ELSE {},
                           due |-> IF active = "replay" THEN InRange(ToSet(session.frames), from, to)
                                   ELSE InRange(ToSet(trace), from, to) \union LoadRange(from, to)]
<1>1. \E from, to : Begun(from, to)
  BY Zenon DEF ExportBegins
<1>2. PICK from, to : Begun(from, to)
  BY <1>1, Zenon
<1> DEFINE e == exporting'
           k == IF ready THEN Relevant(from, to) ELSE {}
           h == InRange(ToSet(IF active = "live" THEN trace ELSE session.frames), from, to)
           d == IF active = "replay" THEN InRange(ToSet(session.frames), from, to)
                ELSE InRange(ToSet(trace), from, to) \union LoadRange(from, to)
<1>3. e = [from |-> from, to |-> to, source |-> active, hot |-> h, keys |-> k, due |-> d]
  BY <1>2, Zenon
<1>4. k \subseteq Chunks
  BY DEF Relevant, KeepInv, TypeInv, Entry
<1>5. CASE active = "replay"
  <2>1. d = h
    BY <1>5
  <2> HIDE DEF k, h, d
  <2>2. e.keys = k /\ e.hot = h /\ e.due = d
    BY <1>3
  <2> QED BY <1>4, <2>1, <2>2 DEF ExportInv, ExportComplete, KeepInv, ExportBegins, dataVars, coldVars
<1>6. CASE active = "live"
  <2>1. d \subseteq h \union ReadChunks(k, from, to)
    BY <1>6 DEF LoadRange
  <2> HIDE DEF k, h, d
  <2>2. e.keys = k /\ e.hot = h /\ e.due = d /\ e.source = "live" /\ e.from = from /\ e.to = to
    BY <1>3, <1>6
  <2>3. files' = files /\ excused' = excused /\ exported' = exported
    BY DEF ExportBegins, coldVars
  <2>4. ArchivePart(exporting)' = ReadChunks(k, from, to)
    BY <2>2, <2>3 DEF ArchivePart, ReadChunks
  <2>5. ExportComplete'
    BY <2>3 DEF ExportComplete, KeepInv, ExportInv
  <2> QED BY <1>4, <2>1, <2>2, <2>4, <2>5 DEF ExportInv
<1> QED BY <1>5, <1>6 DEF SourceInv, Sources

LEMMA ExportEndsSafe == ASSUME KeepInv, ExportEnds PROVE ExportInv'
<1>1. exporting # None /\ exporting' = None /\ excused' = excused
      /\ exported' = [frames |-> exporting.hot \union ArchivePart(exporting), due |-> exporting.due]
  BY DEF ExportEnds, coldVars
<1> DEFINE all == exporting.hot \union ArchivePart(exporting)
           due == exporting.due
<1>2. due \ excused \subseteq all
  BY <1>1 DEF KeepInv, ExportInv
<1>3. exported' = [frames |-> all, due |-> due]
  BY <1>1
<1> HIDE DEF all, due
<1>4. exported'.frames = all /\ exported'.due = due
  BY <1>3
<1> QED BY <1>1, <1>2, <1>4 DEF ExportInv, ExportComplete

----------------------------------------------------------------------------
(* The whole.                                                                 *)

LEMMA KeepStart == Init => KeepInv /\ SourceInv
<1> SUFFICES ASSUME Init PROVE KeepInv /\ SourceInv
  OBVIOUS
<1>1. TypeInv
  <2>1. flush = [pc |-> "idle", frames |-> {}] /\ IsFiniteSet({})
    BY FS_EmptySet DEF Init, ColdInit, Idle
  <2>2. flush \in [pc : {"idle", "append", "appended", "limits", "save"}, frames : SUBSET Frame]
        /\ flush.frames = {}
    BY <2>1
  <2>3. files \in [Chunks -> SUBSET Frame]
    BY DEF Init, ColdInit
  <2>4. now \in 0 .. MaxTime /\ received \in 0 .. MaxFrames
    BY Limits DEF Init, DataInit
  <2>5. /\ setting \in Retentions /\ retention \in Retentions /\ snapshot = None
        /\ trace \in Seq(Frame) /\ restoring \in Seq(Frame) /\ writeBuffer \in Seq(Frame)
        /\ index = {} /\ savedIndex = {}
    BY DEF Init, ColdInit, DataInit
  <2> QED BY <2>1, <2>2, <2>3, <2>4, <2>5 DEF TypeInv
<1>2. flush = Idle /\ flush.pc = "idle" /\ flush.frames = {}
  BY DEF Init, ColdInit, Idle
<1>3. ReadInv
  BY <1>2 DEF Init, ColdInit, ReadInv
<1>4. FlushInv
  BY <1>2 DEF FlushInv
<1>5. ExportInv
  BY DEF Init, TimelineInit, ExportInv, ExportComplete
<1>6. KeptInv
  BY DEF Init, DataInit, KeptInv
<1>7. SourceInv
  BY DEF Init, DataInit, SourceInv, Sources
<1> QED BY <1>1, <1>3, <1>4, <1>5, <1>6, <1>7 DEF KeepInv

\* The user's other steps, and what the page does by itself, move no frame.
Rests == UNCHANGED <<now, received, setting, retention, trace, restoring, snapshot, coldVars, exporting, exported>>
LEMMA RestsKeeps == ASSUME KeepInv, Rests PROVE KeepInv'
<1>1. ExportInv'
  BY ExportKeeps DEF KeepInv, Rests, coldVars
<1> QED BY <1>1, NothingMoves DEF Rests

LEMMA SeekRests == ASSUME NEW t, Seek(t) PROVE Rests
BY Zenon DEF Seek, Rests, coldVars, jobVars
LEMMA MarksRest == ASSUME NEW cps, SetCheckpoints(cps) PROVE Rests
BY Zenon DEF SetCheckpoints, Rests, coldVars, dataVars, jobVars
LEMMA PageRests ==
  ASSUME Waiting \/ BoundsUpdated \/ CursorFollowsClock \/ ReplayLoaded \/ UserSeeks \/ UserClips \/ UserMarks
         \/ UserImports
  PROVE  Rests
<1>1. CASE Waiting
  BY <1>1 DEF Waiting, WarmCacheLoaded, Rests, coldVars, timelineVars, jobVars
<1>2. CASE BoundsUpdated \/ CursorFollowsClock
  BY <1>2 DEF BoundsUpdated, CursorFollowsClock, Rests, coldVars, dataVars, jobVars
<1>3. CASE ReplayLoaded
  BY <1>3 DEF ReplayLoaded, Rests, coldVars
<1>4. CASE UserSeeks
  <2>1. CASE GoLive
    BY <2>1 DEF GoLive, Rests, coldVars, dataVars, jobVars
  <2>2. CASE DragCursor \/ Pause
    <3>1. \E t : Seek(t)
      BY <2>2, Zenon DEF DragCursor, Pause, SeekOnly
    <3> QED BY <3>1, SeekRests
  <2> QED BY <1>4, <2>1, <2>2 DEF UserSeeks
<1>5. CASE UserClips
  <2>1. CASE MoveClip
    BY <2>1 DEF MoveClip, Rests, coldVars, dataVars, jobVars
  <2>2. CASE SetClip
    <3>1. (\E t : Seek(t)) \/ UNCHANGED <<coldVars, dataVars, jobVars>>
      BY <2>2, Zenon DEF SetClip
    <3>2. UNCHANGED <<coldVars, dataVars, jobVars>> => Rests
      BY DEF Rests, dataVars, jobVars
    <3> QED BY <3>1, <3>2, SeekRests
  <2> QED BY <1>5, <2>1, <2>2 DEF UserClips
<1>6. CASE UserMarks
  <2>1. (\E t : Seek(t)) \/ (\E cps : SetCheckpoints(cps))
    BY <1>6, Zenon DEF UserMarks, JumpToCheckpoint, SeekOnly, AddCheckpoint, DeleteCheckpoint, ClearCheckpoints
  <2> QED BY <2>1, SeekRests, MarksRest
<1>7. CASE UserImports
  <2>1. CASE ClearReplaySession
    BY <2>1 DEF ClearReplaySession, Rests, coldVars, jobVars
  <2>2. CASE ImportPicked \/ ClipChosen
    BY <2>2 DEF ImportPicked, ClipChosen, Rests, coldVars, dataVars
  <2> QED BY <1>7, <2>1, <2>2 DEF UserImports
<1> QED BY <1>1, <1>2, <1>3, <1>4, <1>5, <1>6, <1>7

LEMMA BackgroundKeeps == ASSUME KeepInv, Background \/ AppendFails, ArchiveStep PROVE KeepInv'
BY OpensKeeps, BeginsKeeps, AppendKeeps, FailsKeeps, EntersKeeps, DropKeeps, EndsKeep DEF Background

LEMMA ReloadKeeps == ASSUME KeepInv, Reload \/ ClearSession PROVE KeepInv'
<1>1. exporting' = None /\ exported' = None
  BY DEF Reload, ClearSession, TimelineDies
<1>2. CASE Reload
  <2>1. MemoryLost(Restorable)
    BY <1>2 DEF Reload, DataStoreDies
  <2>2. Restorable \in Seq(Frame) /\ (Restorable # <<>> => snapshot # None)
    BY DEF Restorable, KeepInv, TypeInv
  <2> QED BY <1>1, <2>1, <2>2, LostKeeps
<1>3. CASE ClearSession
  <2>1. MemoryLost(<<>>) /\ <<>> \in Seq(Frame)
    BY <1>3 DEF ClearSession
  <2> QED BY <1>1, <2>1, LostKeeps
<1> QED BY <1>2, <1>3

LEMMA KeepStep == ASSUME KeepInv, SourceInv, [Next]_vars PROVE KeepInv'
<1>0. UNCHANGED timelineVars => ExportsRest
  BY DEF timelineVars, jobVars, ExportsRest
<1>1. CASE (Feed \/ Restore \/ Archive) /\ UNCHANGED timelineVars
  <2>1. ExportsRest
    BY <1>0, <1>1
  <2>2. CASE Feed \/ Restore
    BY <2>1, <2>2, MessageKeeps, TickKeeps, RestoreKeeps, SnapshotKeeps DEF Feed, Restore
  <2>3. CASE Archive
    <3>1. Background /\ ArchiveStep
      BY <2>1, <2>3 DEF Archive, ArchiveStep
    <3> QED BY <3>1, BackgroundKeeps
  <2> QED BY <1>1, <2>2, <2>3
<1>2. CASE ExportBegins \/ ExportEnds
  <2>1. UNCHANGED <<now, received, setting, retention, trace, restoring, snapshot, coldVars>>
    BY <1>2 DEF ExportBegins, ExportEnds, dataVars
  <2>2. ExportInv'
    BY <1>2, ExportBeginsSafe, ExportEndsSafe
  <2> QED BY <2>1, <2>2, NothingMoves
<1>3. CASE Faults \/ ClearSession
  <2>1. CASE AppendFails /\ UNCHANGED <<dataVars, timelineVars>>
    <3>1. ArchiveStep
      BY <2>1 DEF ArchiveStep, ExportsRest, timelineVars, jobVars
    <3> QED BY <2>1, <3>1, BackgroundKeeps
  <2> QED BY <1>3, <2>1, ReloadKeeps DEF Faults
<1>4. CASE UserClears
  <2>1. CASE (SetRetention \/ ClearData \/ ClearTrace) /\ UNCHANGED timelineVars
    BY <1>0, <2>1, RetentionKeeps, ClearsKeep
  <2>2. CASE ClearFiles /\ ready /\ UNCHANGED <<dataVars, timelineVars>>
    <3>1. ArchiveStep
      BY <2>2 DEF ArchiveStep, ExportsRest, timelineVars, jobVars
    <3> QED BY <2>2, <3>1, ClearFilesKeeps
  <2> QED BY <1>4, <2>1, <2>2 DEF UserClears
<1>5. CASE Waiting \/ BoundsUpdated \/ CursorFollowsClock \/ ReplayLoaded \/ UserSeeks \/ UserClips \/ UserMarks
           \/ UserImports
  BY <1>5, PageRests, RestsKeeps
<1>6. CASE UNCHANGED vars
  <2>1. Rests
    BY <1>6 DEF vars, dataVars, timelineVars, jobVars, Rests
  <2> QED BY <2>1, RestsKeeps
<1> QED BY <1>1, <1>2, <1>3, <1>4, <1>5, <1>6 DEF Next

LEMMA SourceStep == ASSUME SourceInv, [Next]_vars PROVE SourceInv'
<1>1. active' = active \/ active' \in {"live", "replay"}
  <2>1. CASE UNCHANGED dataVars \/ UNCHANGED vars
    BY <2>1 DEF vars, dataVars
  <2>2. CASE Feed \/ Restore
    BY <2>2 DEF Feed, Restore, IngestMessage, Tick, RestoreSnapshot, PersistSnapshot
  <2>3. CASE Waiting
    BY <2>3 DEF Waiting, WarmCacheLoaded
  <2>4. CASE \E t : Seek(t)
    BY <2>4 DEF Seek
  <2>5. CASE \E cps : SetCheckpoints(cps)
    BY <2>5 DEF SetCheckpoints, dataVars
  <2>6. CASE ReplayLoaded \/ ClearReplaySession
    BY <2>6 DEF ReplayLoaded, ClearReplaySession
  <2>7. CASE Reload \/ ClearSession
    BY <2>7 DEF Reload, ClearSession, DataStoreDies, MemoryLost
  <2>8. CASE SetRetention \/ ClearData \/ ClearTrace
    BY <2>8 DEF SetRetention, ClearData, ClearTrace
  <2>9. CASE GoLive \/ BoundsUpdated \/ CursorFollowsClock \/ ExportBegins \/ ExportEnds \/ MoveClip
             \/ ImportPicked \/ ClipChosen
    BY <2>9, Zenon DEF GoLive, BoundsUpdated, CursorFollowsClock, ExportBegins, ExportEnds, MoveClip,
                       ImportPicked, ClipChosen, dataVars
  <2>10. SetClip => (\E t : Seek(t)) \/ UNCHANGED dataVars
    BY Zenon DEF SetClip
  <2>11. UserSeeks => (\E t : Seek(t)) \/ GoLive
    BY Zenon DEF UserSeeks, DragCursor, Pause, SeekOnly
  <2>12. UserMarks => (\E t : Seek(t)) \/ (\E cps : SetCheckpoints(cps))
    BY Zenon DEF UserMarks, JumpToCheckpoint, SeekOnly, AddCheckpoint, DeleteCheckpoint, ClearCheckpoints
  <2> QED BY <2>1, <2>2, <2>3, <2>4, <2>5, <2>6, <2>7, <2>8, <2>9, <2>10, <2>11, <2>12
          DEF Next, Archive, Faults, UserClears, UserClips, UserImports
<1> QED BY <1>1 DEF SourceInv, Sources

LEMMA KeptAlways == Spec => [](KeepInv /\ SourceInv)
<1>1. KeepInv /\ SourceInv /\ [Next]_vars => (KeepInv /\ SourceInv)'
  BY KeepStep, SourceStep
<1> QED BY <1>1, KeepStart, PTL DEF Spec

\* What the invariant says of frames is what is promised of them.
LEMMA KeptMeans == ASSUME KeepInv PROVE FramesAreKept
<1>1. NoFrameVanishes
  BY DEF NoFrameVanishes, KeepInv, KeptInv, Held
<1>2. ArchiveIsReadable
  <2> SUFFICES ASSUME ready, ~clearing, flush.pc = "idle", NEW c \in Chunks, NEW f \in files[c] \ excused
               PROVE  f \in LoadRange(f.t, f.t)
    BY DEF ArchiveIsReadable
  <2>1. PICK e \in index : e.start <= f.t /\ f.t <= e.end /\ f \in files[e.key]
    BY DEF KeepInv, ReadInv, Listed
  <2>2. f.t \in Int /\ e.end \in Int
    BY OfAFrame DEF KeepInv, TypeInv, Entry
  <2>3. e.key \in Relevant(f.t, f.t)
    BY <2>1, <2>2 DEF Relevant
  <2> QED BY <2>1, <2>2, <2>3 DEF LoadRange, ReadChunks
<1> QED BY <1>1, <1>2 DEF FramesAreKept, KeepInv, ExportInv

\* For every archive, limit and session: no frame vanishes between memory, the queue, the
\* chunks and a reloaded page; a read finds what the archive has; an export holds what there was.
THEOREM FramesKept == Spec => []FramesAreKept
<1>1. KeepInv => FramesAreKept
  BY KeptMeans
<1> QED BY <1>1, KeptAlways, PTL

----------------------------------------------------------------------------
(* The limits cost the oldest frames. The entries of an index are in the      *)
(* order of their chunks, one for each.                                       *)

KeyOf(t) == (t \div ChunkLen) * ChunkLen
Ordered(entries) ==
  /\ \A e \in entries : e.key = KeyOf(e.start)
  /\ \A e, o \in entries : e.key = o.key => e = o
IndexInv == Ordered(index) /\ Ordered(savedIndex)

LEMMA KeysAscend ==
  ASSUME NEW s \in Nat, NEW t \in Nat, s <= t PROVE KeyOf(s) <= KeyOf(t) /\ KeyOf(s) \in Nat /\ KeyOf(t) \in Nat
<1> DEFINE p == s \div ChunkLen
           q == t \div ChunkLen
<1>1. ChunkLen \in Nat \ {0}
  BY Limits
<1>2. p \in Nat /\ p * ChunkLen <= s /\ s < p * ChunkLen + ChunkLen
  BY <1>1
<1>3. q \in Nat /\ q * ChunkLen <= t /\ t < q * ChunkLen + ChunkLen
  BY <1>1
<1>4. KeyOf(s) = p * ChunkLen /\ KeyOf(t) = q * ChunkLen
  BY DEF KeyOf
<1> HIDE DEF p, q
<1>5. q < p => q * ChunkLen + ChunkLen <= p * ChunkLen
  BY <1>1, <1>2, <1>3
<1>6. p * ChunkLen \in Nat /\ q * ChunkLen \in Nat
  BY <1>1, <1>2, <1>3
<1>7. ~(q < p)
  BY <1>1, <1>2, <1>3, <1>5, <1>6
<1>8. p <= q => p * ChunkLen <= q * ChunkLen
  BY <1>1, <1>2, <1>3
<1> QED BY <1>2, <1>3, <1>4, <1>6, <1>7, <1>8

\* What a step does to the archive.
ColdStep ==
  \/ UNCHANGED <<index, savedIndex, files>>
  \/ Background
  \/ ClearFiles
  \/ index' = {} /\ UNCHANGED <<savedIndex, files>>
LEMMA StepsOfTheArchive == ASSUME [Next]_vars PROVE ColdStep
<1>1. CASE UNCHANGED coldVars \/ UNCHANGED vars
  BY <1>1 DEF vars, coldVars, ColdStep
<1>2. CASE Feed \/ Restore
  BY <1>2 DEF Feed, Restore, IngestMessage, Tick, RestoreSnapshot, PersistSnapshot, coldVars, ColdStep
<1>3. CASE Archive
  BY <1>3 DEF Archive, ColdStep
<1>4. CASE Faults \/ ClearSession
  BY <1>4 DEF Faults, AppendFails, Reload, ClearSession, DataStoreDies, MemoryLost, ColdStoreDies, ColdStep
<1>5. CASE UserClears
  BY <1>5 DEF UserClears, SetRetention, ClearData, ClearTrace, ColdStep
<1>6. CASE ExportBegins \/ ExportEnds
  BY <1>6 DEF ExportBegins, ExportEnds, coldVars, ColdStep
<1>7. CASE Waiting \/ BoundsUpdated \/ CursorFollowsClock \/ ReplayLoaded \/ UserSeeks \/ UserClips \/ UserMarks
           \/ UserImports
  <2>1. Rests
    BY <1>7, PageRests
  <2> QED BY <2>1 DEF Rests, coldVars, ColdStep
<1> QED BY <1>1, <1>2, <1>3, <1>4, <1>5, <1>6, <1>7 DEF Next

LEMMA EnteredInOrder == ASSUME KeepInv, IndexInv, AppendIndex PROVE Ordered(index)'
<1>0. TypeInv
  BY DEF KeepInv
<1>1. flush.frames # {}
  BY DEF AppendIndex, KeepInv, FlushInv
<1> DEFINE own == {e \in index : e.key = GroupKey}
           made == NewEntry(GroupKey, Group)
<1>2. index' = IF own # {} THEN (index \ own) \union {Extended(e, Group) : e \in own} ELSE index \union {made}
  BY DEF AppendIndex
<1>3. /\ made.key = GroupKey /\ made.start = Earliest(Group)
      /\ \A e \in index : Extended(e, Group).key = e.key /\ Extended(e, Group).start = e.start
  BY <1>0, <1>1, EntryIs
<1>4. KeyOf(Earliest(Group)) = GroupKey
  <2> DEFINE T == {f.t : f \in Group}
  <2>1. T \in SUBSET (0 .. MaxTime) /\ T # {} /\ \A f \in Group : ChunkOf(f) = GroupKey
    BY <1>0, <1>1, GroupIs, OfAFrame
  <2>2. Min(T) \in T
    <3> HIDE DEF T
    <3> QED BY <2>1, Limits, Bounded
  <2>3. PICK f \in Group : f.t = Earliest(Group)
    BY <2>2 DEF Earliest
  <2> QED BY <2>1, <2>3 DEF ChunkOf, KeyOf
<1>5. CASE own # {}
  <2>1. PICK o \in index : o.key = GroupKey /\ own = {o}
    BY <1>5 DEF IndexInv, Ordered
  <2> DEFINE x == Extended(o, Group)
  <2>2. index' = (index \ {o}) \union {x}
    BY <1>2, <2>1
  <2>3. x.key = o.key /\ x.start = o.start
    BY <1>3, <2>1
  <2> HIDE DEF x, own, made
  <2>4. \A e \in index' : e.key = KeyOf(e.start)
    BY <2>1, <2>2, <2>3 DEF IndexInv, Ordered
  <2>5. \A e \in index \ {o} : e.key # x.key
    BY <2>1, <2>3 DEF IndexInv, Ordered
  <2>6. \A e, p \in index' : e.key = p.key => e = p
    BY <2>2, <2>5 DEF IndexInv, Ordered
  <2> QED BY <2>4, <2>6 DEF Ordered, KeyOf
<1>6. CASE own = {}
  <2>1. index' = index \union {made} /\ \A e \in index : e.key # made.key
    BY <1>2, <1>3, <1>6
  <2> HIDE DEF own, made
  <2>2. \A e \in index' : e.key = KeyOf(e.start)
    BY <1>3, <1>4, <2>1 DEF IndexInv, Ordered
  <2>3. \A e, p \in index' : e.key = p.key => e = p
    BY <2>1 DEF IndexInv, Ordered
  <2> QED BY <2>2, <2>3 DEF Ordered, KeyOf
<1> QED BY <1>5, <1>6

LEMMA IndexStep == ASSUME KeepInv, IndexInv, [Next]_vars PROVE IndexInv'
<1>1. ColdStep
  BY StepsOfTheArchive
<1>2. CASE AppendIndex
  <2>1. savedIndex' = savedIndex
    BY <1>2 DEF AppendIndex
  <2> QED BY <1>2, <2>1, EnteredInOrder DEF IndexInv, Ordered, KeyOf
<1>3. CASE ~AppendIndex
  <2>1. /\ index' \subseteq index \/ index' \subseteq savedIndex
        /\ savedIndex' \subseteq index \/ savedIndex' \subseteq savedIndex
    BY <1>1, <1>3 DEF ColdStep, Background, ColdStoreOpens, FlushTimerFires, FlushBegins, AppendFile, DropOldest,
                      LimitsKept, SaveIndex, ClearFiles
  <2> QED BY <2>1 DEF IndexInv, Ordered, KeyOf
<1> QED BY <1>2, <1>3

LEMMA IndexAlways == Spec => []IndexInv
<1>1. Init => IndexInv
  BY DEF Init, ColdInit, IndexInv, Ordered
<1>2. KeepInv /\ IndexInv /\ [Next]_vars => IndexInv'
  BY IndexStep
<1> QED BY <1>1, <1>2, KeptAlways, PTL DEF Spec

\* The oldest entry is one, and begins first.
LEMMA OldestIs ==
  ASSUME TypeInv, index # {} PROVE Oldest \in index /\ \A o \in index : Oldest.start <= o.start
<1> DEFINE T == {o.start : o \in index}
<1>1. T \in SUBSET Nat /\ T # {}
  BY DEF TypeInv, Entry
<1>2. PICK x \in T : \A y \in T : x <= y
  <2> HIDE DEF T
  <2> QED BY <1>1, LeastNat
<1>3. \E o \in index : \A p \in index : o.start <= p.start
  BY <1>2
<1> QED BY <1>3 DEF Oldest

\* A chunk that goes is before those that stay.
LEMMA DropsFirst ==
  ASSUME KeepInv, IndexInv, DropOldest, NEW c \in Chunks, files[c] # {}, files'[c] = {}, NEW e \in index'
  PROVE  c < e.key
<1>1. index # {} /\ index \subseteq Entry /\ files \in [Chunks -> SUBSET Frame]
  BY DEF KeepInv, TypeInv, DropOldest
<1>2. Oldest \in index /\ \A o \in index : Oldest.start <= o.start
  BY <1>1, OldestIs DEF KeepInv
<1>3. c = Oldest.key /\ e \in index /\ e # Oldest
  BY <1>1 DEF DropOldest
<1>4. Oldest.start \in Nat /\ e.start \in Nat /\ Oldest.start <= e.start
  BY <1>1, <1>2, <1>3 DEF Entry
<1>5. Oldest.key = KeyOf(Oldest.start) /\ e.key = KeyOf(e.start) /\ e.key # Oldest.key
  BY <1>2, <1>3 DEF IndexInv, Ordered
<1> QED BY <1>3, <1>4, <1>5, KeysAscend

\* Whatever the order in which the chunks were begun, the limits of the archive remove the
\* oldest of them.
THEOREM OldestGo == Spec => OldestGoFirst
<1> DEFINE A == \A c \in Chunks :
                  flush'.pc = "limits" /\ ~clearing' /\ files[c] # {} /\ files'[c] = {} => \A e \in index' : c < e.key
<1>1. ASSUME KeepInv, IndexInv, [Next]_vars PROVE A
  <2> SUFFICES ASSUME NEW c \in Chunks, ~clearing', files[c] # {}, files'[c] = {}, NEW e \in index'
               PROVE  c < e.key
    OBVIOUS
  <2>1. ColdStep
    BY <1>1, StepsOfTheArchive
  <2>2. files' # files
    OBVIOUS
  <2>3. ~ClearFiles
    BY DEF ClearFiles
  <2>4. AppendFile \/ DropOldest
    BY <2>1, <2>2, <2>3 DEF ColdStep, Background, ColdStoreOpens, FlushTimerFires, FlushBegins, AppendIndex,
                            LimitsKept, SaveIndex
  <2>5. ~AppendFile
    BY <1>1 DEF AppendFile, KeepInv, TypeInv
  <2> QED BY <1>1, <2>4, <2>5, DropsFirst
<1>2. KeepInv /\ IndexInv /\ [Next]_vars => [A]_coldVars
  BY <1>1
<1>3. Spec => [][A]_coldVars
  <2> HIDE DEF A
  <2> QED BY <1>2, IndexAlways, KeptAlways, PTL DEF Spec
<1> QED BY <1>3 DEF OldestGoFirst

----------------------------------------------------------------------------
(* The past is served. First, what the searches find.                         *)

\* The last of the elements that are not after t, if there is one.
FoundIn(s, t, x) ==
  IF \E f \in ToSet(s) : f.t <= t
  THEN x \in ToSet(s) /\ x.t <= t /\ \A f \in ToSet(s) : f.t <= t => f.t <= x.t
  ELSE x = None

\* In a sorted array, the element at the end of those that are not after t.
LEMMA FoundAt ==
  ASSUME NEW s, Timed(s), NEW t \in Int, InSequence(s), NEW k \in 0 .. Len(s),
         \A i \in 1 .. k : s[i].t <= t, \A i \in k + 1 .. Len(s) : s[i].t > t
  PROVE  FoundIn(s, t, IF k > 0 THEN s[k] ELSE None)
<1>1. Len(s) \in Nat /\ DOMAIN s = 1 .. Len(s) /\ \A i \in 1 .. Len(s) : s[i].t \in Int /\ s[i] \in ToSet(s)
  BY TimedSeq
<1>2. \A f \in ToSet(s) : \E i \in 1 .. Len(s) : f = s[i]
  BY <1>1 DEF ToSet
<1>3. \A i \in 1 .. Len(s) : s[i].t <= t <=> i <= k
  BY <1>1
<1>4. CASE k = 0
  <2>1. \A i \in 1 .. Len(s) : ~(s[i].t <= t)
    BY <1>3, <1>4
  <2> QED BY <1>2, <1>4, <2>1 DEF FoundIn
<1>5. CASE k > 0
  <2>1. k \in 1 .. Len(s) /\ s[k] \in ToSet(s) /\ s[k].t <= t
    BY <1>1, <1>3, <1>5
  <2>2. \A i \in 1 .. Len(s) : s[i].t <= t => s[i].t <= s[k].t
    <3> SUFFICES ASSUME NEW i \in 1 .. Len(s), s[i].t <= t PROVE s[i].t <= s[k].t
      OBVIOUS
    <3>1. i < k \/ i = k
      BY <1>3, <2>1
    <3> QED BY <1>1, <2>1, <3>1 DEF InSequence
  <2> QED BY <1>2, <1>5, <2>1, <2>2 DEF FoundIn
<1> QED BY <1>4, <1>5

LEMMA FoundLast ==
  ASSUME NEW s, Timed(s), NEW t \in Int, InSequence(s), s # <<>>, Last(s).t <= t
  PROVE  FoundIn(s, t, Last(s))
<1> DEFINE n == Len(s)
<1>1. n \in Nat /\ DOMAIN s = 1 .. n /\ \A i \in 1 .. n : s[i].t \in Int
  BY TimedSeq
<1>2. n \in 1 .. n /\ Last(s) = s[n]
  <2>1. Last(s) = s[n]
    BY DEF Last
  <2>2. n # 0
    BY DEF Timed
  <2> QED BY <1>1, <2>1, <2>2
<1>3. \A i \in 1 .. n : s[i].t <= t
  <2> HIDE DEF n
  <2> SUFFICES ASSUME NEW i \in 1 .. n PROVE s[i].t <= t
    OBVIOUS
  <2>1. i < n \/ i = n
    BY <1>1
  <2>2. s[i].t <= s[n].t
    <3>1. i < n => s[i].t <= s[n].t
      BY <1>1, <1>2 DEF InSequence
    <3> QED BY <1>1, <1>2, <2>1, <3>1
  <2> QED BY <1>1, <1>2, <2>2
<1>4. n \in 0 .. n /\ n > 0 /\ \A i \in n + 1 .. n : s[i].t > t
  BY <1>1, <1>2
<1>5. FoundIn(s, t, IF n > 0 THEN s[n] ELSE None)
  BY <1>3, <1>4, FoundAt
<1> QED BY <1>2, <1>4, <1>5

LEMMA FoundInNone == ASSUME NEW t PROVE FoundIn(<<>>, t, None)
BY DEF FoundIn, ToSet

\* binarySearchLatestAt.
LEMMA LatestInIs ==
  ASSUME NEW s, Timed(s), NEW t \in Int, InSequence(s) PROVE FoundIn(s, t, LatestIn(s, t))
<1>1. CASE s = <<>>
  BY <1>1, FoundInNone DEF LatestIn
<1>2. CASE s # <<>> /\ Last(s).t <= t
  BY <1>2, FoundLast DEF LatestIn
<1>3. CASE s # <<>> /\ ~(Last(s).t <= t)
  <2> DEFINE k == FirstGte(s, t + 1)
  <2>0. t + 1 \in Int
    OBVIOUS
  <2>1. k \in 0 .. Len(s) /\ (\A i \in 1 .. k : s[i].t < t + 1) /\ (\A i \in k + 1 .. Len(s) : s[i].t >= t + 1)
    BY <2>0, FirstGteIs
  <2>2. LatestIn(s, t) = IF k > 0 THEN s[k] ELSE None
    BY <1>3 DEF LatestIn
  <2> HIDE DEF k
  <2>3. Len(s) \in Nat /\ \A i \in 1 .. Len(s) : s[i].t \in Int
    BY TimedSeq
  <2>4. (\A i \in 1 .. k : s[i].t <= t) /\ (\A i \in k + 1 .. Len(s) : s[i].t > t)
    BY <2>1, <2>3
  <2> QED BY <2>1, <2>2, <2>4, FoundAt
<1> QED BY <1>1, <1>2, <1>3

\* What a round of getLatestAt narrows.
Searched(s, t) ==
  {w \in [left : 1 .. Len(s) + 1, right : 0 .. Len(s), answer : 0 .. Len(s)] :
     /\ w.left <= w.right + 1 /\ w.answer = w.left - 1
     /\ \A i \in 1 .. w.left - 1 : s[i].t <= t
     /\ \A i \in w.right + 1 .. Len(s) : s[i].t > t}

LEMMA NarrowedKeeps ==
  ASSUME NEW s, Timed(s), InSequence(s), NEW t \in Int, NEW w \in Searched(s, t)
  PROVE  /\ Narrowed(w, s, t) \in Searched(s, t)
         /\ w.left > w.right => Narrowed(w, s, t) = w
         /\ w.left <= w.right => Narrowed(w, s, t).right - Narrowed(w, s, t).left <= w.right - w.left - 1
<1> DEFINE n == Len(s)
           mid == (w.left + w.right) \div 2
<1>1. n \in Nat /\ DOMAIN s = 1 .. n /\ \A i \in 1 .. n : s[i].t \in Int
  BY TimedSeq
<1>2. /\ w \in [left : 1 .. n + 1, right : 0 .. n, answer : 0 .. n] /\ w.left <= w.right + 1 /\ w.answer = w.left - 1
      /\ (\A i \in 1 .. w.left - 1 : s[i].t <= t) /\ (\A i \in w.right + 1 .. n : s[i].t > t)
  BY DEF Searched
<1>3. CASE w.left > w.right
  <2>1. Narrowed(w, s, t) = w
    BY <1>3 DEF Narrowed
  <2> QED BY <1>2, <1>3, <2>1
<1>4. CASE w.left <= w.right
  <2>1. mid \in w.left .. w.right /\ mid \in 1 .. n
    BY <1>2, <1>4
  <2>2. ~(w.left > w.right)
    BY <1>2, <1>4
  <2> HIDE DEF mid, n
  <2>3. CASE s[mid].t <= t
    <3> DEFINE v == [w EXCEPT !.left = mid + 1, !.answer = mid]
    <3>1. Narrowed(w, s, t) = v
      BY <1>2, <2>2, <2>3 DEF Narrowed, mid
    <3>0. mid + 1 \in 1 .. n + 1 /\ mid \in 0 .. n
      BY <1>1, <2>1
    <3>2. v \in [left : 1 .. n + 1, right : 0 .. n, answer : 0 .. n] /\ v.left = mid + 1 /\ v.right = w.right
          /\ v.answer = mid
      BY <1>2, <3>0
    <3> HIDE DEF v
    <3>3. v.left <= v.right + 1 /\ v.answer = v.left - 1 /\ v.left - 1 = mid
      BY <1>1, <1>2, <2>1, <3>2
    <3>4. ASSUME NEW i \in 1 .. mid PROVE s[i].t <= t
      <4>1. i \in 1 .. n /\ (i < mid \/ i = mid)
        BY <1>1, <2>1
      <4>2. i < mid => s[i].t <= s[mid].t
        BY <1>1, <2>1, <4>1 DEF InSequence
      <4>3. s[i].t \in Int /\ s[mid].t \in Int
        BY <1>1, <2>1, <4>1
      <4> QED BY <2>3, <4>1, <4>2, <4>3
    <3>5. v \in Searched(s, t)
      BY <1>2, <3>2, <3>3, <3>4 DEF Searched, n
    <3>6. v.right - v.left <= w.right - w.left - 1
      BY <1>1, <1>2, <2>1, <3>2
    <3> QED BY <2>2, <3>1, <3>5, <3>6
  <2>4. CASE ~(s[mid].t <= t)
    <3> DEFINE v == [w EXCEPT !.right = mid - 1]
    <3>1. Narrowed(w, s, t) = v
      BY <1>2, <2>2, <2>4 DEF Narrowed, mid
    <3>0. mid - 1 \in 0 .. n
      BY <1>1, <2>1
    <3>2. v \in [left : 1 .. n + 1, right : 0 .. n, answer : 0 .. n] /\ v.left = w.left /\ v.right = mid - 1
          /\ v.answer = w.answer
      BY <1>2, <3>0
    <3> HIDE DEF v
    <3>3. v.left <= v.right + 1 /\ v.answer = v.left - 1 /\ v.right + 1 = mid
      BY <1>1, <1>2, <2>1, <3>2
    <3>4. ASSUME NEW i \in mid .. n PROVE s[i].t > t
      <4>1. i \in 1 .. n /\ (mid < i \/ i = mid)
        BY <1>1, <2>1
      <4>2. mid < i => s[mid].t <= s[i].t
        BY <1>1, <2>1, <4>1 DEF InSequence
      <4>3. s[i].t \in Int /\ s[mid].t \in Int
        BY <1>1, <2>1, <4>1
      <4> QED BY <2>4, <4>1, <4>2, <4>3
    <3>5. v \in Searched(s, t)
      BY <1>2, <3>2, <3>3, <3>4 DEF Searched, n
    <3>6. v.right - v.left <= w.right - w.left - 1
      BY <1>1, <1>2, <2>1, <3>2
    <3> QED BY <2>2, <3>1, <3>5, <3>6
  <2> QED BY <2>3, <2>4
<1> QED BY <1>2, <1>3, <1>4

\* getLatestAt.
LEMMA LatestAtIs ==
  ASSUME NEW s, Timed(s), NEW t \in Int, InSequence(s) PROVE FoundIn(s, t, LatestAt(s, t))
<1> DEFINE n == Len(s)
           start == [left |-> 1, right |-> n, answer |-> 0]
           W == Searched(s, t)
           step == [k \in 1 .. n |-> [w \in W |-> Narrowed(w, s, t)]]
<1>0. n \in Nat /\ \A i \in 1 .. n : s[i].t \in Int
  BY TimedSeq
<1>1. start \in W
  <2>1. start \in [left : 1 .. n + 1, right : 0 .. n, answer : 0 .. n] /\ start.left = 1 /\ start.right = n
        /\ start.answer = 0
    BY <1>0
  <2> HIDE DEF start
  <2> QED BY <1>0, <2>1 DEF Searched
<1>2. \A w \in W : Narrowed(w, s, t) \in W
  BY NarrowedKeeps
<1>3. step \in [1 .. n -> [W -> W]]
  <2> HIDE DEF W
  <2> QED BY <1>2
<1>4. PICK g \in [0 .. n -> W] : Iterates(g, step, start, n)
  <2> HIDE DEF W, n, step, start
  <2> QED BY <1>0, <1>1, <1>3, IterationTyped
<1>5. \A k \in 1 .. n : k - 1 \in 0 .. n
  BY <1>0
<1>6. \A k \in 1 .. n : step[k][g[k - 1]] = Narrowed(g[k - 1], s, t)
  <2> HIDE DEF W, n
  <2> QED BY <1>4, <1>5
<1> DEFINE value(f, k) == IF k = 0 THEN start ELSE Narrowed(f[k - 1], s, t)
<1>7. g = [k \in 0 .. n |-> value(g, k)]
  <2>1. g = [k \in 0 .. n |-> IF k = 0 THEN start ELSE step[k][g[k - 1]]]
    BY <1>4 DEF Iterates
  <2>2. \A k \in 0 .. n : k # 0 => k \in 1 .. n
    BY <1>0
  <2> HIDE DEF W, n, step, start
  <2>3. \A k \in 0 .. n : (IF k = 0 THEN start ELSE step[k][g[k - 1]]) = value(g, k)
    BY <1>6, <2>2
  <2> QED BY <2>1, <2>3
<1> DEFINE after[k \in 0 .. n] == IF k = 0 THEN [left |-> 1, right |-> n, answer |-> 0]
                                  ELSE Narrowed(after[k - 1], s, t)
<1>8. LatestAt(s, t) = IF s = <<>> THEN None ELSE IF Last(s).t <= t THEN Last(s)
                       ELSE IF after[n].answer > 0 THEN s[after[n].answer] ELSE None
  BY DEF LatestAt
<1>9. after = [k \in 0 .. n |-> value(after, k)]
  BY <1>7, Zenon
<1> HIDE DEF after
<1>10. \A k \in 1 .. n : after[k] = Narrowed(after[k - 1], s, t)
  <2> HIDE DEF n
  <2>1. \A k \in 0 .. n : after[k] = value(after, k)
    BY <1>9
  <2>2. \A k \in 1 .. n : k \in 0 .. n /\ k # 0
    BY <1>0
  <2> QED BY <2>1, <2>2
<1>11. after[0] = start /\ 0 \in 0 .. n /\ n \in 0 .. n
  BY <1>0, <1>9
<1> DEFINE P == {k \in 0 .. n : after[k] \in W /\ after[k].right - after[k].left <= n - k - 1}
<1>12. 0 \in P
  <2>1. start.right - start.left <= n - 0 - 1
    BY <1>0
  <2> HIDE DEF W, n, start
  <2> QED BY <1>1, <1>11, <2>1
<1>13. ASSUME NEW k \in 1 .. n, k - 1 \in P PROVE k \in P
  <2> DEFINE w == after[k - 1]
             v == Narrowed(w, s, t)
  <2>1. w \in W /\ w.right - w.left <= n - (k - 1) - 1 /\ after[k] = v /\ k \in 0 .. n
    BY <1>10, <1>13
  <2> HIDE DEF w
  <2>2. v \in W /\ (w.left > w.right => v = w) /\ (w.left <= w.right => v.right - v.left <= w.right - w.left - 1)
    BY <2>1, NarrowedKeeps
  <2> HIDE DEF v
  <2>3. w.left \in Int /\ w.right \in Int /\ v.left \in Int /\ v.right \in Int
        /\ v.left <= v.right + 1 /\ w.left <= w.right + 1
    BY <2>1, <2>2 DEF Searched
  <2>4. v.right - v.left <= n - k - 1
    BY <1>0, <2>1, <2>2, <2>3
  <2> HIDE DEF W
  <2> QED BY <2>1, <2>2, <2>4
<1>14. n \in P
  <2> HIDE DEF P
  <2> QED BY <1>0, <1>11, <1>12, <1>13, Induct
<1> DEFINE e == after[n]
           a == e.answer
<1>15. e \in W /\ e.right - e.left <= n - n - 1
  BY <1>14
<1> HIDE DEF e
<1>16. /\ e.left \in 1 .. n + 1 /\ e.right \in 0 .. n /\ a \in 0 .. n /\ e.left <= e.right + 1 /\ a = e.left - 1
       /\ (\A i \in 1 .. e.left - 1 : s[i].t <= t) /\ (\A i \in e.right + 1 .. n : s[i].t > t)
  BY <1>15 DEF Searched
<1>17. a = e.right
  BY <1>0, <1>15, <1>16
<1>18. FoundIn(s, t, IF a > 0 THEN s[a] ELSE None)
  <2>1. (\A i \in 1 .. a : s[i].t <= t) /\ (\A i \in a + 1 .. n : s[i].t > t)
    BY <1>16, <1>17
  <2> HIDE DEF a
  <2> QED BY <1>16, <2>1, FoundAt
<1>19. CASE s = <<>>
  BY <1>8, <1>19, FoundInNone
<1>20. CASE s # <<>> /\ Last(s).t <= t
  BY <1>8, <1>20, FoundLast
<1>21. CASE s # <<>> /\ ~(Last(s).t <= t)
  <2>1. LatestAt(s, t) = IF a > 0 THEN s[a] ELSE None
    BY <1>8, <1>21 DEF e
  <2> QED BY <1>18, <2>1
<1> QED BY <1>19, <1>20, <1>21

\* A finite set of frames can be put in order of their times.
Sorted(s) == \A j, k \in DOMAIN s : j < k => ~ByTime(s[k], s[j])
LEMMA SortedExists ==
  ASSUME NEW fs \in SUBSET Frame, IsFiniteSet(fs) PROVE \E s \in SetToSeqs(fs) : Sorted(s)
<1> DEFINE Has(n) == \A F \in SUBSET Frame : IsFiniteSet(F) /\ Cardinality(F) = n => \E s \in SetToSeqs(F) : Sorted(s)
           P == {n \in Nat : Has(n)}
<1>1. Cardinality(fs) \in Nat
  BY FS_CardinalityType
<1>2. 0 \in P
  <2> SUFFICES ASSUME NEW F \in SUBSET Frame, IsFiniteSet(F), Cardinality(F) = 0
               PROVE  \E s \in SetToSeqs(F) : Sorted(s)
    OBVIOUS
  <2>1. F = {}
    BY FS_EmptySet
  <2>2. <<>> \in [1 .. 0 -> F] /\ \A i \in 1 .. 0 : FALSE
    BY <2>1
  <2>3. <<>> \in SetToSeqs(F) /\ Sorted(<<>>)
    BY <2>2 DEF SetToSeqs, Sorted
  <2> QED BY <2>3
<1>3. ASSUME NEW n \in 1 .. Cardinality(fs), n - 1 \in P PROVE n \in P
  <2> SUFFICES ASSUME NEW F \in SUBSET Frame, IsFiniteSet(F), Cardinality(F) = n
               PROVE  \E s \in SetToSeqs(F) : Sorted(s)
    BY <1>1
  <2>0. n \in Nat \ {0} /\ n - 1 \in Nat
    BY <1>1
  <2>1. F # {}
    BY <2>0, FS_EmptySet
  <2>2. PICK m \in F : \A f \in F : ~ByTime(m, f)
    <3> DEFINE T == {f.t : f \in F}
               U == {f.n : f \in {g \in F : g.t = Max(T)}}
    <3>1. T \in SUBSET (0 .. MaxTime) /\ T # {}
      BY <2>1, OfAFrame
    <3>2. Max(T) \in T /\ \A x \in T : x <= Max(T)
      <4> HIDE DEF T
      <4> QED BY <3>1, Limits, Bounded
    <3>3. U \in SUBSET (0 .. MaxFrames) /\ U # {}
      <4> DEFINE z == Max(T)
      <4>1. PICK g \in F : g.t = z
        BY <3>2
      <4> HIDE DEF z, T
      <4>2. g.n \in U
        BY <4>1 DEF z
      <4>3. \A f \in F : f.n \in 0 .. MaxFrames
        BY OfAFrame, Limits
      <4> QED BY <4>2, <4>3
    <3>4. Max(U) \in U /\ \A x \in U : x <= Max(U)
      <4> HIDE DEF U
      <4> QED BY <3>3, Limits, Bounded
    <3>5. PICK m \in F : m.t = Max(T) /\ m.n = Max(U)
      BY <3>4
    <3>6. ASSUME NEW f \in F PROVE ~ByTime(m, f)
      <4>1. f.t <= m.t /\ (f.t = m.t => f.n <= m.n)
        BY <3>2, <3>4, <3>5
      <4>2. f.t \in Int /\ m.t \in Int /\ f.n \in Int /\ m.n \in Int
        BY OfAFrame
      <4> QED BY <4>1, <4>2 DEF ByTime
    <3> QED BY <3>6
  <2> DEFINE R == F \ {m}
  <2>3. R \in SUBSET Frame /\ IsFiniteSet(R) /\ Cardinality(R) = n - 1
    BY <2>2, FS_RemoveElement
  <2>4. PICK s \in SetToSeqs(R) : Sorted(s)
    <3> HIDE DEF R
    <3> QED BY <1>3, <2>3
  <2>5. s \in [1 .. n - 1 -> R] /\ \A i, j \in 1 .. n - 1 : i # j => s[i] # s[j]
    <3> HIDE DEF R
    <3> QED BY <2>3, <2>4 DEF SetToSeqs
  <2> DEFINE u == [i \in 1 .. n |-> IF i = n THEN m ELSE s[i]]
  <2>6. \A i \in 1 .. n : i # n => i \in 1 .. n - 1
    BY <2>0
  <2>7. \A i \in 1 .. n : (i = n => u[i] = m) /\ (i # n => u[i] = s[i] /\ s[i] \in F /\ s[i] # m)
    BY <2>5, <2>6
  <2>8. u \in [1 .. n -> F]
    BY <2>2, <2>7
  <2>10. DOMAIN u = 1 .. n /\ DOMAIN s = 1 .. n - 1
    BY <2>5
  <2> HIDE DEF u
  <2>9. \A i, j \in 1 .. n : i # j => u[i] # u[j]
    BY <2>5, <2>6, <2>7
  <2>11. u \in SetToSeqs(F)
    BY <2>8, <2>9 DEF SetToSeqs
  <2>12. Sorted(u)
    <3> SUFFICES ASSUME NEW j \in 1 .. n, NEW k \in 1 .. n, j < k PROVE ~ByTime(u[k], u[j])
      BY <2>10 DEF Sorted
    <3>1. j # n
      BY <2>0
    <3>2. CASE k = n
      BY <2>2, <2>7, <3>1, <3>2
    <3>3. CASE k # n
      BY <2>4, <2>6, <2>7, <2>10, <3>1, <3>3 DEF Sorted
    <3> QED BY <3>2, <3>3
  <2> QED BY <2>11, <2>12
<1>4. Cardinality(fs) \in P
  <2> HIDE DEF P
  <2>1. Cardinality(fs) \in 0 .. Cardinality(fs)
    BY <1>1
  <2> QED BY <1>1, <1>2, <1>3, <2>1, Induct
<1> QED BY <1>4

\* What loadRange sorts holds what it was given, in order.
LEMMA SortedFrames ==
  ASSUME NEW fs \in SUBSET Frame, IsFiniteSet(fs)
  PROVE  /\ Timed(InTimeOrder(fs)) /\ InSequence(InTimeOrder(fs)) /\ ToSet(InTimeOrder(fs)) = fs
<1> DEFINE s == InTimeOrder(fs)
           n == Cardinality(fs)
<1>1. s \in SetToSeqs(fs) /\ Sorted(s)
  BY SortedExists, Zenon DEF InTimeOrder, Sorted
<1>2. n \in Nat
  BY FS_CardinalityType
<1>3. s \in [1 .. n -> fs] /\ \A i, j \in 1 .. n : i # j => s[i] # s[j]
  BY <1>1 DEF SetToSeqs
<1> HIDE DEF s
<1>4. s \in Seq(fs) /\ DOMAIN s = 1 .. n
  BY <1>2, <1>3
<1>5. s \in Seq(Frame)
  <2> HIDE DEF n
  <2> QED BY <1>2, <1>3
<1>6. InSequence(s)
  <2> SUFFICES ASSUME NEW i \in 1 .. n, NEW j \in 1 .. n, i < j PROVE s[i].t <= s[j].t
    BY <1>4 DEF InSequence
  <2>1. ~ByTime(s[j], s[i])
    BY <1>1, <1>4 DEF Sorted
  <2>2. s[i].t \in Int /\ s[j].t \in Int
    BY <1>3, OfAFrame
  <2> QED BY <2>1, <2>2 DEF ByTime
<1>7. ToSet(s) = fs
  <2>1. s \in Injection(1 .. n, fs)
    BY <1>3 DEF Injection, IsInjective
  <2>2. Cardinality(1 .. n) = n
    BY <1>2, FS_Interval
  <2>3. s \in Surjection(1 .. n, fs)
    BY <2>1, <2>2, FS_Injection
  <2> QED BY <1>4, <2>3 DEF ToSet, Surjection
<1> QED BY <1>5, <1>6, <1>7, FramesTimed DEF s

----------------------------------------------------------------------------
(* What the page keeps: types, and the range the warm cache is to cover.      *)

LEMMA FrameFinite == IsFiniteSet(Frame)
<1> DEFINE N == 1 .. MaxFrames
           T == 0 .. MaxTime
           Q == T \X Ids
           P == N \X Q
           f == [p \in P |-> [n |-> p[1], t |-> p[2][1], id |-> p[2][2]]]
<1>1. IsFiniteSet(N) /\ IsFiniteSet(T) /\ IsFiniteSet(Ids)
  <2>1. MaxFrames \in Int /\ MaxTime \in Int /\ 0 \in Int /\ 1 \in Int
    BY Limits
  <2>2. IsFiniteSet(N) /\ IsFiniteSet(T)
    BY <2>1, FS_Interval, Zenon
  <2>3. IsFiniteSet(Ids)
    BY DataStoreAssumption DEF DataStoreAssumption
  <2> QED BY <2>2, <2>3
<1>2. IsFiniteSet(P)
  <2> HIDE DEF N, T
  <2>1. IsFiniteSet(Q)
    BY <1>1, FS_Product
  <2> HIDE DEF Q
  <2> QED BY <1>1, <2>1, FS_Product
<1>3. f \in Surjection(P, Frame)
  <2>1. \A p \in P : f[p] \in Frame
    BY DEF Frame
  <2>2. f \in [P -> Frame]
    <3> HIDE DEF P
    <3> QED BY <2>1
  <2>3. ASSUME NEW x \in Frame PROVE \E p \in P : f[p] = x
    <3>1. x.n \in N /\ x.t \in T /\ x.id \in Ids /\ x = [n |-> x.n, t |-> x.t, id |-> x.id]
      BY DEF Frame
    <3> DEFINE p == <<x.n, <<x.t, x.id>>>>
    <3>2. p \in P /\ p[1] = x.n /\ p[2][1] = x.t /\ p[2][2] = x.id
      BY <3>1
    <3>3. f[p] = [n |-> x.n, t |-> x.t, id |-> x.id]
      <4> HIDE DEF P, p
      <4> QED BY <3>2
    <3> QED BY <3>1, <3>2, <3>3
  <2> HIDE DEF f, P
  <2> QED BY <2>2, <2>3 DEF Surjection
<1> QED BY <1>2, <1>3, FS_Surjection

Own(i) == {f \in Frame : f.id = i}
Importable == {r \in Recording : r.frames # {} /\ IsFiniteSet(r.frames)}

BufInv == \A i \in Ids : buf[i] \in Seq(Own(i))
WarmTypes ==
  /\ warm # None => warm.from \in Int /\ warm.to \in Int /\ warm.frames \subseteq Frame
  /\ loading # None => loading.from \in Int /\ loading.to \in Int /\ loading.keys \subseteq Chunks
  /\ pending # None => pending.from \in Int /\ pending.to \in Int
ViewTypes ==
  /\ cursor \in Int /\ bounds \in [start : Int, end : Int]
  /\ checkpoints \subseteq Int /\ stored \in [Sources -> SUBSET Int]
  /\ clipping # None => clipping \in Importable
  /\ importing \subseteq Importable

\* While the cursor rests in the past, what has been asked for last reaches from the window
\* before it to the cursor: the range that waits, or else the one being loaded, or else the cache.
Needed == IF bounds.start = NoTime THEN cursor ELSE Max({bounds.start, cursor - WindowLen})
Serves(r) == r # None /\ r.from <= Needed /\ r.to >= cursor
WarmInv ==
  /\ loading = None => pending = None
  /\ mode = "paused" /\ active = "live" /\ sought # None /\ sought.cold =>
       Serves(IF pending # None THEN pending ELSE IF loading # None THEN loading ELSE warm)

PastInv == BufInv /\ WarmTypes /\ ViewTypes /\ WarmInv /\ ReplaySorted

\* A range is not None.
LEMMA Ranges ==
  /\ \A a, b : [from |-> a, to |-> b] # None
  /\ \A a, b, c : [from |-> a, to |-> b, keys |-> c] # None
  /\ \A a, b, c : [from |-> a, to |-> b, frames |-> c] # None
BY DEF None
LEMMA FrameNotNone == \A f \in Frame : f # None
BY DEF None, Frame

----------------------------------------------------------------------------
(* The buffers of the messages.                                               *)

LEMMA OwnFrames == ASSUME NEW i, NEW s \in Seq(Own(i)) PROVE s \in Seq(Frame) /\ Timed(s)
<1>1. Own(i) \subseteq Frame
  BY DEF Own
<1>2. s \in Seq(Frame)
  BY <1>1
<1> QED BY <1>2, FramesTimed

\* The end of a buffer is one.
LEMMA EndOfBuffer ==
  ASSUME NEW i, NEW s \in Seq(Own(i)), NEW t \in Int
  PROVE  SubSeq(s, FirstGte(s, t) + 1, Len(s)) \in Seq(Own(i))
<1> DEFINE k == FirstGte(s, t)
<1>1. k \in 0 .. Len(s)
  BY OwnFrames, FirstGteIs
<1> HIDE DEF k
<1>2. SubSeq(s, k + 1, Len(s)) \in Seq(Own(i))
  BY <1>1, CutInTwo
<1> QED BY <1>2 DEF k

LEMMA PrunedTyped ==
  ASSUME TypeInv, NEW i, NEW s \in Seq(Own(i)), s # <<>> PROVE PrunedMessage(s) \in Seq(Own(i))
<1> DEFINE kept == SubSeq(s, FirstGte(s, Last(s).t - retention) + 1, Len(s))
<1>1. Last(s) \in Frame
  <2>1. s \in Seq(Frame)
    BY OwnFrames
  <2> QED BY <2>1 DEF Last
<1>2. Last(s).t - retention \in Int
  BY <1>1, OfAFrame, Limits DEF TypeInv
<1>3. kept \in Seq(Own(i))
  BY <1>2, EndOfBuffer
<1>4. PrunedMessage(s) = IF Len(kept) > MessageCap THEN SubSeq(kept, Len(kept) - MessageCap + 1, Len(kept)) ELSE kept
  BY DEF PrunedMessage
<1> HIDE DEF kept
<1>5. CASE Len(kept) > MessageCap
  <2> DEFINE k == Len(kept) - MessageCap
  <2>1. k \in 0 .. Len(kept)
    BY <1>3, <1>5, Limits
  <2> HIDE DEF k
  <2>2. SubSeq(kept, k + 1, Len(kept)) \in Seq(Own(i))
    BY <1>3, <2>1, CutInTwo
  <2> QED BY <1>4, <1>5, <2>2 DEF k
<1> QED BY <1>3, <1>4, <1>5

LEMMA FedTyped ==
  ASSUME TypeInv, NEW i \in Ids, buf[i] \in Seq(Own(i)), NEW fs \in Seq(Frame) PROVE Fed(i, fs) \in Seq(Own(i))
<1> DEFINE n == Len(fs)
           W == Seq(Own(i))
           next(b, k) == IF fs[k].id = i THEN PrunedMessage(Append(b, fs[k])) ELSE b
           step == [k \in 1 .. n |-> [b \in W |-> next(b, k)]]
           start == buf[i]
<1>0. n \in Nat /\ \A k \in 1 .. n : fs[k] \in Frame
  OBVIOUS
<1>1. \A k \in 1 .. n, b \in W : next(b, k) \in W
  <2> SUFFICES ASSUME NEW k \in 1 .. n, NEW b \in W, fs[k].id = i PROVE PrunedMessage(Append(b, fs[k])) \in W
    OBVIOUS
  <2> DEFINE x == fs[k]
             S == Own(i)
  <2>1. x \in S
    BY <1>0 DEF Own
  <2> HIDE DEF x, S
  <2>2. Append(b, x) \in Seq(S) /\ Append(b, x) # <<>>
    BY <2>1 DEF S
  <2>3. PrunedMessage(Append(b, x)) \in Seq(S)
    BY <2>2, PrunedTyped DEF S
  <2> QED BY <2>3 DEF S, x
<1>2. step \in [1 .. n -> [W -> W]]
  <2> HIDE DEF W, next, n
  <2> QED BY <1>1
<1>3. PICK g \in [0 .. n -> W] : Iterates(g, step, start, n)
  <2> HIDE DEF W, n, step
  <2> QED BY <1>0, <1>2, IterationTyped DEF W
<1>4. \A k \in 1 .. n : k - 1 \in 0 .. n
  BY <1>0
<1>5. \A k \in 1 .. n : step[k][g[k - 1]] = next(g[k - 1], k)
  <2> HIDE DEF W, n, next
  <2> QED BY <1>3, <1>4
<1> DEFINE value(h, k) == IF k = 0 THEN start ELSE next(h[k - 1], k)
<1>6. g = [k \in 0 .. n |-> value(g, k)]
  <2>1. g = [k \in 0 .. n |-> IF k = 0 THEN start ELSE step[k][g[k - 1]]]
    BY <1>3 DEF Iterates
  <2>2. \A k \in 0 .. n : k # 0 => k \in 1 .. n
    BY <1>0
  <2> HIDE DEF W, n, step, start, next
  <2>3. \A k \in 0 .. n : (IF k = 0 THEN start ELSE step[k][g[k - 1]]) = value(g, k)
    BY <1>5, <2>2
  <2> QED BY <2>1, <2>3
<1> DEFINE after[k \in 0 .. n] ==
             IF k = 0 THEN buf[i]
             ELSE IF fs[k].id = i THEN PrunedMessage(Append(after[k - 1], fs[k])) ELSE after[k - 1]
<1>7. Fed(i, fs) = after[n]
  BY DEF Fed
<1>8. after = [k \in 0 .. n |-> value(after, k)]
  BY <1>6, Zenon
<1> HIDE DEF after
<1>9. \A k \in 1 .. n : after[k] = next(after[k - 1], k)
  <2> HIDE DEF n, next
  <2>1. \A k \in 0 .. n : after[k] = value(after, k)
    BY <1>8
  <2>2. \A k \in 1 .. n : k \in 0 .. n /\ k # 0
    BY <1>0
  <2> QED BY <2>1, <2>2
<1>10. after[0] = start /\ 0 \in 0 .. n /\ n \in 0 .. n
  <2> HIDE DEF next
  <2> QED BY <1>0, <1>8
<1> DEFINE P == {k \in 0 .. n : after[k] \in W}
<1>11. 0 \in P
  BY <1>10
<1>12. ASSUME NEW k \in 1 .. n, k - 1 \in P PROVE k \in P
  <2> HIDE DEF next, W
  <2>1. k \in 0 .. n /\ after[k - 1] \in W
    BY <1>12
  <2> QED BY <1>1, <1>9, <2>1
<1>13. n \in P
  <2> HIDE DEF P
  <2> QED BY <1>0, <1>10, <1>11, <1>12, Induct
<1> QED BY <1>7, <1>13

LEMMA BuffersFed == ASSUME TypeInv, BufInv, NEW fs \in Seq(Frame), Ingest(fs) PROVE BufInv'
<1>1. buf' = [i \in Ids |-> Fed(i, fs)]
  BY DEF Ingest
<1>2. \A i \in Ids : Fed(i, fs) \in Seq(Own(i))
  BY FedTyped DEF BufInv
<1> QED BY <1>1, <1>2 DEF BufInv, Own

LEMMA BuffersCut == ASSUME TypeInv, BufInv, SetRetention PROVE BufInv'
<1>1. PICK w \in Retentions :
        buf' = [i \in Ids |-> IF buf[i] = <<>> THEN <<>>
                              ELSE SubSeq(buf[i], FirstGte(buf[i], Last(buf[i]).t - w) + 1, Len(buf[i]))]
  BY DEF SetRetention
<1>2. ASSUME NEW i \in Ids PROVE buf'[i] \in Seq(Own(i))
  <2> DEFINE s == buf[i]
  <2>0. s \in Seq(Own(i))
    BY DEF BufInv
  <2>1. buf'[i] = IF s = <<>> THEN <<>> ELSE SubSeq(s, FirstGte(s, Last(s).t - w) + 1, Len(s))
    BY <1>1
  <2> HIDE DEF s
  <2>2. CASE s = <<>>
    BY <2>1, <2>2
  <2>3. CASE s # <<>>
    <3>1. s \in Seq(Frame)
      BY <2>0, OwnFrames
    <3>2. Last(s) \in Frame
      BY <2>3, <3>1 DEF Last
    <3>3. Last(s).t - w \in Int
      BY <3>2, OfAFrame, Limits
    <3>4. SubSeq(s, FirstGte(s, Last(s).t - w) + 1, Len(s)) \in Seq(Own(i))
      BY <2>0, <3>3, EndOfBuffer
    <3> QED BY <2>1, <2>3, <3>4
  <2> QED BY <2>2, <2>3
<1> QED BY <1>2 DEF BufInv, Own

LEMMA BuffersEmpty == ASSUME buf' = [i \in Ids |-> <<>>] PROVE BufInv'
BY DEF BufInv, Own

\* Every step.
LEMMA OneFrame == ASSUME TypeInv, IngestMessage PROVE \E fs \in Seq(Frame) : Ingest(fs)
<1>1. PICK t \in 0 .. now, i \in Ids : Ingest(<<Message(received + 1, t, i)>>)
  BY DEF IngestMessage
<1> DEFINE f == Message(received + 1, t, i)
<1>2. f \in Frame
  <2>1. received + 1 \in 1 .. MaxFrames /\ t \in 0 .. MaxTime
    BY Limits DEF TypeInv, IngestMessage
  <2> QED BY <2>1 DEF Message, Frame
<1> HIDE DEF f
<1>3. <<f>> \in Seq(Frame) /\ Ingest(<<f>>)
  BY <1>1, <1>2 DEF f
<1> QED BY <1>3

LEMMA ChunkOfFrames == ASSUME TypeInv, RestoreSnapshot PROVE \E fs \in Seq(Frame) : Ingest(fs)
<1> DEFINE n == Min({RestoreChunk, Len(restoring)})
<1>0. restoring \in Seq(Frame) /\ Len(restoring) \in Nat
  BY DEF TypeInv
<1>1. n \in 0 .. Len(restoring)
  <2>1. RestoreChunk \in Nat /\ RestoreChunk \in Int /\ Len(restoring) \in Int
    BY <1>0, Limits
  <2>2. n \in {RestoreChunk, Len(restoring)} /\ n <= Len(restoring)
    BY <2>1, OfTwo, Zenon
  <2> HIDE DEF n
  <2> QED BY <1>0, <2>1, <2>2
<1>2. Ingest(SubSeq(restoring, 1, n))
  BY DEF RestoreSnapshot
<1> HIDE DEF n
<1>3. SubSeq(restoring, 1, n) \in Seq(Frame)
  BY <1>0, <1>1, CutInTwo
<1> QED BY <1>2, <1>3

\* What a step does to the buffers.
BufStep ==
  \/ UNCHANGED buf
  \/ buf' = [i \in Ids |-> <<>>]
  \/ \E fs \in Seq(Frame) : Ingest(fs)
  \/ SetRetention
LEMMA StepsOfTheBuffers == ASSUME TypeInv, [Next]_vars PROVE BufStep
<1>1. CASE UNCHANGED dataVars \/ UNCHANGED vars
  BY <1>1 DEF vars, dataVars, BufStep
<1>2. CASE Feed \/ Restore
  <2>1. CASE Tick \/ PersistSnapshot
    BY <2>1 DEF Tick, PersistSnapshot, BufStep
  <2> QED BY <1>2, <2>1, OneFrame, ChunkOfFrames DEF Feed, Restore, BufStep
<1>3. CASE Waiting
  BY <1>3 DEF Waiting, WarmCacheLoaded, BufStep
<1>4. CASE \E t : Seek(t)
  BY <1>4 DEF Seek, BufStep
<1>5. CASE \E cps : SetCheckpoints(cps)
  BY <1>5 DEF SetCheckpoints, dataVars, BufStep
<1>6. CASE ReplayLoaded \/ ClearReplaySession
  BY <1>6 DEF ReplayLoaded, ClearReplaySession, BufStep
<1>7. CASE Reload \/ ClearSession
  BY <1>7 DEF Reload, ClearSession, DataStoreDies, MemoryLost, BufStep
<1>8. CASE SetRetention \/ ClearData \/ ClearTrace
  BY <1>8 DEF ClearData, ClearTrace, BufStep
<1>9. CASE GoLive \/ BoundsUpdated \/ CursorFollowsClock \/ ExportBegins \/ ExportEnds \/ MoveClip
             \/ ImportPicked \/ ClipChosen
  <2>1. UNCHANGED dataVars
    BY <1>9, Zenon DEF GoLive, BoundsUpdated, CursorFollowsClock, ExportBegins, ExportEnds, MoveClip,
                       ImportPicked, ClipChosen
  <2> QED BY <1>1, <2>1
<1>10. SetClip => (\E t : Seek(t)) \/ UNCHANGED dataVars
  BY Zenon DEF SetClip
<1>11. UserSeeks => (\E t : Seek(t)) \/ GoLive
  BY Zenon DEF UserSeeks, DragCursor, Pause, SeekOnly
<1>12. UserMarks => (\E t : Seek(t)) \/ (\E cps : SetCheckpoints(cps))
  BY Zenon DEF UserMarks, JumpToCheckpoint, SeekOnly, AddCheckpoint, DeleteCheckpoint, ClearCheckpoints
<1> QED BY <1>1, <1>2, <1>3, <1>4, <1>5, <1>6, <1>7, <1>8, <1>9, <1>10, <1>11, <1>12
        DEF Next, Archive, Faults, UserClears, UserClips, UserImports

LEMMA BufKeeps == ASSUME TypeInv, BufInv, [Next]_vars PROVE BufInv'
<1>1. UNCHANGED buf => BufInv'
  BY DEF BufInv, Own
<1> QED BY <1>1, StepsOfTheBuffers, BuffersFed, BuffersCut, BuffersEmpty DEF BufStep

----------------------------------------------------------------------------
(* The recording.                                                             *)

\* The largest of three.
LEMMA OfThree ==
  ASSUME NEW x \in Int, NEW y \in Int, NEW z \in Int
  PROVE  Max({x, y, z}) \in Int /\ Max({x, y, z}) >= x /\ Max({x, y, z}) >= y /\ Max({x, y, z}) >= z
<1>1. \E m \in {x, y, z} : \A o \in {x, y, z} : m >= o
  OBVIOUS
<1>2. Max({x, y, z}) \in {x, y, z} /\ \A o \in {x, y, z} : Max({x, y, z}) >= o
  BY <1>1 DEF Max
<1> QED BY <1>2

\* A sorted recording has its first frame, and numbers for times.
LEMMA RecordingSorted ==
  ASSUME NEW r \in Importable, NEW sorted \in InOrder(r.frames)
  PROVE  \E n \in Nat \ {0} : /\ DOMAIN sorted = 1 .. n
                              /\ \A k \in 1 .. n : sorted[k].rel \in Int /\ sorted[k].epoch \in Int
<1>1. r.frames # {} /\ IsFiniteSet(r.frames) /\ \A f \in r.frames : f.rel \in Int /\ f.epoch \in Int
  BY DEF Importable, Recording, NoTime
<1>2. Cardinality(r.frames) \in Nat /\ Cardinality(r.frames) # 0
  BY <1>1, FS_CardinalityType, FS_EmptySet
<1>3. sorted \in [1 .. Cardinality(r.frames) -> r.frames]
  BY DEF InOrder, SetToSeqs
<1> QED BY <1>1, <1>2, <1>3

\* The times of a recording are numbers that never go back.
LEMMA NormalisedIs ==
  ASSUME now \in Int, NEW sorted, NEW n \in Nat \ {0}, DOMAIN sorted = 1 .. n,
         \A k \in 1 .. n : sorted[k].rel \in Int /\ sorted[k].epoch \in Int
  PROVE  /\ DOMAIN Normalised(sorted) = 1 .. n /\ Len(Normalised(sorted)) = n
         /\ \A k \in 1 .. n : Normalised(sorted)[k].t \in Int
         /\ InSequence(Normalised(sorted))
<1> DEFINE base == Base(sorted)
           dated(k) == Dated(sorted[k], base)
<1>1. base \in Int
  <2> DEFINE D == {k \in DOMAIN sorted : sorted[k].epoch # NoTime}
  <2>1. Base(sorted) = IF D # {} THEN sorted[Min(D)].epoch ELSE now - sorted[1].rel
    BY DEF Base
  <2>2. D # {} => Min(D) \in 1 .. n
    <3>1. D \in SUBSET (0 .. n) /\ D \subseteq 1 .. n
      OBVIOUS
    <3> HIDE DEF D
    <3>2. D # {} => Min(D) \in D
      BY <3>1, Bounded
    <3> QED BY <3>1, <3>2
  <2> HIDE DEF D
  <2> QED BY <2>1, <2>2
<1> HIDE DEF base
<1>2. \A k \in 1 .. n : dated(k) \in Int /\ base + sorted[k].rel \in Int
  BY <1>1 DEF Dated
<1> HIDE DEF dated
<1> DEFINE next(w, k) == IF k = 1 THEN dated(1) ELSE Max({dated(k), w, base + sorted[k].rel})
           step == [k \in 1 .. n |-> [w \in Int |-> next(w, k)]]
<1>3. \A k \in 1 .. n, w \in Int : next(w, k) \in Int /\ (k # 1 => next(w, k) >= w)
  <2> TAKE k \in 1 .. n, w \in Int
  <2> DEFINE a == dated(k)
             b == base + sorted[k].rel
  <2>1. a \in Int /\ b \in Int /\ dated(1) \in Int
    BY <1>2
  <2> HIDE DEF a, b
  <2>2. Max({a, w, b}) \in Int /\ Max({a, w, b}) >= w
    BY <2>1, OfThree
  <2> QED BY <2>1, <2>2 DEF a, b
<1>4. step \in [1 .. n -> [Int -> Int]]
  <2> HIDE DEF next
  <2> QED BY <1>3
<1> DEFINE W == Int
           zero == 0
<1>5. PICK g \in [0 .. n -> W] : Iterates(g, step, zero, n)
  <2>1. n \in Nat /\ zero \in W /\ step \in [1 .. n -> [W -> W]]
    BY <1>4
  <2> HIDE DEF step, W, zero
  <2> QED BY <2>1, IterationTyped
<1>6. \A k \in 1 .. n : g[k] = next(g[k - 1], k) /\ g[k - 1] \in Int /\ g[k] \in Int
  <2>1. g = [k \in 0 .. n |-> IF k = 0 THEN zero ELSE step[k][g[k - 1]]]
    BY <1>5 DEF Iterates
  <2>2. \A k \in 1 .. n : k - 1 \in 0 .. n /\ k \in 0 .. n /\ k # 0
    OBVIOUS
  <2> HIDE DEF next
  <2> QED BY <2>1, <2>2
<1> DEFINE value(h, k) == IF k = 1 THEN dated(1) ELSE Max({dated(k), h[k - 1], base + sorted[k].rel})
           h0 == [k \in 1 .. n |-> g[k]]
<1>7. h0 = [k \in 1 .. n |-> value(h0, k)]
  <2>1. \A k \in 1 .. n : k # 1 => k - 1 \in 1 .. n
    OBVIOUS
  <2>2. \A k \in 1 .. n : k # 1 => h0[k - 1] = g[k - 1]
    BY <2>1
  <2>3. \A k \in 1 .. n : value(h0, k) = next(g[k - 1], k)
    <3> HIDE DEF h0, step
    <3> SUFFICES ASSUME NEW k \in 1 .. n, k # 1 PROVE value(h0, k) = next(g[k - 1], k)
      OBVIOUS
    <3>1. h0[k - 1] = g[k - 1]
      BY <2>2
    <3> QED BY <3>1
  <2>4. \A k \in 1 .. n : g[k] = value(h0, k)
    <3> HIDE DEF value, next, h0, step
    <3> QED BY <1>6, <2>3
  <2>5. (\A k \in 1 .. n : h0[k] = g[k]) /\ h0 = [j \in 1 .. n |-> h0[j]]
    OBVIOUS
  <2> HIDE DEF value, h0
  <2> QED BY <2>4, <2>5
<1> DEFINE time[k \in DOMAIN sorted] == IF k = 1 THEN Dated(sorted[1], base)
                                        ELSE Max({Dated(sorted[k], base), time[k - 1], base + sorted[k].rel})
<1>8. Normalised(sorted) = [k \in DOMAIN sorted |-> [n |-> sorted[k].n, t |-> time[k]]]
  BY DEF Normalised, base
<1>9. time = [k \in 1 .. n |-> value(time, k)]
  <2> HIDE DEF h0
  <2> QED BY <1>7, Zenon DEF dated
<1> HIDE DEF time
<1>10. \A k \in 1 .. n : time[k] = value(time, k)
  <2> HIDE DEF value
  <2> QED BY <1>9
<1> DEFINE P == {j \in 0 .. n : j >= 1 => time[j] \in Int /\ \A i \in 1 .. j : time[i] \in Int /\ time[i] <= time[j]}
<1>11. 0 \in P
  OBVIOUS
<1>12. ASSUME NEW j \in 1 .. n, j - 1 \in P PROVE j \in P
  <2>1. CASE j = 1
    <3>1. time[1] = dated(1) /\ dated(1) \in Int
      BY <1>2, <1>10, <2>1
    <3>2. \A i \in 1 .. 1 : i = 1
      OBVIOUS
    <3> QED BY <2>1, <3>1, <3>2
  <2>2. CASE j # 1
    <3>1. time[j - 1] \in Int /\ \A i \in 1 .. j - 1 : time[i] \in Int /\ time[i] <= time[j - 1]
      BY <1>12, <2>2
    <3>2. time[j] = next(time[j - 1], j)
      BY <1>10, <2>2
    <3> HIDE DEF next, value
    <3>3. time[j] \in Int /\ time[j] >= time[j - 1]
      BY <1>3, <2>2, <3>1, <3>2
    <3>4. \A i \in 1 .. j : i \in 1 .. j - 1 \/ i = j
      OBVIOUS
    <3>5. \A i \in 1 .. j : time[i] \in Int /\ time[i] <= time[j]
      BY <3>1, <3>3, <3>4
    <3> QED BY <3>3, <3>5
  <2> QED BY <2>1, <2>2
<1>13. \A j \in 0 .. n : j \in P
  <2> HIDE DEF P
  <2> QED BY <1>11, <1>12, Induct
<1> DEFINE fs == Normalised(sorted)
<1>14. DOMAIN fs = 1 .. n /\ \A k \in 1 .. n : fs[k].t = time[k]
  BY <1>8
<1>15. Len(fs) = n
  <2> HIDE DEF fs
  <2> QED BY <1>14
<1>16. \A k \in 1 .. n : fs[k].t \in Int
  <2>1. \A k \in 1 .. n : k \in 0 .. n /\ k >= 1
    OBVIOUS
  <2>2. \A k \in 1 .. n : time[k] \in Int
    BY <1>13, <2>1
  <2> HIDE DEF fs
  <2> QED BY <1>14, <2>2
<1>17. \A i, j \in 1 .. n : i < j => fs[i].t <= fs[j].t
  <2> SUFFICES ASSUME NEW i \in 1 .. n, NEW j \in 1 .. n, i < j PROVE time[i] <= time[j]
    BY <1>14
  <2>1. i \in 1 .. j /\ j \in 0 .. n /\ j >= 1
    OBVIOUS
  <2> QED BY <1>13, <2>1
<1> HIDE DEF fs
<1>18. InSequence(fs)
  BY <1>14, <1>17 DEF InSequence
<1> QED BY <1>14, <1>15, <1>16, <1>18 DEF fs


----------------------------------------------------------------------------
(* What is on view: the cursor, its bounds, the marks.                        *)

LEMMA Margins == WindowLen \in Nat /\ Pad \in Nat
BY TimelineAssumption DEF TimelineAssumption

\* A time is clamped to a time.
LEMMA ClampInt == ASSUME NEW t \in Int, NEW b \in [start : Int, end : Int] PROVE Clamp(t, b) \in Int
<1>1. b.start \in Int /\ b.end \in Int
  OBVIOUS
<1> DEFINE m == Min({b.end, t})
<1>2. m \in {b.end, t}
  BY <1>1, OfTwo, Zenon
<1>3. m \in Int
  BY <1>1, <1>2
<1> HIDE DEF m
<1>4. Max({b.start, m}) \in {b.start, m}
  BY <1>1, <1>3, OfTwo, Zenon
<1> QED BY <1>1, <1>3, <1>4 DEF Clamp, m

\* The ends of the buffers.
LEMMA BufferEnds ==
  ASSUME BufInv, Buffered # {} PROVE OldestSample \in 0 .. MaxTime /\ NewestSample \in 0 .. MaxTime
<1> DEFINE A == {buf[i][1].t : i \in Buffered}
           B == {Last(buf[i]).t : i \in Buffered}
<1>1. ASSUME NEW i \in Buffered PROVE buf[i][1].t \in 0 .. MaxTime /\ Last(buf[i]).t \in 0 .. MaxTime
  <2>1. buf[i] \in Seq(Frame) /\ buf[i] # <<>>
    BY OwnFrames DEF BufInv, Buffered
  <2>2. buf[i][1] \in Frame /\ Last(buf[i]) \in Frame
    BY <2>1 DEF Last
  <2> QED BY <2>2, OfAFrame
<1>2. A \in SUBSET (0 .. MaxTime) /\ A # {} /\ B \in SUBSET (0 .. MaxTime) /\ B # {}
  BY <1>1
<1>3. Min(A) \in A /\ Max(B) \in B
  <2> HIDE DEF A, B
  <2> QED BY <1>2, Limits, Bounded
<1> HIDE DEF A, B
<1> QED BY <1>2, <1>3 DEF A, B, OldestSample, NewestSample

LEMMA LiveBoundsTyped == ASSUME TypeInv, BufInv PROVE LiveBounds \in [start : Int, end : Int]
<1> DEFINE starts == (IF Buffered = {} THEN {} ELSE {OldestSample})
                       \union (IF index = {} THEN {} ELSE {Oldest.start})
           low == IF starts = {} THEN NoTime ELSE Min(starts)
           high == IF Buffered = {} THEN NoTime ELSE NewestSample
<1>1. NoTime \in Int
  BY DEF NoTime
<1>2. Buffered # {} => OldestSample \in 0 .. MaxTime /\ NewestSample \in 0 .. MaxTime
  BY BufferEnds
<1>3. index # {} => Oldest.start \in 0 .. MaxTime
  BY OldestIs DEF TypeInv, Entry
<1>4. starts \in SUBSET (0 .. MaxTime)
  BY <1>2, <1>3
<1>5. low \in Int
  <2> HIDE DEF starts
  <2>1. starts # {} => Min(starts) \in starts
    BY <1>4, Limits, Bounded
  <2>2. \A x \in 0 .. MaxTime : x \in Int
    BY Limits
  <2>3. \A x \in starts : x \in Int
    BY <1>4, <2>2, Zenon
  <2> QED BY <1>1, <2>1, <2>3, Zenon
<1>6. high \in Int
  BY <1>1, <1>2
<1>7. LiveBounds = [start |-> low, end |-> high]
  BY DEF LiveBounds
<1> HIDE DEF low, high
<1> QED BY <1>5, <1>6, <1>7

LEMMA FollowedTyped ==
  ASSUME TypeInv, BufInv, ViewTypes, FollowLive PROVE cursor' \in Int /\ bounds' \in [start : Int, end : Int]
<1>1. bounds' \in [start : Int, end : Int]
  BY LiveBoundsTyped DEF FollowLive
<1>2. cursor' = (IF Buffered # {} THEN NewestSample ELSE IF LiveBounds.start = NoTime THEN now ELSE cursor)
  BY DEF FollowLive
<1>3. cursor' \in Int
  BY <1>2, BufferEnds DEF TypeInv, ViewTypes
<1> QED BY <1>1, <1>3

\* The marks of a source are stored as they are on view.
LEMMA StoredTyped ==
  ASSUME NEW old \in [Sources -> SUBSET Int], NEW s, NEW cps \in SUBSET Int
  PROVE  [old EXCEPT ![s] = cps] \in [Sources -> SUBSET Int]
OBVIOUS

----------------------------------------------------------------------------
(* A seek, and what it asks the archive for.                                  *)

\* What is asked for around a cursor reaches from the window before it to the cursor.
LEMMA AskedFor ==
  ASSUME NEW start \in Int, NEW c \in Int
  PROVE  LET from == Max({IF start = NoTime THEN c ELSE start, c - WindowLen - Pad})
             need == IF start = NoTime THEN c ELSE Max({start, c - WindowLen})
         IN  from \in Int /\ c + Pad \in Int /\ from <= need /\ c + Pad >= c
<1> DEFINE low == IF start = NoTime THEN c ELSE start
           a == c - WindowLen - Pad
           b == c - WindowLen
<1>1. low \in Int /\ a \in Int /\ b \in Int /\ a <= b /\ b <= c /\ c + Pad \in Int /\ c + Pad >= c
  BY Margins
<1>2. Max({low, a}) \in {low, a} /\ Max({start, b}) >= start /\ Max({start, b}) >= b /\ Max({start, b}) \in {start, b}
  <2>1. low \in Int /\ a \in Int /\ b \in Int /\ start \in Int
    BY <1>1
  <2> HIDE DEF low, a, b
  <2> QED BY <2>1, OfTwo, Zenon
<1> DEFINE from == Max({low, a})
           top == Max({start, b})
<1>3. from \in {low, a} /\ top >= start /\ top >= b /\ top \in Int
  BY <1>1, <1>2
<1> HIDE DEF from, top, a, b
<1>4. from \in Int /\ from <= (IF start = NoTime THEN c ELSE top)
  BY <1>1, <1>3
<1> QED BY <1>1, <1>4 DEF from, top, a, b

\* What a read selects are chunks.
LEMMA RelevantTyped == ASSUME TypeInv, NEW from, NEW to PROVE Relevant(from, to) \subseteq Chunks
BY DEF TypeInv, Entry, Relevant

LEMMA SeekServed ==
  ASSUME TypeInv, WarmTypes, ViewTypes, WarmInv, NEW t \in Int, Seek(t)
  PROVE  WarmTypes' /\ WarmInv' /\ cursor' \in Int
<1> DEFINE c == Clamp(t, bounds)
<1>1. c \in Int /\ bounds.start \in Int
  BY ClampInt DEF ViewTypes
<1>2. /\ cursor' = c /\ mode' = "paused" /\ UNCHANGED <<active, bounds>>
      /\ sought'.cold <=> active = "live" /\ Cold(c)
      /\ IF active = "replay" THEN UNCHANGED warmVars
         ELSE IF Cold(c) THEN PrefetchAround(c)
         ELSE warm' = None /\ UNCHANGED <<loading, pending>>
  <2>1. sought' = [cold |-> active = "live" /\ Cold(c), frames |-> Archived(c)]
    BY DEF Seek
  <2>2. sought'.cold <=> active = "live" /\ Cold(c)
    BY <2>1
  <2> HIDE DEF c
  <2> QED BY <2>2 DEF Seek, c
<1> HIDE DEF c
<1>3. CASE active = "replay" \/ ~Cold(c)
  <2>1. (warm' = warm \/ warm' = None) /\ UNCHANGED <<loading, pending>>
    BY <1>2, <1>3 DEF warmVars
  <2>2. WarmTypes'
    BY <2>1 DEF WarmTypes
  <2>3. ~(active' = "live" /\ sought'.cold)
    BY <1>2, <1>3
  <2> QED BY <1>1, <1>2, <2>1, <2>2, <2>3 DEF WarmInv
<1>4. CASE active # "replay" /\ Cold(c)
  <2> DEFINE from == Max({IF bounds.start = NoTime THEN c ELSE bounds.start, c - WindowLen - Pad})
             to == c + Pad
             need == IF bounds.start = NoTime THEN c ELSE Max({bounds.start, c - WindowLen})
  <2>1. from \in Int /\ to \in Int /\ from <= need /\ to >= c
    BY <1>1, AskedFor
  <2>2. Needed' = need
    BY <1>2 DEF Needed
  <2>3. Prefetch(from, to)
    BY <1>2, <1>4 DEF PrefetchAround
  <2> HIDE DEF from, to, need
  <2>4. CASE loading # None
    <3>1. pending' = [from |-> from, to |-> to] /\ UNCHANGED <<warm, loading>>
      BY <2>3, <2>4 DEF Prefetch
    <3>2. pending' # None /\ pending'.from = from /\ pending'.to = to
      BY <3>1, Ranges
    <3>3. WarmTypes'
      BY <2>1, <3>1, <3>2 DEF WarmTypes
    <3>4. Serves(pending)'
      BY <1>2, <2>1, <2>2, <3>2 DEF Serves
    <3> QED BY <1>1, <1>2, <2>4, <3>1, <3>2, <3>3, <3>4 DEF WarmInv
  <2>5. CASE loading = None /\ Covers(warm, from, to)
    <3>1. UNCHANGED warmVars /\ pending = None
      BY <2>3, <2>5 DEF Prefetch, WarmInv
    <3>2. WarmTypes'
      BY <3>1 DEF WarmTypes, warmVars
    <3>3. warm # None /\ warm.from \in Int /\ warm.to \in Int /\ warm.from <= from /\ warm.to >= to
      BY <2>5 DEF Covers, WarmTypes
    <3>4. need \in Int
      <4>1. Max({bounds.start, c - WindowLen}) \in {bounds.start, c - WindowLen}
        <5>1. bounds.start \in Int /\ c - WindowLen \in Int
          BY <1>1, Margins
        <5> QED BY <5>1, OfTwo, Zenon
      <4> QED BY <1>1, <4>1, Margins DEF need
    <3>5. warm.from <= need /\ warm.to >= c
      BY <1>1, <2>1, <3>3, <3>4
    <3>6. Serves(warm)'
      BY <1>2, <2>2, <3>1, <3>3, <3>5 DEF Serves, warmVars
    <3> QED BY <1>1, <1>2, <2>5, <3>1, <3>2, <3>6 DEF WarmInv, warmVars
  <2>6. CASE loading = None /\ ~Covers(warm, from, to)
    <3>1. loading' = Load(from, to) /\ UNCHANGED <<warm, pending>> /\ pending = None
      BY <2>3, <2>6 DEF Prefetch, WarmInv
    <3>2. loading' # None /\ loading'.from = from /\ loading'.to = to /\ loading'.keys = Relevant(from, to)
      BY <3>1, Ranges DEF Load
    <3>3. WarmTypes'
      BY <2>1, <3>1, <3>2, RelevantTyped DEF WarmTypes
    <3>4. Serves(loading)'
      BY <1>2, <2>1, <2>2, <3>2 DEF Serves
    <3> QED BY <1>1, <1>2, <3>1, <3>2, <3>3, <3>4 DEF WarmInv
  <2> QED BY <2>4, <2>5, <2>6
<1> QED BY <1>1, <1>2, <1>3, <1>4

\* What the archive answers serves what was asked for, or what was asked for last comes next.
LEMMA LoadServed ==
  ASSUME TypeInv, WarmTypes, ViewTypes, WarmInv, WarmCacheLoaded, UNCHANGED timelineVars
  PROVE  WarmTypes' /\ WarmInv'
<1> DEFINE frames == IF ready THEN ReadChunks(loading.keys, loading.from, loading.to) ELSE {}
           cache == [from |-> loading.from, to |-> loading.to, frames |-> frames]
           next == pending # None /\ ~Covers(cache, pending.from, pending.to)
<1>1. /\ loading # None /\ warm' = cache /\ pending' = None /\ active' = active
      /\ loading' = IF next THEN Load(pending.from, pending.to) ELSE None
  BY DEF WarmCacheLoaded
<1>2. frames \subseteq Frame
  BY <1>1 DEF ReadChunks, WarmTypes, TypeInv
<1>3. loading.from \in Int /\ loading.to \in Int
  BY <1>1 DEF WarmTypes
<1>4. cache # None /\ cache.from = loading.from /\ cache.to = loading.to /\ cache.frames = frames
  BY Ranges
<1>5. pending # None => pending.from \in Int /\ pending.to \in Int
  BY DEF WarmTypes
<1> HIDE DEF frames, cache
<1>6. next => /\ loading' # None /\ loading'.from = pending.from /\ loading'.to = pending.to
              /\ loading'.keys = Relevant(pending.from, pending.to)
  BY <1>1, Ranges DEF Load
<1>7. WarmTypes'
  <2>1. loading' # None => next
    BY <1>1
  <2>2. warm'.from \in Int /\ warm'.to \in Int /\ warm'.frames \subseteq Frame
    BY <1>1, <1>2, <1>3, <1>4
  <2>3. next => loading'.from \in Int /\ loading'.to \in Int /\ loading'.keys \subseteq Chunks
    BY <1>5, <1>6, RelevantTyped
  <2> HIDE DEF next
  <2> QED BY <1>1, <2>1, <2>2, <2>3 DEF WarmTypes
<1>8. UNCHANGED <<mode, active, sought, cursor, bounds>>
  BY <1>1 DEF timelineVars, viewVars
<1>9. Needed' = Needed /\ Needed \in Int /\ cursor \in Int
  <2>1. bounds.start \in Int /\ cursor \in Int /\ cursor - WindowLen \in Int
    BY Margins DEF ViewTypes
  <2>2. Max({bounds.start, cursor - WindowLen}) \in {bounds.start, cursor - WindowLen}
    BY <2>1, OfTwo, Zenon
  <2> QED BY <1>8, <2>1, <2>2 DEF Needed
<1>10. ASSUME mode = "paused", active = "live", sought # None, sought.cold
       PROVE  Serves(IF loading' # None THEN loading' ELSE warm')
  <2>1. CASE pending = None
    <3>1. Serves(loading)
      BY <1>1, <1>10, <2>1 DEF WarmInv
    <3>2. loading' = None /\ Serves(warm')
      BY <1>1, <1>4, <2>1, <3>1 DEF Serves
    <3> QED BY <3>2
  <2>2. CASE pending # None
    <3>1. Serves(pending)
      BY <1>10, <2>2 DEF WarmInv
    <3>2. CASE next
      BY <1>6, <3>1, <3>2 DEF Serves
    <3>3. CASE ~next
      <4>1. cache.from <= pending.from /\ cache.to >= pending.to
        BY <2>2, <3>3 DEF Covers
      <4>2. cache.from <= Needed /\ cache.to >= cursor
        BY <1>3, <1>4, <1>5, <1>9, <2>2, <3>1, <4>1 DEF Serves
      <4>3. loading' = None /\ Serves(cache)
        BY <1>1, <1>4, <3>3, <4>2 DEF Serves
      <4> QED BY <1>1, <4>3
    <3> QED BY <3>2, <3>3
  <2> QED BY <2>1, <2>2
<1>11. \A r : Serves(r) => r # None /\ r.from <= Needed' /\ r.to >= cursor'
  BY <1>8, <1>9 DEF Serves
<1>12. WarmInv'
  BY <1>1, <1>8, <1>10, <1>11 DEF WarmInv, Serves
<1> QED BY <1>7, <1>12

----------------------------------------------------------------------------
(* Every step keeps what serves the past.                                     *)

\* Neither the cursor nor the warm cache moves.
CursorRests == UNCHANGED <<mode, cursor, bounds, active, sought, warmVars>>
LEMMA CursorAtRest ==
  ASSUME WarmTypes, WarmInv, CursorRests PROVE WarmTypes' /\ WarmInv'
<1>1. WarmTypes'
  BY DEF WarmTypes, CursorRests, warmVars
<1>2. Needed' = Needed
  BY DEF Needed, CursorRests
<1>3. \A r : Serves(r) => r # None /\ r.from <= Needed' /\ r.to >= cursor'
  BY <1>2 DEF Serves, CursorRests
<1>4. WarmInv'
  BY <1>3 DEF WarmInv, Serves, CursorRests, warmVars
<1> QED BY <1>1, <1>4

\* Live or over a recording, the warm cache owes the cursor nothing.
LEMMA NothingOwed ==
  ASSUME WarmTypes, WarmInv, mode' = "live" \/ active' = "replay",
         UNCHANGED warmVars \/ (warm' = None /\ loading' = None /\ pending' = None)
  PROVE  WarmTypes' /\ WarmInv'
<1>1. WarmTypes'
  BY DEF WarmTypes, warmVars
<1>2. loading' = None => pending' = None
  BY DEF WarmInv, warmVars
<1>3. ~(mode' = "paused" /\ active' = "live")
  OBVIOUS
<1> QED BY <1>1, <1>2, <1>3 DEF WarmInv

\* What is imported can be: a picked recording, or the part of one that is chosen.
LEMMA PickedTyped == ASSUME ViewTypes, ImportPicked PROVE ViewTypes'
<1>1. PICK file \in Files :
        IF Overflows(file) THEN clipping' = file /\ UNCHANGED importing
        ELSE importing' = importing \union {file} /\ UNCHANGED clipping
  BY DEF ImportPicked
<1>2. file \in Importable
  BY TimelineAssumption DEF TimelineAssumption, Importable
<1>3. UNCHANGED <<cursor, bounds, checkpoints, stored>>
  BY DEF ImportPicked, viewVars
<1>4. (clipping' # None => clipping' \in Importable) /\ importing' \subseteq Importable
  BY <1>1, <1>2 DEF ViewTypes
<1> QED BY <1>3, <1>4 DEF ViewTypes

LEMMA ChosenTyped == ASSUME ViewTypes, ClipChosen PROVE ViewTypes'
<1>1. UNCHANGED <<cursor, bounds, checkpoints, stored>> /\ clipping' = None
  BY DEF ClipChosen, viewVars
<1>2. CASE UNCHANGED importing
  BY <1>1, <1>2 DEF ViewTypes
<1>3. CASE ~UNCHANGED importing
  <2>1. PICK from, to \in {f.rel : f \in clipping.frames} :
          LET kept == {f \in clipping.frames : from <= f.rel /\ f.rel <= to}
          IN  kept # {} /\ importing' = importing \union {[clipping EXCEPT !.frames = kept]}
    BY <1>3 DEF ClipChosen
  <2> DEFINE kept == {f \in clipping.frames : from <= f.rel /\ f.rel <= to}
             part == [clipping EXCEPT !.frames = kept]
  <2>2. kept # {} /\ importing' = importing \union {part}
    BY <2>1
  <2>3. clipping \in Importable
    BY DEF ClipChosen, ViewTypes
  <2>4. kept \subseteq clipping.frames /\ IsFiniteSet(kept)
    <3>1. kept \subseteq clipping.frames
      OBVIOUS
    <3> HIDE DEF kept
    <3> QED BY <2>3, <3>1, FS_Subset DEF Importable
  <2>5. part \in Importable
    <3> HIDE DEF kept
    <3>1. part \in Recording /\ part.frames = kept
      BY <2>3, <2>4 DEF Importable, Recording
    <3> HIDE DEF part
    <3> QED BY <2>2, <2>4, <3>1 DEF Importable
  <2> HIDE DEF part
  <2> QED BY <1>1, <2>2, <2>5 DEF ViewTypes
<1> QED BY <1>2, <1>3

\* A recording is put on view.
Loads(file, sorted) ==
  LET fs    == Normalised(sorted)
      range == [start |-> fs[1].t, end |-> Last(fs).t]
      marks == {t \in {fs[1].t + c : c \in file.checkpoints} : range.start <= t /\ t <= range.end}
  IN  /\ importing' = importing \ {file}
      /\ session' = [range |-> range, frames |-> fs]
      /\ checkpoints' = marks
      /\ stored' = [stored EXCEPT !["replay"] = marks]
      /\ bounds' = range
      /\ cursor' = IF file.cursor = NoTime THEN range.end ELSE Clamp(fs[1].t + file.cursor, range)
      /\ UNCHANGED clipping
LEMMA LoadedTyped ==
  ASSUME TypeInv, ViewTypes, ReplayLoaded PROVE ViewTypes' /\ ReplaySorted'
<1>1. PICK file \in importing : \E sorted \in InOrder(file.frames) : Loads(file, sorted)
  BY Zenon DEF ReplayLoaded, Loads
<1>2. PICK sorted \in InOrder(file.frames) : Loads(file, sorted)
  BY <1>1
<1> DEFINE fs == Normalised(sorted)
           range == [start |-> fs[1].t, end |-> Last(fs).t]
           marks == {t \in {fs[1].t + c : c \in file.checkpoints} : range.start <= t /\ t <= range.end}
<1>3. /\ importing' = importing \ {file} /\ session' = [range |-> range, frames |-> fs]
      /\ checkpoints' = marks /\ stored' = [stored EXCEPT !["replay"] = marks] /\ bounds' = range
      /\ cursor' = IF file.cursor = NoTime THEN range.end ELSE Clamp(fs[1].t + file.cursor, range)
      /\ UNCHANGED clipping
  BY <1>2, Zenon DEF Loads
<1>4. file \in Importable /\ file.cursor \in Int /\ file.checkpoints \subseteq Int
  BY DEF ViewTypes, Importable, Recording
<1>5. PICK n \in Nat \ {0} : /\ DOMAIN sorted = 1 .. n
                             /\ \A k \in 1 .. n : sorted[k].rel \in Int /\ sorted[k].epoch \in Int
  BY <1>4, RecordingSorted
<1>6. now \in Int
  BY Limits DEF TypeInv
<1>7. DOMAIN fs = 1 .. n /\ Len(fs) = n /\ (\A k \in 1 .. n : fs[k].t \in Int) /\ InSequence(fs)
  BY <1>5, <1>6, NormalisedIs
<1> HIDE DEF fs
<1>8. fs[1].t \in Int /\ Last(fs).t \in Int
  BY <1>7 DEF Last
<1>9. range \in [start : Int, end : Int] /\ range.end \in Int
  BY <1>8
<1>10. marks \in SUBSET Int
  BY <1>4, <1>8
<1> HIDE DEF range, marks
<1>11. cursor' \in Int
  <2>1. fs[1].t + file.cursor \in Int
    BY <1>4, <1>8
  <2>2. Clamp(fs[1].t + file.cursor, range) \in Int
    BY <1>9, <2>1, ClampInt
  <2> QED BY <1>3, <1>9, <2>2
<1>12. stored' \in [Sources -> SUBSET Int]
  BY <1>3, <1>10, StoredTyped DEF ViewTypes
<1>13. ViewTypes'
  BY <1>3, <1>9, <1>10, <1>11, <1>12 DEF ViewTypes
<1>14. session'.frames = fs
  BY <1>3
<1>15. ReplaySorted'
  BY <1>7, <1>14 DEF ReplaySorted, InSequence
<1> QED BY <1>13, <1>15

\* What a step does to the view and to the warm cache.
ViewRests == UNCHANGED <<checkpoints, stored, clipping, importing, session, skip, replaced>>
ViewStep ==
  \/ CursorRests /\ ViewRests /\ UNCHANGED <<cursor, bounds>>
  \/ Waiting
  \/ (\E t \in Int : Seek(t)) /\ ViewRests /\ UNCHANGED bounds
  \/ FollowLive /\ mode' = "live" /\ UNCHANGED <<active, warmVars>> /\ ViewRests
  \/ CursorFollowsClock \/ (\E cps \in SUBSET Int : SetCheckpoints(cps))
  \/ ImportPicked \/ ClipChosen \/ ReplayLoaded \/ ClearReplaySession \/ Reload \/ ClearSession

LEMMA SeekInView == ASSUME NEW t \in Int, Seek(t) PROVE ViewStep
<1>1. ViewRests /\ UNCHANGED bounds
  BY DEF Seek, jobVars, ViewRests
<1> QED BY <1>1 DEF ViewStep

LEMMA SliderInt == ASSUME ViewTypes, NEW t \in Slider PROVE t \in Int
<1>1. HasData(bounds) /\ t \in bounds.start .. Max({bounds.end, bounds.start + 1})
  BY DEF Slider
<1>2. bounds.start \in Int /\ bounds.end \in Int /\ bounds.start + 1 \in Int
  BY DEF ViewTypes
<1> DEFINE m == Max({bounds.end, bounds.start + 1})
<1>3. m \in {bounds.end, bounds.start + 1}
  <2> DEFINE x == bounds.start + 1
             y == bounds.end
  <2>1. x \in Int /\ y \in Int
    BY <1>2
  <2> HIDE DEF x, y, m
  <2>2. Max({y, x}) \in {y, x}
    BY <2>1, OfTwo, Zenon
  <2> QED BY <2>2 DEF x, y, m
<1>4. m \in Int
  BY <1>2, <1>3
<1> HIDE DEF m
<1> QED BY <1>1, <1>2, <1>4 DEF m

LEMMA ShownInt == ASSUME ViewTypes PROVE Shown \in Int
BY ClampInt DEF Shown, ViewTypes

LEMMA StepsOfTheView == ASSUME TypeInv, ViewTypes, [Next]_vars PROVE ViewStep
<1>1. CASE UNCHANGED vars
  BY <1>1 DEF vars, dataVars, timelineVars, viewVars, jobVars, warmVars, CursorRests, ViewRests, ViewStep
<1>2. CASE (Feed \/ Restore \/ Archive) /\ UNCHANGED timelineVars
  <2>1. UNCHANGED <<active, warmVars>>
    BY <1>2 DEF Feed, Restore, Archive, IngestMessage, Tick, RestoreSnapshot, PersistSnapshot, dataVars, warmVars
  <2> QED BY <1>2, <2>1 DEF timelineVars, viewVars, jobVars, CursorRests, ViewRests, ViewStep
<1>3. CASE Faults \/ ClearSession
  <2>1. CASE AppendFails /\ UNCHANGED <<dataVars, timelineVars>>
    BY <2>1 DEF dataVars, timelineVars, viewVars, jobVars, warmVars, CursorRests, ViewRests, ViewStep
  <2> QED BY <1>3, <2>1 DEF Faults, ViewStep
<1>4. CASE UserClears
  <2>1. UNCHANGED <<active, warmVars, timelineVars>>
    BY <1>4 DEF UserClears, SetRetention, ClearData, ClearTrace, dataVars, warmVars
  <2> QED BY <2>1 DEF timelineVars, viewVars, jobVars, CursorRests, ViewRests, ViewStep
<1>5. CASE GoLive \/ BoundsUpdated
  BY <1>5 DEF GoLive, BoundsUpdated, dataVars, jobVars, warmVars, ViewRests, ViewStep
<1>6. CASE ExportBegins \/ ExportEnds
  <2>1. UNCHANGED <<dataVars, viewVars, clipping, importing>>
    BY <1>6, Zenon DEF ExportBegins, ExportEnds
  <2> QED BY <2>1 DEF dataVars, viewVars, warmVars, CursorRests, ViewRests, ViewStep
<1>7. CASE UserClips
  <2>1. CASE MoveClip \/ (SetClip /\ clip.on)
    <3>1. UNCHANGED <<dataVars, mode, cursor, bounds, checkpoints, stored, skip, session, sought, replaced, jobVars>>
      BY <2>1, Zenon DEF MoveClip, SetClip
    <3> QED BY <3>1 DEF dataVars, jobVars, warmVars, CursorRests, ViewRests, ViewStep
  <2>2. CASE SetClip /\ ~clip.on
    <3>1. Seek(Shown)
      BY <2>2, Zenon DEF SetClip
    <3> QED BY <3>1, ShownInt, SeekInView
  <2> QED BY <1>7, <2>1, <2>2 DEF UserClips
<1>8. CASE DragCursor \/ Pause \/ JumpToCheckpoint
  <2>1. CASE DragCursor
    BY <2>1, SliderInt, SeekInView DEF DragCursor, SeekOnly
  <2>2. CASE Pause
    <3> DEFINE t == IF bounds.end = NoTime THEN now ELSE bounds.end
    <3>1. t \in Int
      BY Limits DEF ViewTypes, TypeInv
    <3> HIDE DEF t
    <3>2. Seek(t)
      BY <2>2, Zenon DEF Pause, SeekOnly, t
    <3> QED BY <3>1, <3>2, SeekInView
  <2>3. CASE JumpToCheckpoint
    BY <2>3, SeekInView DEF JumpToCheckpoint, SeekOnly, ViewTypes
  <2> QED BY <1>8, <2>1, <2>2, <2>3
<1>9. CASE AddCheckpoint \/ DeleteCheckpoint \/ ClearCheckpoints
  <2>1. Clamp(cursor, bounds) \in Int
    BY ClampInt DEF ViewTypes
  <2>2. \E cps \in SUBSET Int : SetCheckpoints(cps)
    <3>1. CASE AddCheckpoint
      <4>1. checkpoints \union {Clamp(cursor, bounds)} \in SUBSET Int
        BY <2>1 DEF ViewTypes
      <4> QED BY <3>1, <4>1, Zenon DEF AddCheckpoint
    <3>2. CASE DeleteCheckpoint
      <4>1. \A t : checkpoints \ {t} \in SUBSET Int
        BY DEF ViewTypes
      <4> QED BY <3>2, <4>1, Zenon DEF DeleteCheckpoint
    <3>3. CASE ClearCheckpoints
      BY <3>3 DEF ClearCheckpoints
    <3> QED BY <1>9, <3>1, <3>2, <3>3
  <2> QED BY <2>2 DEF ViewStep
<1>10. CASE UserImports \/ ReplayLoaded \/ CursorFollowsClock \/ Waiting
  BY <1>10 DEF UserImports, ViewStep
<1> QED BY <1>1, <1>2, <1>3, <1>4, <1>5, <1>6, <1>7, <1>8, <1>9, <1>10 DEF Next, UserSeeks, UserMarks

LEMMA ViewKeeps ==
  ASSUME TypeInv, PastInv, ViewStep PROVE WarmTypes' /\ ViewTypes' /\ WarmInv' /\ ReplaySorted'
<1>0. BufInv /\ WarmTypes /\ ViewTypes /\ WarmInv /\ ReplaySorted
  BY DEF PastInv
<1>1. ASSUME ViewRests, cursor' \in Int, bounds' \in [start : Int, end : Int] PROVE ViewTypes' /\ ReplaySorted'
  BY <1>0, <1>1 DEF ViewRests, ViewTypes, ReplaySorted
<1>2. CASE CursorRests /\ ViewRests /\ UNCHANGED <<cursor, bounds>>
  <2>1. cursor' \in Int /\ bounds' \in [start : Int, end : Int]
    BY <1>0, <1>2 DEF ViewTypes
  <2> QED BY <1>0, <1>1, <1>2, <2>1, CursorAtRest
<1>3. CASE Waiting
  <2>1. WarmCacheLoaded /\ UNCHANGED timelineVars
    BY <1>3 DEF Waiting
  <2>2. ViewRests /\ UNCHANGED <<cursor, bounds>>
    BY <2>1 DEF timelineVars, viewVars, jobVars, ViewRests
  <2>3. cursor' \in Int /\ bounds' \in [start : Int, end : Int]
    BY <1>0, <2>2 DEF ViewTypes
  <2> QED BY <1>0, <1>1, <2>1, <2>2, <2>3, LoadServed
<1>4. CASE (\E t \in Int : Seek(t)) /\ ViewRests /\ UNCHANGED bounds
  <2>1. WarmTypes' /\ WarmInv' /\ cursor' \in Int
    BY <1>0, <1>4, SeekServed
  <2>2. bounds' \in [start : Int, end : Int]
    BY <1>0, <1>4 DEF ViewTypes
  <2> QED BY <1>1, <1>4, <2>1, <2>2
<1>5. CASE FollowLive /\ mode' = "live" /\ UNCHANGED <<active, warmVars>> /\ ViewRests
  BY <1>0, <1>1, <1>5, FollowedTyped, NothingOwed
<1>6. CASE CursorFollowsClock
  <2>1. mode' = "live" /\ UNCHANGED warmVars /\ ViewRests /\ cursor' = now /\ bounds' = bounds
    BY <1>6 DEF CursorFollowsClock, dataVars, jobVars, warmVars, ViewRests
  <2>2. cursor' \in Int /\ bounds' \in [start : Int, end : Int]
    BY <1>0, <2>1, Limits DEF ViewTypes, TypeInv
  <2> QED BY <1>0, <1>1, <2>1, <2>2, NothingOwed
<1>7. CASE \E cps \in SUBSET Int : SetCheckpoints(cps)
  <2>1. PICK cps \in SUBSET Int : SetCheckpoints(cps)
    BY <1>7
  <2>2. /\ CursorRests /\ UNCHANGED <<cursor, bounds, clipping, importing, session>> /\ checkpoints' = cps
        /\ stored' = [stored EXCEPT ![active] = cps]
    BY <2>1 DEF SetCheckpoints, dataVars, jobVars, warmVars, CursorRests
  <2>3. stored' \in [Sources -> SUBSET Int]
    BY <1>0, <2>2, StoredTyped DEF ViewTypes
  <2>4. ViewTypes' /\ ReplaySorted'
    BY <1>0, <2>2, <2>3 DEF ViewTypes, ReplaySorted
  <2> QED BY <1>0, <2>2, <2>4, CursorAtRest
<1>8. CASE ImportPicked \/ ClipChosen
  <2>1. CursorRests /\ session' = session
    BY <1>8, Zenon DEF ImportPicked, ClipChosen, dataVars, viewVars, warmVars, CursorRests
  <2>2. ViewTypes'
    BY <1>0, <1>8, PickedTyped, ChosenTyped
  <2> QED BY <1>0, <2>1, <2>2, CursorAtRest DEF ReplaySorted
<1>9. CASE ReplayLoaded
  <2>1. active' = "replay" /\ UNCHANGED warmVars
    BY <1>9, Zenon DEF ReplayLoaded
  <2> QED BY <1>0, <1>9, <2>1, LoadedTyped, NothingOwed
<1>10. CASE ClearReplaySession
  <2>1. /\ mode' = "live" /\ UNCHANGED warmVars /\ FollowLive /\ session' = None /\ HydrateLive
        /\ UNCHANGED <<clipping, importing>>
    BY <1>10 DEF ClearReplaySession, jobVars
  <2>2. cursor' \in Int /\ bounds' \in [start : Int, end : Int]
    BY <1>0, <2>1, FollowedTyped
  <2>3. checkpoints' \in SUBSET Int /\ stored' = [stored EXCEPT !["live"] = checkpoints']
    BY <1>0, <2>1 DEF HydrateLive, ViewTypes, Sources
  <2>4. stored' \in [Sources -> SUBSET Int]
    BY <1>0, <2>3, StoredTyped DEF ViewTypes
  <2>5. ViewTypes' /\ ReplaySorted'
    BY <1>0, <2>1, <2>2, <2>3, <2>4 DEF ViewTypes, ReplaySorted
  <2> QED BY <1>0, <2>1, <2>5, NothingOwed
<1>11. CASE Reload \/ ClearSession
  <2>1. /\ TimelineDies /\ warm' = None /\ loading' = None /\ pending' = None
        /\ ((\E s : stored' = [stored EXCEPT ![s] = {}]) \/ stored' = stored)
        /\ (checkpoints' = stored["live"] \/ checkpoints' = stored'["live"])
    BY <1>11 DEF Reload, ClearSession, DataStoreDies, MemoryLost
  <2>2. mode' = "live" /\ session' = None /\ clipping' = None /\ importing' = {} /\ cursor' \in Int
        /\ bounds' = [start |-> NoTime, end |-> NoTime]
    BY <2>1, Limits DEF TimelineDies, TypeInv
  <2>3. stored' \in [Sources -> SUBSET Int]
    BY <1>0, <2>1, StoredTyped DEF ViewTypes
  <2>4. checkpoints' \in SUBSET Int
    BY <1>0, <2>1, <2>3 DEF ViewTypes, Sources
  <2>5. bounds' \in [start : Int, end : Int]
    BY <2>2 DEF NoTime
  <2>6. ViewTypes' /\ ReplaySorted'
    BY <2>2, <2>3, <2>4, <2>5 DEF ViewTypes, ReplaySorted
  <2> QED BY <1>0, <2>1, <2>2, <2>6, NothingOwed
<1> QED BY <1>2, <1>3, <1>4, <1>5, <1>6, <1>7, <1>8, <1>9, <1>10, <1>11 DEF ViewStep

----------------------------------------------------------------------------
(* The past is served.                                                        *)

LEMMA PastStep == ASSUME TypeInv, PastInv, [Next]_vars PROVE PastInv'
<1>1. BufInv'
  BY BufKeeps DEF PastInv
<1>2. WarmTypes' /\ ViewTypes' /\ WarmInv' /\ ReplaySorted'
  BY StepsOfTheView, ViewKeeps DEF PastInv
<1> QED BY <1>1, <1>2 DEF PastInv

LEMMA PastStart == ASSUME Init PROVE PastInv
<1>1. BufInv
  BY DEF Init, DataInit, BufInv
<1>2. WarmTypes /\ WarmInv /\ ReplaySorted
  BY DEF Init, DataInit, TimelineInit, WarmTypes, WarmInv, ReplaySorted
<1>3. ViewTypes
  BY DEF Init, TimelineInit, ViewTypes, NoTime
<1> QED BY <1>1, <1>2, <1>3 DEF PastInv

\* The archive's part of what is shown.
LEMMA WarmSamplesAre ==
  ASSUME WarmTypes, NEW i
  PROVE  LET s == WarmSamples(warm, i)
         IN  /\ Timed(s) /\ InSequence(s)
             /\ ToSet(s) = IF warm = None THEN {} ELSE {f \in warm.frames : f.id = i}
<1>1. CASE warm = None
  <2>1. WarmSamples(warm, i) = <<>>
    BY <1>1 DEF WarmSamples
  <2>2. Timed(<<>>) /\ InSequence(<<>>) /\ ToSet(<<>>) = {}
    BY DEF Timed, InSequence, ToSet
  <2> QED BY <1>1, <2>1, <2>2
<1>2. CASE warm # None
  <2> DEFINE fs == {f \in warm.frames : f.id = i}
  <2>1. WarmSamples(warm, i) = InTimeOrder(fs)
    BY <1>2 DEF WarmSamples
  <2>2. fs \in SUBSET Frame
    BY <1>2 DEF WarmTypes
  <2>3. IsFiniteSet(fs)
    BY <2>2, FrameFinite, FS_Subset
  <2> HIDE DEF fs
  <2>4. Timed(InTimeOrder(fs)) /\ InSequence(InTimeOrder(fs)) /\ ToSet(InTimeOrder(fs)) = fs
    BY <2>2, <2>3, SortedFrames
  <2> QED BY <1>2, <2>1, <2>4 DEF fs
<1> QED BY <1>1, <1>2

\* The largest time of frames is that of the last one.
LEMMA LargestIs ==
  ASSUME NEW P, NEW x \in P, \A f \in P : f.t <= x.t /\ f.t \in Int PROVE Max({f.t : f \in P}) = x.t
<1> DEFINE T == {f.t : f \in P}
<1>1. x.t \in T /\ \A y \in T : y <= x.t /\ y \in Int
  OBVIOUS
<1> HIDE DEF T
<1>2. Max(T) \in T /\ \A y \in T : Max(T) >= y
  BY <1>1 DEF Max
<1>3. Max(T) = x.t
  BY <1>1, <1>2
<1> QED BY <1>3 DEF T

ShowsLast(hot, cold, i) ==
  LET past  == {f \in hot \union cold : f.t <= cursor}
      shown == AllLatestAt(warm, cursor)[i]
  IN  IF past = {} THEN shown = None ELSE shown # None /\ shown.t = Max({f.t : f \in past})
LEMMA LatestShown == ASSUME PastInv PROVE LatestIsLatest
<1> SUFFICES ASSUME NEW i \in Ids
             PROVE  LET hot  == ToSet(buf[i])
                        cold == (IF warm = None THEN {} ELSE {f \in warm.frames : f.id = i}) \ hot
                    IN  InSequence(buf[i]) /\ (\A f \in hot, g \in cold : g.t <= f.t) => ShowsLast(hot, cold, i)
  BY Zenon DEF LatestIsLatest, ShowsLast
<1> DEFINE hot  == ToSet(buf[i])
           cold == (IF warm = None THEN {} ELSE {f \in warm.frames : f.id = i}) \ hot
<1> SUFFICES ASSUME InSequence(buf[i]), \A f \in hot, g \in cold : g.t <= f.t PROVE ShowsLast(hot, cold, i)
  OBVIOUS
<1>0. hot = ToSet(buf[i]) /\ cold = (IF warm = None THEN {} ELSE {f \in warm.frames : f.id = i}) \ hot
  OBVIOUS
<1> HIDE DEF hot, cold
<1> DEFINE x == LatestAt(buf[i], cursor)
           ws == WarmSamples(warm, i)
           y == LatestIn(ws, cursor)
           past == {f \in hot \union cold : f.t <= cursor}
           shown == AllLatestAt(warm, cursor)[i]
           Right == IF past = {} THEN shown = None ELSE shown # None /\ shown.t = Max({f.t : f \in past})
<1>1. cursor \in Int /\ buf[i] \in Seq(Frame) /\ Timed(buf[i])
  BY OwnFrames DEF PastInv, ViewTypes, BufInv
<1>2. hot \subseteq Frame
  BY <1>0, <1>1, InSeq
<1>3. ToSet(ws) = (IF warm = None THEN {} ELSE {f \in warm.frames : f.id = i}) /\ Timed(ws) /\ InSequence(ws)
  BY WarmSamplesAre DEF PastInv
<1>4. ToSet(ws) \subseteq Frame /\ cold = ToSet(ws) \ hot
  BY <1>0, <1>3 DEF PastInv, WarmTypes
<1>5. FoundIn(buf[i], cursor, x) /\ FoundIn(ws, cursor, y)
  BY <1>1, <1>3, LatestAtIs, LatestInIs
<1>6. shown = IF x # None THEN x ELSE y
  BY DEF AllLatestAt
<1> HIDE DEF x, y, ws, shown
<1>7. \A f \in hot \union cold : f \in Frame /\ f # None /\ f.t \in Int
  BY <1>2, <1>4, FrameNotNone, OfAFrame
<1>8. ASSUME \E f \in hot : f.t <= cursor PROVE Right
  <2>1. x \in hot /\ x.t <= cursor /\ \A f \in hot : f.t <= cursor => f.t <= x.t
    BY <1>0, <1>5, <1>8 DEF FoundIn
  <2>2. shown = x /\ x # None
    BY <1>6, <1>7, <2>1
  <2>3. x \in past /\ \A f \in past : f.t <= x.t /\ f.t \in Int
    BY <1>7, <2>1
  <2> HIDE DEF past
  <2>4. shown.t = Max({f.t : f \in past})
    BY <2>2, <2>3, LargestIs
  <2> QED BY <2>2, <2>3, <2>4
<1>9. ASSUME ~(\E f \in hot : f.t <= cursor), \E f \in ToSet(ws) : f.t <= cursor PROVE Right
  <2>1. x = None
    BY <1>0, <1>5, <1>9 DEF FoundIn
  <2>2. y \in ToSet(ws) /\ y.t <= cursor /\ \A f \in ToSet(ws) : f.t <= cursor => f.t <= y.t
    BY <1>5, <1>9 DEF FoundIn
  <2>3. y \in cold
    BY <1>4, <1>9, <2>2
  <2>4. shown = y /\ y # None
    BY <1>6, <1>7, <2>1, <2>3
  <2>5. y \in past /\ \A f \in past : f.t <= y.t /\ f.t \in Int
    BY <1>4, <1>7, <1>9, <2>2, <2>3
  <2> HIDE DEF past
  <2>6. shown.t = Max({f.t : f \in past})
    BY <2>4, <2>5, LargestIs
  <2> QED BY <2>4, <2>5, <2>6
<1>10. ASSUME ~(\E f \in hot : f.t <= cursor), ~(\E f \in ToSet(ws) : f.t <= cursor) PROVE Right
  <2>1. x = None /\ y = None
    BY <1>0, <1>5, <1>10 DEF FoundIn
  <2>2. past = {}
    BY <1>4, <1>10
  <2> QED BY <1>6, <2>1, <2>2
<1>11. Right
  <2> HIDE DEF Right
  <2> QED BY <1>8, <1>9, <1>10
<1> QED BY <1>11, Zenon DEF shown, ShowsLast

LEMMA PastMeans == ASSUME PastInv PROVE PastIsServed
<1>1. WarmServesCursor
  <2> SUFFICES ASSUME mode = "paused", active = "live", sought # None, sought.cold, loading = None
               PROVE  Covers(warm, Needed, cursor)
    BY DEF WarmServesCursor, Needed
  <2>1. Serves(warm)
    BY DEF PastInv, WarmInv
  <2> QED BY <2>1 DEF Serves, Covers
<1> QED BY <1>1, LatestShown DEF PastInv, PastIsServed

\* For every recording, retention and archive, whatever seeks and loads cross: the warm cache
\* reaches the cursor that rests in the past, what is shown there is the last sample up to it,
\* and the times of an imported recording never go back.
THEOREM PastServed == Spec => []PastIsServed
<1>1. Init => PastInv
  BY PastStart
<1>2. KeepInv /\ PastInv /\ [Next]_vars => PastInv'
  BY PastStep DEF KeepInv
<1>3. PastInv => PastIsServed
  BY PastMeans
<1> QED BY <1>1, <1>2, <1>3, KeptAlways, PTL DEF Spec

----------------------------------------------------------------------------
(* The marks of the live session come back: the flag that keeps an import's   *)
(* marks on view is up only when a recording was imported over another.       *)

SkipInv == skip = replaced
LEMMA SkipStep == ASSUME TypeInv, PastInv, SkipInv, [Next]_vars PROVE SkipInv'
<1>1. ViewStep
  BY StepsOfTheView DEF PastInv
<1>2. CASE UNCHANGED <<skip, replaced>>
  BY <1>2 DEF SkipInv
<1>3. CASE ReplayLoaded
  BY <1>3, Zenon DEF ReplayLoaded, SkipInv
<1>4. CASE ClearReplaySession
  BY <1>4 DEF ClearReplaySession, HydrateLive, SkipInv
<1>5. CASE Reload \/ ClearSession
  BY <1>5 DEF Reload, ClearSession, TimelineDies, SkipInv
<1>6. CASE Waiting \/ CursorFollowsClock \/ (\E cps \in SUBSET Int : SetCheckpoints(cps)) \/ ImportPicked \/ ClipChosen
  <2>1. UNCHANGED <<skip, replaced>>
    BY <1>6, Zenon DEF Waiting, CursorFollowsClock, SetCheckpoints, ImportPicked, ClipChosen, timelineVars, viewVars
  <2> QED BY <1>2, <2>1
<1> QED BY <1>1, <1>2, <1>3, <1>4, <1>5, <1>6 DEF ViewStep, ViewRests

LEMMA MarksReturn ==
  ASSUME TypeInv, PastInv, SkipInv, [Next]_vars, active = "replay", active' = "live", ~replaced
  PROVE  checkpoints' = stored["live"]
<1>1. ViewStep
  BY StepsOfTheView DEF PastInv
<1>2. active' # active
  OBVIOUS
<1>3. CASE ClearReplaySession
  BY <1>3 DEF ClearReplaySession, HydrateLive, SkipInv
<1>4. CASE Reload
  BY <1>4 DEF Reload
<1>5. CASE ClearSession
  <2>1. stored' = [stored EXCEPT !["replay"] = {}] /\ checkpoints' = stored'["live"]
    BY <1>5 DEF ClearSession
  <2>2. stored \in [Sources -> SUBSET Int]
    BY DEF PastInv, ViewTypes
  <2> QED BY <2>1, <2>2 DEF Sources
<1>6. ~(Waiting \/ CursorFollowsClock \/ (\E cps \in SUBSET Int : SetCheckpoints(cps)) \/ ImportPicked \/ ClipChosen)
  BY <1>2, Zenon DEF Waiting, WarmCacheLoaded, CursorFollowsClock, SetCheckpoints, ImportPicked, ClipChosen, dataVars
<1>7. ~ReplayLoaded
  BY DEF ReplayLoaded
<1>8. ~\E t \in Int : Seek(t)
  BY <1>2 DEF Seek
<1> QED BY <1>1, <1>2, <1>3, <1>4, <1>5, <1>6, <1>7, <1>8 DEF ViewStep, CursorRests

\* For every session: when the replay is unmounted the checkpoints of the live session come
\* back, unless one recording was imported over another.
THEOREM MarksComeBack == Spec => LiveCheckpointsReturn
<1> DEFINE A == active = "replay" /\ active' = "live" /\ ~replaced => checkpoints' = stored["live"]
<1>1. Init => PastInv /\ SkipInv
  BY PastStart DEF Init, TimelineInit, SkipInv
<1>2. KeepInv /\ (PastInv /\ SkipInv) /\ [Next]_vars => (PastInv /\ SkipInv)'
  BY PastStep, SkipStep DEF KeepInv
<1>3. KeepInv /\ (PastInv /\ SkipInv) /\ [Next]_vars => [A]_vars
  BY MarksReturn DEF KeepInv
<1>4. Spec => [][A]_vars
  <2> HIDE DEF A
  <2> QED BY <1>1, <1>2, <1>3, KeptAlways, PTL DEF Spec
<1> QED BY <1>4 DEF LiveCheckpointsReturn
=============================================================================
