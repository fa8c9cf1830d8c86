------------------------- MODULE ArrivalTraceProofs -------------------------
(***************************************************************************)
(* Proofs about WorkingSet, for every capacity and all sizes; about        *)
(* ArrivalTrace, for every workload, every shuffle and every size of the   *)
(* cohorts; and about Screening, the simulation of what ArrivalTrace       *)
(* writes.                                                                 *)
(***************************************************************************)
EXTENDS Screening, FunctionTheorems, FiniteSetTheorems, SequenceTheorems,
        WellFoundedInduction, TLAPS

----------------------------------------------------------------------------
(* Sets of numbers. *)

\* A set of natural numbers has a smallest one.
LEMMA NatMin == ASSUME NEW T, T \subseteq Nat, T # {} PROVE \E x \in T : \A y \in T : x <= y
<1> DEFINE R == OpToRel(<, Nat)
<1>1. IsWellFoundedOn(R, Nat)
  BY NatLessThanWellFounded, Zenon
<1>2. \A a, b \in Nat : <<a, b>> \in R <=> a < b
  BY DEF OpToRel
<1> HIDE DEF R
<1>3. PICK x \in T : \A y \in T : ~(<<y, x>> \in R)
  BY <1>1, WFMin, Zenon
<1>4. ASSUME NEW y \in T PROVE x <= y
  <2>1. x \in Nat /\ y \in Nat
    OBVIOUS
  <2>2. ~(<<y, x>> \in R)
    BY <1>3
  <2>3. ~(y < x)
    BY <1>2, <2>1, <2>2, Zenon
  <2> QED
    BY <2>1, <2>3
<1> QED
  BY <1>4

\* Induction over the natural numbers, for a set.
LEMMA NatInd ==
  ASSUME NEW T, 0 \in T, \A n \in Nat : n \in T => n + 1 \in T
  PROVE  Nat \subseteq T
<1> SUFFICES ASSUME NEW m \in Nat, m \notin T PROVE FALSE
  OBVIOUS
<1>1. PICK n \in Nat \ T : \A k \in Nat \ T : n <= k
  <2>1. Nat \ T \subseteq Nat /\ Nat \ T # {}
    OBVIOUS
  <2> QED
    BY <2>1, NatMin
<1>2. n # 0 /\ n - 1 \in Nat /\ n - 1 \in T
  BY <1>1
<1> QED
  BY <1>1, <1>2

\* A set of numbers up to a bound has a largest one.
LEMMA NatMax == ASSUME NEW n \in Nat, NEW T, T \subseteq 1 .. n, T # {} PROVE \E x \in T : \A y \in T : y <= x
<1> DEFINE U == {n - t : t \in T}
<1>1. U \subseteq Nat /\ U # {}
  <2>1. \A t \in 1 .. n : n - t \in Nat
    OBVIOUS
  <2> QED
    BY <2>1
<1>2. PICK x \in U : \A y \in U : x <= y
  <2> HIDE DEF U
  <2> QED
    BY <1>1, NatMin
<1>3. PICK t \in T : x = n - t
  BY <1>2
<1>4. \A y \in T : y <= t
  <2> SUFFICES ASSUME NEW y \in T PROVE y <= t
    OBVIOUS
  <2>1. n - t <= n - y
    BY <1>2, <1>3
  <2>2. y \in Int /\ t \in Int
    OBVIOUS
  <2> QED
    BY <2>1, <2>2
<1> QED
  BY <1>4

----------------------------------------------------------------------------
(* Running sums. *)

IsSum(f, w, n) == f = [i \in 0 .. n |-> IF i = 0 THEN 0 ELSE f[i - 1] + w[i]]

LEMMA SumExists ==
  ASSUME NEW w \in Seq(Nat), NEW m \in Nat, m <= Len(w)
  PROVE  \E f : IsSum(f, w, m)
<1> DEFINE T == {n \in Nat : n <= Len(w) => \E f : IsSum(f, w, n)}
<1>1. 0 \in T
  <2>1. IsSum([i \in 0 .. 0 |-> 0], w, 0)
    BY DEF IsSum
  <2> QED
    BY <2>1
<1>2. ASSUME NEW n \in Nat, n \in T PROVE n + 1 \in T
  <2> SUFFICES ASSUME n + 1 <= Len(w) PROVE \E f : IsSum(f, w, n + 1)
    OBVIOUS
  <2>1. PICK f : IsSum(f, w, n)
    BY <1>2
  <2> DEFINE last == f[n] + w[n + 1]
             g == [i \in 0 .. n + 1 |-> IF i <= n THEN f[i] ELSE last]
  <2>2. \A i \in 0 .. n : f[i] = IF i = 0 THEN 0 ELSE f[i - 1] + w[i]
    BY <2>1 DEF IsSum
  <2> HIDE DEF last
  <2>3. ASSUME NEW i \in 0 .. n + 1 PROVE g[i] = IF i = 0 THEN 0 ELSE g[i - 1] + w[i]
    <3>1. CASE i <= n
      <4>1. g[i] = f[i] /\ i \in 0 .. n /\ (i # 0 => g[i - 1] = f[i - 1])
        BY <3>1
      <4> HIDE DEF g
      <4> QED
        BY <2>2, <4>1
    <3>2. CASE ~(i <= n)
      <4>1. i = n + 1 /\ g[i] = last /\ g[n] = f[n] /\ (n + 1) - 1 = n /\ n + 1 # 0
        BY <3>2
      <4> HIDE DEF g
      <4> QED
        BY <4>1 DEF last
    <3> QED
      BY <3>1, <3>2
  <2>4. IsSum(g, w, n + 1)
    <3>1. g = [i \in 0 .. n + 1 |-> g[i]]
      OBVIOUS
    <3> HIDE DEF g
    <3> QED
      BY <2>3, <3>1 DEF IsSum
  <2> QED
    BY <2>4
<1> HIDE DEF T
<1>3. Nat \subseteq T
  BY <1>1, <1>2, NatInd
<1> QED
  BY <1>3 DEF T

LEMMA SumsDef ==
  ASSUME NEW w \in Seq(Nat)
  PROVE  IsSum(Sums(w), w, Len(w))
<1>1. PICK f : IsSum(f, w, Len(w))
  BY SumExists
<1> DEFINE sum[n \in 0 .. Len(w)] == IF n = 0 THEN 0 ELSE sum[n - 1] + w[n]
<1>2. Sums(w) = sum
  BY DEF Sums
<1>3. sum = [n \in 0 .. Len(w) |-> IF n = 0 THEN 0 ELSE sum[n - 1] + w[n]]
  BY <1>1 DEF IsSum
<1> HIDE DEF sum
<1> QED
  BY <1>2, <1>3 DEF IsSum

LEMMA SumsFacts ==
  ASSUME NEW w \in Seq(Nat)
  PROVE  /\ Sums(w)[0] = 0
         /\ \A n \in 0 .. Len(w) - 1 : Sums(w)[n + 1] = Sums(w)[n] + w[n + 1]
         /\ \A n \in 0 .. Len(w) : Sums(w)[n] \in Nat
<1> DEFINE s == Sums(w)
<1>1. \A n \in 0 .. Len(w) : s[n] = IF n = 0 THEN 0 ELSE s[n - 1] + w[n]
  BY SumsDef DEF IsSum
<1> HIDE DEF s
<1>2. s[0] = 0
  BY <1>1
<1>3. ASSUME NEW n \in 0 .. Len(w) - 1 PROVE s[n + 1] = s[n] + w[n + 1]
  <2>1. n + 1 \in 0 .. Len(w) /\ n + 1 # 0 /\ (n + 1) - 1 = n
    OBVIOUS
  <2> QED
    BY <1>1, <2>1, Zenon
<1> DEFINE T == {n \in Nat : n <= Len(w) => s[n] \in Nat}
<1>4. 0 \in T
  BY <1>2
<1>5. ASSUME NEW n \in Nat, n \in T PROVE n + 1 \in T
  <2> SUFFICES ASSUME n + 1 <= Len(w) PROVE s[n + 1] \in Nat
    OBVIOUS
  <2>1. s[n] \in Nat /\ n \in 0 .. Len(w) - 1 /\ w[n + 1] \in Nat
    BY <1>5
  <2> QED
    BY <1>3, <2>1
<1> HIDE DEF T
<1>6. Nat \subseteq T
  BY <1>4, <1>5, NatInd
<1>7. \A n \in 0 .. Len(w) : s[n] \in Nat
  BY <1>6 DEF T
<1> QED
  BY <1>2, <1>3, <1>7 DEF s

\* Whatever starts at zero and grows by the same sizes is the same sum.
LEMMA SumsAre ==
  ASSUME NEW w \in Seq(Nat), NEW m \in 0 .. Len(w), NEW g, g[0] = 0,
         \A n \in 0 .. m - 1 : g[n + 1] = g[n] + w[n + 1]
  PROVE  \A n \in 0 .. m : Sums(w)[n] = g[n]
<1> DEFINE s == Sums(w)
           T == {n \in Nat : n <= m => s[n] = g[n]}
<1>1. s[0] = 0 /\ \A n \in 0 .. Len(w) - 1 : s[n + 1] = s[n] + w[n + 1]
  BY SumsFacts
<1> HIDE DEF s
<1>2. 0 \in T
  BY <1>1
<1>3. ASSUME NEW n \in Nat, n \in T PROVE n + 1 \in T
  <2> SUFFICES ASSUME n + 1 <= m PROVE s[n + 1] = g[n + 1]
    OBVIOUS
  <2>1. s[n] = g[n] /\ n \in 0 .. Len(w) - 1 /\ n \in 0 .. m - 1
    BY <1>3
  <2> QED
    BY <1>1, <2>1, Zenon
<1> HIDE DEF T
<1>4. Nat \subseteq T
  BY <1>2, <1>3, NatInd
<1>5. \A n \in 0 .. m : s[n] = g[n]
  BY <1>4 DEF T
<1> QED
  BY <1>5 DEF s

LEMMA SumsGrow ==
  ASSUME NEW w \in Seq(Nat), NEW i \in 0 .. Len(w), NEW j \in i .. Len(w)
  PROVE  Sums(w)[i] <= Sums(w)[j]
<1> DEFINE s == Sums(w)
           T == {n \in Nat : i + n <= Len(w) => s[i] <= s[i + n]}
<1>1. /\ \A n \in 0 .. Len(w) - 1 : s[n + 1] = s[n] + w[n + 1]
      /\ \A n \in 0 .. Len(w) : s[n] \in Nat
  BY SumsFacts
<1> HIDE DEF s
<1>2. 0 \in T
  BY <1>1
<1>3. ASSUME NEW n \in Nat, n \in T PROVE n + 1 \in T
  <2> SUFFICES ASSUME i + (n + 1) <= Len(w) PROVE s[i] <= s[i + (n + 1)]
    OBVIOUS
  <2> DEFINE k == i + n
  <2>1. k \in 0 .. Len(w) - 1 /\ k \in 0 .. Len(w) /\ k + 1 \in 1 .. Len(w) /\ i + (n + 1) = k + 1
    OBVIOUS
  <2>2. s[i] <= s[k]
    BY <1>3
  <2> HIDE DEF k
  <2>3. s[k + 1] = s[k] + w[k + 1] /\ w[k + 1] \in Nat /\ s[k] \in Nat /\ s[i] \in Nat
    BY <1>1, <2>1
  <2>4. s[i] <= s[k + 1]
    BY <2>2, <2>3
  <2> QED
    BY <2>1, <2>4, Zenon
<1> HIDE DEF T
<1>4. Nat \subseteq T
  BY <1>2, <1>3, NatInd
<1>5. j - i \in T
  BY <1>4
<1>6. s[i] <= s[i + (j - i)]
  BY <1>5 DEF T
<1>7. i + (j - i) = j
  OBVIOUS
<1> QED
  BY <1>6, <1>7 DEF s

----------------------------------------------------------------------------
(* Footprints. *)

LEMMA LastSizesType ==
  ASSUME NEW uses \in Seq(Uses), NEW j \in 0 .. Len(uses)
  PROVE  /\ LastSizes(uses, j) \in Seq(Nat) /\ Len(LastSizes(uses, j)) = j
         /\ \A k \in 1 .. j : LastSizes(uses, j)[k] = IF Again(uses, k, j) THEN 0 ELSE uses[k].size
<1>1. \A k \in 1 .. j : uses[k].size \in Nat
  <2>1. \A k \in 1 .. j : uses[k] \in Uses
    OBVIOUS
  <2> QED
    BY <2>1 DEF Uses
<1>2. j \in Nat
  OBVIOUS
<1> QED
  BY <1>1, <1>2 DEF LastSizes

\* The same uses, and perhaps others behind them.
LEMMA FootprintLocal ==
  ASSUME NEW uses \in Seq(Uses), NEW u \in Uses, NEW j \in 0 .. Len(uses)
  PROVE  /\ \A k \in 1 .. j : Again(Append(uses, u), k, j) <=> Again(uses, k, j)
         /\ LastSizes(Append(uses, u), j) = LastSizes(uses, j)
         /\ \A i : Footprint(Append(uses, u), i, j) = Footprint(uses, i, j)
<1>1. \A k \in 1 .. j : Append(uses, u)[k] = uses[k]
  OBVIOUS
<1>2. ASSUME NEW k \in 1 .. j PROVE Again(Append(uses, u), k, j) <=> Again(uses, k, j)
  <2>1. \A m \in k + 1 .. j : m \in 1 .. j
    OBVIOUS
  <2> QED
    BY <1>1, <2>1 DEF Again
<1>3. LastSizes(Append(uses, u), j) = LastSizes(uses, j)
  BY <1>1, <1>2 DEF LastSizes
<1> QED
  BY <1>2, <1>3 DEF Footprint

LEMMA FootprintOrder ==
  ASSUME NEW uses \in Seq(Uses), NEW j \in 0 .. Len(uses), NEW i \in 1 .. j + 1
  PROVE  /\ Footprint(uses, i, j) \in Nat
         /\ \A k \in i .. j + 1 : Footprint(uses, k, j) <= Footprint(uses, i, j)
<1> DEFINE w == LastSizes(uses, j)
           s == Sums(w)
<1>1. w \in Seq(Nat) /\ Len(w) = j
  BY LastSizesType
<1>2. \A n \in 0 .. j : s[n] \in Nat
  BY <1>1, SumsFacts
<1>3. \A a \in 0 .. j : \A b \in a .. j : s[a] <= s[b]
  BY <1>1, SumsGrow
<1> HIDE DEF w
<1>4. \A k : Footprint(uses, k, j) = s[j] - s[k - 1]
  BY DEF Footprint, w
<1> HIDE DEF s
<1>5. ASSUME NEW k \in i .. j + 1 PROVE s[j] - s[k - 1] <= s[j] - s[i - 1] /\ s[j] - s[k - 1] \in Nat
  <2>1. k - 1 \in 0 .. j /\ i - 1 \in 0 .. j /\ k - 1 \in i - 1 .. j /\ j \in k - 1 .. j /\ j \in 0 .. j
    OBVIOUS
  <2>2. s[i - 1] <= s[k - 1] /\ s[k - 1] <= s[j] /\ s[i - 1] \in Nat /\ s[k - 1] \in Nat /\ s[j] \in Nat
    BY <1>2, <1>3, <2>1
  <2> QED
    BY <2>2
<1>6. i \in i .. j + 1
  OBVIOUS
<1> QED
  BY <1>4, <1>5, <1>6

\* What one more use changes: it counts itself, and no longer the last use of
\* the same session.
LEMMA AgainNext ==
  ASSUME NEW uses \in Seq(Uses), NEW u \in Uses, NEW n, n = Len(uses), NEW k \in 1 .. n
  PROVE  Again(Append(uses, u), k, n + 1) <=> Again(uses, k, n) \/ uses[k].session = u.session
<1> DEFINE v == Append(uses, u)
<1>1. n \in Nat /\ v[n + 1] = u /\ \A m \in 1 .. n : v[m] = uses[m]
  OBVIOUS
<1>2. k + 1 .. n + 1 = (k + 1 .. n) \cup {n + 1} /\ \A m \in k + 1 .. n : m \in 1 .. n
  BY <1>1
<1> HIDE DEF v
<1>3. Again(v, k, n + 1) <=> (\E m \in k + 1 .. n : v[m].session = v[k].session) \/ v[n + 1].session = v[k].session
  BY <1>2 DEF Again
<1> QED
  BY <1>1, <1>2, <1>3 DEF Again, v

LEMMA LastUseUnique ==
  ASSUME NEW uses, NEW n \in Nat, NEW a \in 1 .. n, NEW b \in 1 .. n,
         uses[a].session = uses[b].session, ~Again(uses, a, n), ~Again(uses, b, n)
  PROVE  a = b
<1>1. CASE a < b
  <2>1. b \in a + 1 .. n
    BY <1>1
  <2> QED
    BY <2>1 DEF Again
<1>2. CASE b < a
  <2>1. a \in b + 1 .. n
    BY <1>2
  <2> QED
    BY <2>1 DEF Again
<1> QED
  BY <1>1, <1>2

LEMMA LastUseExists ==
  ASSUME NEW uses, NEW n \in Nat, NEW i \in 1 .. n
  PROVE  \E k \in i .. n : uses[k].session = uses[i].session /\ ~Again(uses, k, n)
<1> DEFINE T == {k \in 1 .. n : uses[k].session = uses[i].session}
<1>1. PICK k \in T : \A m \in T : m <= k
  BY NatMax
<1>2. k \in i .. n
  BY <1>1
<1>3. ASSUME NEW m \in k + 1 .. n, uses[m].session = uses[k].session PROVE FALSE
  <2>1. m \in T /\ m > k
    BY <1>1, <1>3
  <2> QED
    BY <1>1, <2>1
<1> QED
  BY <1>1, <1>2, <1>3 DEF Again

\* last is the last use of the session of u, or 0 if there is none.
IsLastOf(uses, n, session, last) ==
    \/ last \in 1 .. n /\ uses[last].session = session /\ ~Again(uses, last, n)
    \/ last = 0 /\ \A k \in 1 .. n : uses[k].session # session

LEMMA FootprintNext ==
  ASSUME NEW uses \in Seq(Uses), NEW u \in Uses, NEW n, n = Len(uses),
         NEW last, IsLastOf(uses, n, u.session, last)
  PROVE  /\ Footprint(Append(uses, u), n + 1, n + 1) = u.size
         /\ \A i \in 1 .. n : Footprint(Append(uses, u), i, n + 1) =
               Footprint(uses, i, n) + u.size - (IF i <= last THEN uses[last].size ELSE 0)
<1> DEFINE all == Append(uses, u)
           v == LastSizes(all, n + 1)
           w == LastSizes(uses, n)
           old == IF last = 0 THEN 0 ELSE uses[last].size
<1>1. n \in Nat /\ all \in Seq(Uses) /\ Len(all) = n + 1 /\ last \in 0 .. n /\ all[n + 1] = u
      /\ \A k \in 1 .. n : all[k] = uses[k]
  BY DEF IsLastOf
<1>2. /\ w \in Seq(Nat) /\ Len(w) = n
      /\ \A k \in 1 .. n : w[k] = IF Again(uses, k, n) THEN 0 ELSE uses[k].size
  BY <1>1, LastSizesType
<1>3. /\ v \in Seq(Nat) /\ Len(v) = n + 1
      /\ \A k \in 1 .. n + 1 : v[k] = IF Again(all, k, n + 1) THEN 0 ELSE all[k].size
  <2>1. n + 1 \in 0 .. Len(all)
    BY <1>1
  <2> HIDE DEF all
  <2> QED
    BY <1>1, <2>1, LastSizesType
<1>4. v[n + 1] = u.size
  <2>1. ~Again(all, n + 1, n + 1)
    <3>1. \A m \in (n + 1) + 1 .. n + 1 : FALSE
      BY <1>1
    <3> QED
      BY <3>1 DEF Again
  <2>2. n + 1 \in 1 .. n + 1
    BY <1>1
  <2> HIDE DEF v, all
  <2> QED
    BY <1>1, <1>3, <2>1, <2>2
<1>5. ASSUME NEW k \in 1 .. n
      PROVE  v[k] = IF k = last THEN 0 ELSE w[k]
  <2>1. Again(all, k, n + 1) <=> Again(uses, k, n) \/ uses[k].session = u.session
    BY AgainNext
  <2>2. k \in 1 .. n + 1 /\ all[k] = uses[k]
    BY <1>1
  <2> HIDE DEF v, w, all
  <2>3. v[k] = IF Again(uses, k, n) \/ uses[k].session = u.session THEN 0 ELSE uses[k].size
    BY <1>3, <2>1, <2>2
  <2>4. w[k] = IF Again(uses, k, n) THEN 0 ELSE uses[k].size
    BY <1>2
  <2>5. CASE k = last
    <3>1. uses[k].session = u.session
      BY <1>1, <2>5 DEF IsLastOf
    <3> QED
      BY <2>3, <2>5, <3>1
  <2>6. CASE k # last
    <3>1. ~Again(uses, k, n) => uses[k].session # u.session
      <4>1. CASE last = 0
        BY <1>1, <4>1 DEF IsLastOf
      <4>2. CASE last # 0
        <5>1. last \in 1 .. n /\ uses[last].session = u.session /\ ~Again(uses, last, n)
          BY <4>2 DEF IsLastOf
        <5> QED
          BY <1>1, <2>6, <5>1, LastUseUnique
      <4> QED
        BY <4>1, <4>2
    <3> QED
      BY <2>3, <2>4, <2>6, <3>1
  <2> QED
    BY <2>5, <2>6
<1> DEFINE s == Sums(w)
           t == Sums(v)
<1>6. /\ s[0] = 0 /\ \A i \in 0 .. n : s[i] \in Nat
      /\ \A i \in 0 .. n - 1 : s[i + 1] = s[i] + w[i + 1]
  <2> HIDE DEF w
  <2> QED
    BY <1>2, SumsFacts
<1>7. t[n + 1] = t[n] + v[n + 1]
  <2> HIDE DEF v
  <2>1. \A i \in 0 .. (n + 1) - 1 : t[i + 1] = t[i] + v[i + 1]
    BY <1>3, SumsFacts
  <2>2. n \in 0 .. (n + 1) - 1
    BY <1>1
  <2> QED
    BY <2>1, <2>2
<1>8. old \in Nat /\ (last # 0 => w[last] = old)
  <2>1. CASE last = 0
    BY <2>1
  <2>2. CASE last # 0
    <3>1. last \in 1 .. n /\ ~Again(uses, last, n)
      BY <2>2 DEF IsLastOf
    <3>2. uses[last] \in Uses
      BY <3>1
    <3> QED
      BY <1>2, <2>2, <3>1, <3>2 DEF Uses
  <2> QED
    BY <2>1, <2>2
<1> HIDE DEF old
<1> DEFINE g == [i \in 0 .. n |-> IF last = 0 \/ i < last THEN s[i] ELSE s[i] - old]
<1>9. \A i \in 0 .. n : t[i] = g[i]
  <2>1. g[0] = 0
    BY <1>1, <1>6
  <2>2. ASSUME NEW i \in 0 .. n - 1 PROVE g[i + 1] = g[i] + v[i + 1]
    <3>1. i + 1 \in 1 .. n /\ i \in 0 .. n /\ i + 1 \in 0 .. n
      BY <1>1
    <3>2. s[i + 1] = s[i] + w[i + 1] /\ v[i + 1] = (IF i + 1 = last THEN 0 ELSE w[i + 1]) /\ s[i] \in Nat
          /\ w[i + 1] \in Nat
      BY <1>2, <1>5, <1>6, <3>1
    <3>3. g[i] = (IF last = 0 \/ i < last THEN s[i] ELSE s[i] - old)
          /\ g[i + 1] = (IF last = 0 \/ i + 1 < last THEN s[i + 1] ELSE s[i + 1] - old)
      BY <3>1
    <3> HIDE DEF g, s, v, w
    <3>4. CASE i + 1 = last
      <4>1. w[i + 1] = old /\ last # 0 /\ i < last /\ ~(i + 1 < last)
        BY <1>8, <3>1, <3>4
      <4> QED
        BY <1>8, <3>2, <3>3, <3>4, <4>1
    <3>5. CASE i + 1 # last
      <4>1. last # 0 => (i + 1 < last <=> i < last)
        BY <1>1, <3>1, <3>5
      <4> QED
        BY <1>8, <3>2, <3>3, <3>5, <4>1
    <3> QED
      BY <3>4, <3>5
  <2>3. n \in 0 .. Len(v)
    BY <1>1, <1>3
  <2> HIDE DEF g, v
  <2> QED
    BY <1>3, <2>1, <2>2, <2>3, SumsAre
<1>10. \A i : Footprint(all, i, n + 1) = t[n + 1] - t[i - 1] /\ Footprint(uses, i, n) = s[n] - s[i - 1]
  BY DEF Footprint
<1>11. \A i \in 0 .. n : t[i] = IF last = 0 \/ i < last THEN s[i] ELSE s[i] - old
  BY <1>9
<1>12. u.size \in Nat
  BY DEF Uses
<1> HIDE DEF g, s, t, v, w, all
<1>13. t[n] = s[n] - old
  <2>1. n \in 0 .. n /\ (last # 0 => ~(n < last))
    BY <1>1
  <2>2. last = 0 => old = 0
    BY DEF old
  <2> QED
    BY <1>6, <1>8, <1>11, <2>1, <2>2
<1>14. Footprint(all, n + 1, n + 1) = u.size
  <2>1. (n + 1) - 1 = n /\ n \in 0 .. n /\ s[n] \in Nat
    BY <1>1, <1>6
  <2>2. Footprint(all, n + 1, n + 1) = t[n + 1] - t[n]
    BY <1>10, <2>1, Zenon
  <2> QED
    BY <1>4, <1>7, <1>8, <1>12, <1>13, <2>1, <2>2
<1>15. ASSUME NEW i \in 1 .. n
       PROVE  Footprint(all, i, n + 1) = Footprint(uses, i, n) + u.size - (IF i <= last THEN uses[last].size ELSE 0)
  <2>1. i - 1 \in 0 .. n /\ n \in 0 .. n
    BY <1>1
  <2>2. s[i - 1] \in Nat /\ s[n] \in Nat
    BY <1>6, <2>1
  <2>3. t[i - 1] = s[i - 1] - (IF last = 0 \/ i - 1 < last THEN 0 ELSE old)
    BY <1>8, <1>11, <2>1, <2>2
  <2>4. Footprint(all, i, n + 1) = (s[n] - old + u.size) - (s[i - 1] - (IF last = 0 \/ i - 1 < last THEN 0 ELSE old))
    BY <1>4, <1>7, <1>10, <1>13, <2>3
  <2>5. Footprint(uses, i, n) = s[n] - s[i - 1]
    BY <1>10
  <2>6. CASE last = 0
    <3>1. old = 0 /\ ~(i <= last)
      BY <2>6 DEF old
    <3> QED
      BY <1>12, <2>2, <2>4, <2>5, <2>6, <3>1
  <2>7. CASE last # 0
    <3>1. old = uses[last].size /\ (i <= last <=> i - 1 < last)
      BY <1>1, <2>7 DEF old
    <3>2. CASE i <= last
      <4>1. Footprint(all, i, n + 1) = (s[n] - old + u.size) - s[i - 1]
        BY <2>2, <2>4, <2>7, <3>1, <3>2
      <4> QED
        BY <1>8, <1>12, <2>2, <2>5, <3>1, <3>2, <4>1
    <3>3. CASE ~(i <= last)
      <4>1. Footprint(all, i, n + 1) = (s[n] - old + u.size) - (s[i - 1] - old)
        BY <2>4, <2>7, <3>1, <3>3
      <4> QED
        BY <1>8, <1>12, <2>2, <2>5, <3>3, <4>1
    <3> QED
      BY <3>2, <3>3
  <2> QED
    BY <2>6, <2>7
<1> QED
  BY <1>14, <1>15 DEF all

----------------------------------------------------------------------------
(* What is left in the cache, from one place on. *)

Rest(entries, q) == Sums(Sizes(entries))[Len(entries)] - Sums(Sizes(entries))[q - 1]

LEMMA SizesType ==
  ASSUME NEW entries \in Seq(Uses)
  PROVE  /\ Sizes(entries) \in Seq(Nat) /\ Len(Sizes(entries)) = Len(entries)
         /\ \A i \in 1 .. Len(entries) : Sizes(entries)[i] = entries[i].size
         /\ \A i \in 1 .. Len(entries) : entries[i].size \in Nat
<1>1. \A i \in 1 .. Len(entries) : entries[i].size \in Nat
  <2>1. \A i \in 1 .. Len(entries) : entries[i] \in Uses
    OBVIOUS
  <2> QED
    BY <2>1 DEF Uses
<1>2. DOMAIN entries = 1 .. Len(entries) /\ Len(entries) \in Nat
  OBVIOUS
<1> QED
  BY <1>1, <1>2 DEF Sizes

LEMMA TailsFall ==
  ASSUME NEW entries \in Seq(Uses), NEW a \in 1 .. Len(entries) + 1, NEW b \in a .. Len(entries) + 1
  PROVE  Rest(entries, b) <= Rest(entries, a) /\ Rest(entries, a) \in Nat /\ Rest(entries, b) \in Nat
<1> DEFINE w == Sizes(entries)
           s == Sums(w)
           n == Len(entries)
<1>1. w \in Seq(Nat) /\ Len(w) = n /\ n \in Nat
  BY SizesType
<1>2. \A i \in 0 .. n : s[i] \in Nat
  BY <1>1, SumsFacts
<1>3. \A i \in 0 .. n : \A j \in i .. n : s[i] <= s[j]
  BY <1>1, SumsGrow
<1>4. a - 1 \in 0 .. n /\ b - 1 \in 0 .. n /\ b - 1 \in a - 1 .. n /\ n \in 0 .. n /\ n \in a - 1 .. n /\ n \in b - 1 .. n
  BY <1>1
<1> HIDE DEF s, n
<1>5. s[a - 1] <= s[b - 1] /\ s[b - 1] <= s[n] /\ s[a - 1] \in Nat /\ s[b - 1] \in Nat /\ s[n] \in Nat
  BY <1>2, <1>3, <1>4
<1>6. \A q : Rest(entries, q) = s[n] - s[q - 1]
  BY DEF Rest, s, n
<1> QED
  BY <1>5, <1>6

LEMMA TailAppend ==
  ASSUME NEW entries \in Seq(Uses), NEW u \in Uses, NEW q \in 1 .. Len(entries) + 1
  PROVE  Rest(Append(entries, u), q) = Rest(entries, q) + u.size
<1> DEFINE e == Append(entries, u)
           w == Sizes(entries)
           v == Sizes(e)
           s == Sums(w)
           t == Sums(v)
           n == Len(entries)
<1>1. e \in Seq(Uses) /\ Len(e) = n + 1 /\ n \in Nat /\ e[n + 1] = u /\ \A i \in 1 .. n : e[i] = entries[i]
  OBVIOUS
<1> HIDE DEF e
<1>2. /\ w \in Seq(Nat) /\ Len(w) = n
      /\ v \in Seq(Nat) /\ Len(v) = n + 1
      /\ v[n + 1] = u.size /\ \A i \in 1 .. n : v[i] = w[i]
  <2>1. /\ w \in Seq(Nat) /\ Len(w) = n /\ \A i \in 1 .. n : w[i] = entries[i].size
    BY SizesType
  <2>2. /\ v \in Seq(Nat) /\ Len(v) = n + 1 /\ \A i \in 1 .. n + 1 : v[i] = e[i].size
    BY <1>1, SizesType
  <2> HIDE DEF v, w
  <2> QED
    BY <1>1, <2>1, <2>2
<1> HIDE DEF v, w
<1>3. /\ s[0] = 0 /\ \A i \in 0 .. n - 1 : s[i + 1] = s[i] + w[i + 1]
      /\ \A i \in 0 .. n : s[i] \in Nat
  BY <1>2, SumsFacts
<1>4. t[n + 1] = t[n] + v[n + 1]
  <2>1. \A i \in 0 .. (n + 1) - 1 : t[i + 1] = t[i] + v[i + 1]
    BY <1>2, SumsFacts
  <2>2. n \in 0 .. (n + 1) - 1
    BY <1>1
  <2> QED
    BY <2>1, <2>2
<1>5. \A i \in 0 .. n : t[i] = s[i]
  <2>1. \A i \in 0 .. n - 1 : i + 1 \in 1 .. n
    BY <1>1
  <2>2. \A i \in 0 .. n - 1 : s[i + 1] = s[i] + v[i + 1]
    BY <1>2, <1>3, <2>1
  <2>3. n \in 0 .. Len(v)
    BY <1>1, <1>2
  <2> HIDE DEF s, n
  <2> QED
    BY <1>2, <1>3, <2>2, <2>3, SumsAre
<1>6. q - 1 \in 0 .. n /\ n \in 0 .. n
  OBVIOUS
<1>7. Rest(e, q) = t[n + 1] - t[q - 1] /\ Rest(entries, q) = s[n] - s[q - 1]
  BY <1>1 DEF Rest, v, w
<1>8. u.size \in Nat
  BY DEF Uses
<1> HIDE DEF s, t, n
<1>9. t[q - 1] = s[q - 1] /\ t[n] = s[n] /\ s[q - 1] \in Nat /\ s[n] \in Nat
  BY <1>3, <1>5, <1>6
<1> QED
  BY <1>2, <1>4, <1>7, <1>8, <1>9 DEF e

LEMMA ConcatIs ==
  ASSUME NEW S, NEW a \in Seq(S), NEW b \in Seq(S)
  PROVE  /\ a \o b \in Seq(S) /\ Len(a \o b) = Len(a) + Len(b)
         /\ \A i \in 1 .. Len(a) : (a \o b)[i] = a[i]
         /\ \A i \in 1 .. Len(b) : (a \o b)[Len(a) + i] = b[i]
  OBVIOUS

LEMMA RemoveAtIs ==
  ASSUME NEW S, NEW s \in Seq(S), NEW p \in 1 .. Len(s)
  PROVE  /\ RemoveAt(s, p) \in Seq(S) /\ Len(RemoveAt(s, p)) = Len(s) - 1
         /\ \A i \in 1 .. Len(s) - 1 : RemoveAt(s, p)[i] = IF i < p THEN s[i] ELSE s[i + 1]
<1> DEFINE a == SubSeq(s, 1, p - 1)
           b == SubSeq(s, p + 1, Len(s))
           n == Len(s)
<1>1. RemoveAt(s, p) = a \o b
  BY DEF RemoveAt
<1>2. a \in Seq(S) /\ Len(a) = p - 1 /\ \A i \in 1 .. p - 1 : a[i] = s[i]
  OBVIOUS
<1>3. b \in Seq(S) /\ Len(b) = n - p /\ \A i \in 1 .. n - p : b[i] = s[i + p]
  OBVIOUS
<1> HIDE DEF a, b
<1>4. /\ a \o b \in Seq(S) /\ Len(a \o b) = Len(a) + Len(b)
      /\ \A i \in 1 .. Len(a) : (a \o b)[i] = a[i]
      /\ \A i \in 1 .. Len(b) : (a \o b)[Len(a) + i] = b[i]
  <2>1. a \in Seq(S) /\ b \in Seq(S)
    BY <1>2, <1>3
  <2> QED
    BY <2>1, ConcatIs
<1>5. Len(a \o b) = n - 1
  BY <1>2, <1>3, <1>4
<1>6. ASSUME NEW i \in 1 .. n - 1 PROVE (a \o b)[i] = IF i < p THEN s[i] ELSE s[i + 1]
  <2>1. CASE i < p
    <3>1. i \in 1 .. p - 1
      BY <2>1
    <3> QED
      BY <1>2, <1>4, <2>1, <3>1
  <2>2. CASE ~(i < p)
    <3> DEFINE k == i - (p - 1)
    <3>1. k \in 1 .. n - p /\ (p - 1) + k = i /\ k + p = i + 1
      BY <2>2
    <3> HIDE DEF k
    <3>2. (a \o b)[(p - 1) + k] = b[k] /\ b[k] = s[k + p]
      BY <1>2, <1>3, <1>4, <3>1
    <3> QED
      BY <2>2, <3>1, <3>2
  <2> QED
    BY <2>1, <2>2
<1> QED
  BY <1>1, <1>4, <1>5, <1>6

LEMMA TailRemove ==
  ASSUME NEW entries \in Seq(Uses), NEW p \in 1 .. Len(entries), NEW q \in 1 .. Len(entries)
  PROVE  Rest(RemoveAt(entries, p), q) =
            IF q < p THEN Rest(entries, q) - entries[p].size ELSE Rest(entries, q + 1)
<1> DEFINE e == RemoveAt(entries, p)
           w == Sizes(entries)
           v == Sizes(e)
           s == Sums(w)
           t == Sums(v)
           n == Len(entries)
           x == w[p]
<1>1. /\ e \in Seq(Uses) /\ Len(e) = n - 1 /\ n \in Nat /\ n # 0
      /\ \A i \in 1 .. n - 1 : e[i] = IF i < p THEN entries[i] ELSE entries[i + 1]
  <2>1. /\ e \in Seq(Uses) /\ Len(e) = n - 1
        /\ \A i \in 1 .. n - 1 : e[i] = IF i < p THEN entries[i] ELSE entries[i + 1]
    BY RemoveAtIs, Zenon
  <2>2. n \in Nat /\ n # 0
    OBVIOUS
  <2> QED
    BY <2>1, <2>2
<1> HIDE DEF e
<1>2. /\ w \in Seq(Nat) /\ Len(w) = n /\ x \in Nat /\ x = entries[p].size
      /\ \A i \in 1 .. n : w[i] \in Nat
      /\ v \in Seq(Nat) /\ Len(v) = n - 1
      /\ \A i \in 1 .. n - 1 : v[i] = IF i < p THEN w[i] ELSE w[i + 1]
  <2>1. /\ w \in Seq(Nat) /\ Len(w) = n /\ \A i \in 1 .. n : w[i] = entries[i].size
    BY SizesType
  <2>2. /\ v \in Seq(Nat) /\ Len(v) = n - 1 /\ \A i \in 1 .. n - 1 : v[i] = e[i].size
    BY <1>1, SizesType
  <2>3. \A i \in 1 .. n - 1 : i \in 1 .. n /\ i + 1 \in 1 .. n
    BY <1>1
  <2>4. \A i \in 1 .. n : w[i] \in Nat
    BY <2>1
  <2> HIDE DEF v, w
  <2> QED
    BY <1>1, <2>1, <2>2, <2>3, <2>4
<1> HIDE DEF v, w
<1>3. /\ s[0] = 0 /\ \A i \in 0 .. n - 1 : s[i + 1] = s[i] + w[i + 1]
      /\ \A i \in 0 .. n : s[i] \in Nat
  BY <1>2, SumsFacts
<1> DEFINE g == [i \in 0 .. n - 1 |-> IF i < p THEN s[i] ELSE s[i + 1] - x]
<1>4. \A i \in 0 .. n - 1 : t[i] = g[i]
  <2>1. g[0] = 0
    BY <1>1, <1>3
  <2>2. ASSUME NEW i \in 0 .. (n - 1) - 1 PROVE g[i + 1] = g[i] + v[i + 1]
    <3>1. i + 1 \in 1 .. n - 1 /\ i + 1 \in 0 .. n - 1 /\ i \in 0 .. n - 1 /\ i \in 0 .. n /\ i + 1 \in 0 .. n
          /\ (i + 1) + 1 \in 0 .. n
      BY <1>1
    <3>2. s[i + 1] = s[i] + w[i + 1] /\ s[(i + 1) + 1] = s[i + 1] + w[(i + 1) + 1]
          /\ v[i + 1] = IF i + 1 < p THEN w[i + 1] ELSE w[(i + 1) + 1]
      BY <1>2, <1>3, <3>1, Zenon
    <3>3. g[i + 1] = (IF i + 1 < p THEN s[i + 1] ELSE s[(i + 1) + 1] - x)
          /\ g[i] = (IF i < p THEN s[i] ELSE s[i + 1] - x)
      BY <3>1
    <3>4. s[i] \in Nat /\ s[i + 1] \in Nat /\ s[(i + 1) + 1] \in Nat /\ w[i + 1] \in Nat /\ w[(i + 1) + 1] \in Nat
      <4>1. i + 1 \in 1 .. Len(w) /\ (i + 1) + 1 \in 1 .. Len(w)
        <5>1. Len(w) = n /\ n \in Nat
          BY <1>1, <1>2
        <5> HIDE DEF n
        <5> QED
          BY <5>1
      <4>2. w[i + 1] \in Nat /\ w[(i + 1) + 1] \in Nat
        BY <1>2, <4>1, Zenon
      <4> HIDE DEF s
      <4> QED
        BY <1>3, <3>1, <4>2, Zenon
    <3> DEFINE s0 == s[i]
               s1 == s[i + 1]
               s2 == s[(i + 1) + 1]
               w1 == w[i + 1]
               w2 == w[(i + 1) + 1]
               g0 == g[i]
               g1 == g[i + 1]
               v1 == v[i + 1]
    <3>5. i + 1 = p => w1 = x
      OBVIOUS
    <3>6. /\ s1 = s0 + w1 /\ s2 = s1 + w2 /\ v1 = (IF i + 1 < p THEN w1 ELSE w2)
          /\ g1 = (IF i + 1 < p THEN s1 ELSE s2 - x) /\ g0 = (IF i < p THEN s0 ELSE s1 - x)
          /\ s0 \in Nat /\ s1 \in Nat /\ s2 \in Nat /\ w1 \in Nat /\ w2 \in Nat /\ x \in Nat
      <4> HIDE DEF g, s, x
      <4> QED
        BY <1>2, <3>2, <3>3, <3>4, Zenon
    <3> HIDE DEF s0, s1, s2, w1, w2, g0, g1, v1, g, s, x
    <3>7. g1 = g0 + v1
      BY <3>5, <3>6
    <3> QED
      BY <3>7 DEF g0, g1, v1
  <2>3. n - 1 \in 0 .. Len(v)
    BY <1>1, <1>2
  <2> HIDE DEF g, s, n
  <2> QED
    BY <1>2, <2>1, <2>2, <2>3, SumsAre
<1>5. \A i \in 0 .. n - 1 : t[i] = IF i < p THEN s[i] ELSE s[i + 1] - x
  BY <1>4
<1> HIDE DEF g
<1>6. t[n - 1] = s[n] - x
  <2>1. n - 1 \in 0 .. n - 1 /\ (n - 1) + 1 = n
    BY <1>1
  <2>2. s[n] = s[n - 1] + w[n] /\ s[n - 1] \in Nat /\ w[n] \in Nat
    <3>1. n \in 1 .. Len(w) /\ n - 1 \in 0 .. n
      BY <1>1, <1>2
    <3>2. w[n] \in Nat
      BY <1>2, <3>1
    <3> HIDE DEF s
    <3>3. s[(n - 1) + 1] = s[n - 1] + w[(n - 1) + 1]
      BY <1>3, <2>1, Zenon
    <3> QED
      BY <1>3, <2>1, <3>1, <3>2, <3>3
  <2> HIDE DEF s
  <2>3. CASE p = n
    <3>1. t[n - 1] = s[n - 1] /\ x = w[n]
      BY <1>5, <2>1, <2>3
    <3> HIDE DEF x
    <3> QED
      BY <2>2, <3>1
  <2>4. CASE p # n
    <3>1. t[n - 1] = s[(n - 1) + 1] - x
      <4>1. ~(n - 1 < p)
        BY <1>1, <2>4
      <4> HIDE DEF s, t, n, x
      <4> QED
        BY <1>5, <2>1, <4>1, Zenon
    <3> QED
      BY <2>1, <3>1
  <2> QED
    BY <2>3, <2>4
<1>7. Rest(e, q) = t[n - 1] - t[q - 1] /\ \A r : Rest(entries, r) = s[n] - s[r - 1]
  BY <1>1 DEF Rest, v, w
<1>8. q - 1 \in 0 .. n - 1 /\ q - 1 \in 0 .. n /\ n \in 0 .. n /\ q \in 0 .. n /\ (q - 1) + 1 = q /\ (q + 1) - 1 = q
  OBVIOUS
<1>9. s[n] \in Nat /\ s[q - 1] \in Nat /\ s[q] \in Nat
  BY <1>3, <1>8
<1>10. t[q - 1] = IF q - 1 < p THEN s[q - 1] ELSE s[q] - x
  <2>1. t[q - 1] = IF q - 1 < p THEN s[q - 1] ELSE s[(q - 1) + 1] - x
    BY <1>5, <1>8
  <2> QED
    BY <1>8, <2>1
<1>11. Rest(entries, q) = s[n] - s[q - 1] /\ Rest(entries, q + 1) = s[n] - s[q]
  BY <1>7, <1>8
<1>12. q = p => s[q] = s[q - 1] + x
  <2>1. s[(q - 1) + 1] = s[q - 1] + w[(q - 1) + 1]
    BY <1>3, <1>8
  <2> QED
    BY <1>8, <2>1
<1> DEFINE sn == s[n]
           sp == s[q - 1]
           sq == s[q]
<1>13. /\ Rest(e, q) = (sn - x) - (IF q - 1 < p THEN sp ELSE sq - x)
       /\ Rest(entries, q) = sn - sp /\ Rest(entries, q + 1) = sn - sq
       /\ (q = p => sq = sp + x)
       /\ sn \in Nat /\ sp \in Nat /\ sq \in Nat
  <2> HIDE DEF s, t, n, x
  <2> QED
    BY <1>6, <1>7, <1>9, <1>10, <1>11, <1>12, Zenon
<1> HIDE DEF sn, sp, sq, s, t, n, x
<1>14. Rest(e, q) = IF q < p THEN Rest(entries, q) - x ELSE Rest(entries, q + 1)
  <2>1. CASE q < p
    BY <1>2, <1>13, <2>1
  <2>2. CASE q = p
    <3>1. q - 1 < p /\ ~(q < p)
      BY <2>2
    <3>2. Rest(e, q) = (sn - x) - sp
      BY <1>13, <3>1
    <3>3. Rest(entries, q + 1) = sn - (sp + x)
      BY <1>13, <2>2, Zenon
    <3>4. (sn - x) - sp = sn - (sp + x)
      BY <1>2, <1>13
    <3> QED
      BY <3>1, <3>2, <3>3, <3>4, Zenon
  <2>3. CASE q > p
    <3>1. ~(q - 1 < p) /\ ~(q < p)
      BY <2>3
    <3> QED
      BY <1>2, <1>13, <3>1
  <2> QED
    BY <2>1, <2>2, <2>3
<1> QED
  BY <1>2, <1>14 DEF e

LEMMA TailDrop ==
  ASSUME NEW entries \in Seq(Uses), NEW m \in 0 .. Len(entries),
         NEW q \in 1 .. (Len(entries) - m) + 1
  PROVE  Rest(SubSeq(entries, m + 1, Len(entries)), q) = Rest(entries, q + m)
<1> DEFINE e == SubSeq(entries, m + 1, Len(entries))
           w == Sizes(entries)
           v == Sizes(e)
           s == Sums(w)
           t == Sums(v)
           n == Len(entries)
<1>1. /\ e \in Seq(Uses) /\ Len(e) = n - m /\ n \in Nat
      /\ \A i \in 1 .. n - m : e[i] = entries[i + m]
  OBVIOUS
<1> HIDE DEF e
<1>2. /\ w \in Seq(Nat) /\ Len(w) = n
      /\ v \in Seq(Nat) /\ Len(v) = n - m
      /\ \A i \in 1 .. n - m : v[i] = w[i + m]
  <2>1. /\ w \in Seq(Nat) /\ Len(w) = n /\ \A i \in 1 .. n : w[i] = entries[i].size
    BY SizesType
  <2>2. /\ v \in Seq(Nat) /\ Len(v) = n - m /\ \A i \in 1 .. n - m : v[i] = e[i].size
    BY <1>1, SizesType
  <2>3. \A i \in 1 .. n - m : i + m \in 1 .. n
    BY <1>1
  <2> HIDE DEF v, w
  <2> QED
    BY <1>1, <2>1, <2>2, <2>3
<1> HIDE DEF v, w
<1>3. /\ s[0] = 0 /\ \A i \in 0 .. n - 1 : s[i + 1] = s[i] + w[i + 1]
      /\ \A i \in 0 .. n : s[i] \in Nat
  BY <1>2, SumsFacts
<1> DEFINE g == [i \in 0 .. n - m |-> s[i + m] - s[m]]
<1>4. \A i \in 0 .. n - m : t[i] = g[i]
  <2>1. g[0] = 0
    <3>1. 0 \in 0 .. n - m /\ 0 + m = m /\ m \in 0 .. n
      BY <1>1
    <3>2. s[m] \in Nat
      BY <1>3, <3>1
    <3>3. g[0] = s[m] - s[m]
      BY <3>1
    <3> QED
      BY <3>2, <3>3
  <2>2. ASSUME NEW i \in 0 .. (n - m) - 1 PROVE g[i + 1] = g[i] + v[i + 1]
    <3>1. i + 1 \in 1 .. n - m /\ i + 1 \in 0 .. n - m /\ i \in 0 .. n - m /\ i + m \in 0 .. n - 1
          /\ i + m \in 0 .. n /\ m \in 0 .. n /\ (i + 1) + m = (i + m) + 1 /\ (i + m) + 1 \in 1 .. Len(w)
      BY <1>1, <1>2
    <3>2. g[i + 1] = s[(i + m) + 1] - s[m] /\ g[i] = s[i + m] - s[m]
      BY <3>1
    <3>3. s[(i + m) + 1] = s[i + m] + w[(i + m) + 1] /\ s[i + m] \in Nat /\ s[m] \in Nat
      BY <1>3, <3>1
    <3>4. w[(i + m) + 1] \in Nat
      BY <1>2, <3>1
    <3>5. v[i + 1] = w[(i + m) + 1]
      BY <1>2, <3>1
    <3> HIDE DEF g, s
    <3> QED
      BY <3>2, <3>3, <3>4, <3>5
  <2>3. n - m \in 0 .. Len(v)
    BY <1>1, <1>2
  <2> HIDE DEF g, s, n
  <2> QED
    BY <1>2, <2>1, <2>2, <2>3, SumsAre
<1>5. Rest(e, q) = t[n - m] - t[q - 1] /\ Rest(entries, q + m) = s[n] - s[(q + m) - 1]
  BY <1>1 DEF Rest, v, w
<1>6. q - 1 \in 0 .. n - m /\ n - m \in 0 .. n - m /\ (q - 1) + m = (q + m) - 1 /\ (n - m) + m = n
      /\ m \in 0 .. n /\ n \in 0 .. n /\ (q + m) - 1 \in 0 .. n
  BY <1>1
<1>7. t[q - 1] = s[(q + m) - 1] - s[m] /\ t[n - m] = s[n] - s[m]
  BY <1>4, <1>6
<1>8. s[(q + m) - 1] \in Nat /\ s[n] \in Nat /\ s[m] \in Nat
  BY <1>3, <1>6
<1> HIDE DEF s, t, n, g
<1> QED
  BY <1>5, <1>7, <1>8 DEF e, n

----------------------------------------------------------------------------
(* A cache that holds last uses, each in its order and with all later ones. *)

Mirrors(entries, pos, uses, n) ==
    /\ entries \in Seq(Uses) /\ pos \in [1 .. Len(entries) -> 1 .. n]
    /\ \A q \in 1 .. Len(entries) : entries[q] = uses[pos[q]] /\ ~Again(uses, pos[q], n)
    /\ \A q, r \in 1 .. Len(entries) : q < r => pos[q] < pos[r]
    /\ \A q \in 1 .. Len(entries) : Rest(entries, q) = Footprint(uses, pos[q], n)

\* It holds those which stayed up to j, and no others.
Complete(pos, len, uses, n, j) ==
    \A l \in 1 .. n : (~Again(uses, l, n) /\ Stays(uses, l, j)) <=> \E q \in 1 .. len : pos[q] = l

\* The cache without the session that is used now.
Others(entries, pos, uses, u, n) ==
    /\ entries \in Seq(Uses) /\ pos \in [1 .. Len(entries) -> 1 .. n]
    /\ \A q \in 1 .. Len(entries) : /\ entries[q] = uses[pos[q]] /\ ~Again(uses, pos[q], n)
                                    /\ uses[pos[q]].session # u.session
    /\ \A q, r \in 1 .. Len(entries) : q < r => pos[q] < pos[r]
    /\ \A q \in 1 .. Len(entries) :
          Rest(entries, q) + u.size = Footprint(Append(uses, u), pos[q], n + 1)
    /\ \A l \in 1 .. n :
          (~Again(uses, l, n) /\ uses[l].session # u.session /\ Stays(uses, l, n))
             <=> \E q \in 1 .. Len(entries) : pos[q] = l

LEMMA StaysLocal ==
  ASSUME NEW uses \in Seq(Uses), NEW u \in Uses, NEW l \in 1 .. Len(uses) + 1, NEW j \in 0 .. Len(uses)
  PROVE  Stays(Append(uses, u), l, j) <=> Stays(uses, l, j)
<1>1. ASSUME NEW k \in l .. j PROVE Footprint(Append(uses, u), l, k) = Footprint(uses, l, k)
  <2>1. k \in 0 .. Len(uses)
    OBVIOUS
  <2> QED
    BY <2>1, FootprintLocal
<1> QED
  BY <1>1 DEF Stays

LEMMA UseSuffices ==
  ASSUME NEW uses \in Seq(Uses), NEW u \in Uses, NEW n, n = Len(uses),
         NEW entries, NEW pos, Others(entries, pos, uses, u, n)
  PROVE  \E pos1 : /\ Mirrors(Append(entries, u), pos1, Append(uses, u), n + 1)
                   /\ Complete(pos1, Len(entries) + 1, Append(uses, u), n + 1, n)
<1> DEFINE len == Len(entries)
           e == Append(entries, u)
           all == Append(uses, u)
           pos1 == [q \in 1 .. len + 1 |-> IF q <= len THEN pos[q] ELSE n + 1]
<1>1. /\ entries \in Seq(Uses) /\ len \in Nat /\ n \in Nat
      /\ \A q \in 1 .. len : pos[q] \in 1 .. n
  <2>1. entries \in Seq(Uses) /\ pos \in [1 .. len -> 1 .. n]
    BY DEF Others
  <2> QED
    BY <2>1
<1>2. /\ e \in Seq(Uses) /\ Len(e) = len + 1 /\ e[len + 1] = u
      /\ \A q \in 1 .. len : e[q] = entries[q]
  BY <1>1
<1>3. all[n + 1] = u /\ \A l \in 1 .. n : all[l] = uses[l]
  BY <1>1
<1>4. pos1[len + 1] = n + 1 /\ \A q \in 1 .. len : pos1[q] = pos[q]
  BY <1>1
<1>5. pos1 \in [1 .. len + 1 -> 1 .. n + 1]
  BY <1>1
<1>6. \A l \in 1 .. n : Again(all, l, n + 1) <=> Again(uses, l, n) \/ uses[l].session = u.session
  BY AgainNext
<1>7. ~Again(all, n + 1, n + 1)
  <2>1. \A m \in (n + 1) + 1 .. n + 1 : FALSE
    BY <1>1
  <2> QED
    BY <2>1 DEF Again
<1>8. Stays(all, n + 1, n)
  <2>1. \A k \in n + 1 .. n : FALSE
    BY <1>1
  <2> QED
    BY <2>1 DEF Stays
<1>9. \A l \in 1 .. n : Stays(all, l, n) <=> Stays(uses, l, n)
  <2>1. \A l \in 1 .. n : l \in 1 .. Len(uses) + 1
    OBVIOUS
  <2>2. n \in 0 .. Len(uses)
    OBVIOUS
  <2> QED
    BY <2>1, <2>2, StaysLocal
<1>10. Footprint(all, n + 1, n + 1) = u.size
  <2>1. \E last : IsLastOf(uses, n, u.session, last)
    <3>1. CASE \E k \in 1 .. n : uses[k].session = u.session
      <4>1. PICK k \in 1 .. n : uses[k].session = u.session
        BY <3>1
      <4>2. PICK m \in k .. n : uses[m].session = u.session /\ ~Again(uses, m, n)
        BY <1>1, <4>1, LastUseExists
      <4>3. m \in 1 .. n
        BY <1>1
      <4> QED
        BY <4>2, <4>3 DEF IsLastOf
    <3>2. CASE ~\E k \in 1 .. n : uses[k].session = u.session
      BY <3>2 DEF IsLastOf
    <3> QED
      BY <3>1, <3>2
  <2> QED
    BY <2>1, FootprintNext
<1>11. \A q \in 1 .. len + 1 : q \in 1 .. len \/ q = len + 1
  BY <1>1
<1>12. \A q \in 1 .. len + 1 : Rest(e, q) = Rest(entries, q) + u.size
  BY <1>1, TailAppend
<1>13. Rest(entries, len + 1) = 0
  <2>1. Sums(Sizes(entries))[len] \in Nat
    <3>1. Sizes(entries) \in Seq(Nat) /\ Len(Sizes(entries)) = len /\ len \in 0 .. len
      BY <1>1, SizesType
    <3> QED
      BY <3>1, SumsFacts
  <2>2. (len + 1) - 1 = len
    BY <1>1
  <2>3. Rest(entries, len + 1) = Sums(Sizes(entries))[len] - Sums(Sizes(entries))[len]
    BY <2>2 DEF Rest
  <2> QED
    BY <2>1, <2>3
<1>14. u.size \in Nat
  BY DEF Uses
<1> HIDE DEF e, all, pos1, len
<1>15. ASSUME NEW q \in 1 .. len + 1
       PROVE  /\ e[q] = all[pos1[q]] /\ ~Again(all, pos1[q], n + 1)
              /\ Rest(e, q) = Footprint(all, pos1[q], n + 1)
  <2>1. CASE q \in 1 .. len
    <3>1. /\ entries[q] = uses[pos[q]] /\ ~Again(uses, pos[q], n) /\ uses[pos[q]].session # u.session
          /\ Rest(entries, q) + u.size = Footprint(all, pos[q], n + 1)
      BY <2>1 DEF Others, len, all
    <3>2. e[q] = entries[q] /\ pos1[q] = pos[q] /\ pos[q] \in 1 .. n
      BY <1>1, <1>2, <1>4, <2>1
    <3>3. all[pos[q]] = uses[pos[q]] /\ ~Again(all, pos[q], n + 1)
      BY <1>3, <1>6, <3>1, <3>2
    <3>4. Rest(e, q) = Footprint(all, pos[q], n + 1)
      BY <1>12, <3>1
    <3> QED
      BY <3>1, <3>2, <3>3, <3>4
  <2>2. CASE q = len + 1
    <3>1. Rest(e, len + 1) = u.size
      BY <1>12, <1>13, <1>14, <2>2
    <3> QED
      BY <1>2, <1>3, <1>4, <1>7, <1>10, <2>2, <3>1
  <2> QED
    BY <1>11, <2>1, <2>2
<1>16. ASSUME NEW q \in 1 .. len + 1, NEW r \in 1 .. len + 1, q < r PROVE pos1[q] < pos1[r]
  <2>1. q \in 1 .. len /\ pos1[q] = pos[q] /\ pos[q] \in 1 .. n
    BY <1>1, <1>4, <1>16
  <2>2. CASE r \in 1 .. len
    <3>1. pos[q] < pos[r]
      BY <1>16, <2>1, <2>2 DEF Others, len
    <3> QED
      BY <1>4, <2>1, <2>2, <3>1
  <2>3. CASE r = len + 1
    BY <1>1, <1>4, <2>1, <2>3
  <2> QED
    BY <1>11, <2>2, <2>3
<1>17. Mirrors(e, pos1, all, n + 1)
  BY <1>2, <1>5, <1>15, <1>16 DEF Mirrors
<1>18. Complete(pos1, len + 1, all, n + 1, n)
  <2> SUFFICES ASSUME NEW l \in 1 .. n + 1
               PROVE  (~Again(all, l, n + 1) /\ Stays(all, l, n)) <=> \E q \in 1 .. len + 1 : pos1[q] = l
    BY DEF Complete
  <2>1. CASE l \in 1 .. n
    <3>1. (~Again(all, l, n + 1) /\ Stays(all, l, n)) <=> \E q \in 1 .. len : pos[q] = l
      BY <1>6, <1>9, <2>1 DEF Others, len
    <3>2. ~(pos1[len + 1] = l)
      BY <1>1, <1>4, <2>1
    <3>3. \A q \in 1 .. len : q \in 1 .. len + 1
      BY <1>1
    <3> QED
      BY <1>4, <1>11, <3>1, <3>2, <3>3
  <2>2. CASE l = n + 1
    <3>1. len + 1 \in 1 .. len + 1
      BY <1>1
    <3> QED
      BY <1>4, <1>7, <1>8, <2>2, <3>1
  <2> QED
    BY <1>1, <2>1, <2>2
<1> QED
  BY <1>17, <1>18 DEF len, e, all

\* A session that is there is taken out.
LEMMA OthersOfHit ==
  ASSUME NEW uses \in Seq(Uses), NEW u \in Uses, NEW n, n = Len(uses),
         NEW entries, NEW pos, Mirrors(entries, pos, uses, n), Complete(pos, Len(entries), uses, n, n),
         NEW p \in 1 .. Len(entries), entries[p].session = u.session
  PROVE  \E pos1 : Others(RemoveAt(entries, p), pos1, uses, u, n)
<1> DEFINE len == Len(entries)
           e == RemoveAt(entries, p)
           pos1 == [q \in 1 .. len - 1 |-> IF q < p THEN pos[q] ELSE pos[q + 1]]
           last == pos[p]
<1>1. /\ entries \in Seq(Uses) /\ len \in Nat /\ n \in Nat /\ len # 0 /\ p \in 1 .. len
      /\ \A q \in 1 .. len : pos[q] \in 1 .. n /\ entries[q] = uses[pos[q]] /\ ~Again(uses, pos[q], n)
      /\ \A q, r \in 1 .. len : q < r => pos[q] < pos[r]
      /\ \A q \in 1 .. len : Rest(entries, q) = Footprint(uses, pos[q], n)
  <2>1. entries \in Seq(Uses) /\ pos \in [1 .. len -> 1 .. n]
    BY DEF Mirrors
  <2>2. len \in Nat /\ n \in Nat /\ len # 0 /\ \A q \in 1 .. len : pos[q] \in 1 .. n
    BY <2>1
  <2> QED
    BY <2>1, <2>2 DEF Mirrors
<1>2. /\ e \in Seq(Uses) /\ Len(e) = len - 1
      /\ \A q \in 1 .. len - 1 : e[q] = IF q < p THEN entries[q] ELSE entries[q + 1]
  <2>1. entries \in Seq(Uses)
    BY <1>1
  <2> HIDE DEF e
  <2>2. e \in Seq(Uses) /\ Len(e) = len - 1
    BY <2>1, RemoveAtIs DEF e
  <2>3. \A q \in 1 .. len - 1 : e[q] = IF q < p THEN entries[q] ELSE entries[q + 1]
    BY <2>1, RemoveAtIs DEF e
  <2> QED
    BY <2>2, <2>3
<1>3. \A q \in 1 .. len - 1 : pos1[q] = IF q < p THEN pos[q] ELSE pos[q + 1]
  OBVIOUS
<1>4. last \in 1 .. n /\ uses[last].session = u.session /\ ~Again(uses, last, n)
  BY <1>1
<1>5. \A q \in 1 .. len - 1 : Rest(e, q) = IF q < p THEN Rest(entries, q) - entries[p].size ELSE Rest(entries, q + 1)
  <2>1. \A q \in 1 .. len - 1 : q \in 1 .. len
    BY <1>1
  <2> QED
    BY <1>1, <2>1, TailRemove
<1>6. pos1 \in [1 .. len - 1 -> 1 .. n]
  <2>1. \A q \in 1 .. len - 1 : q \in 1 .. len /\ q + 1 \in 1 .. len
    BY <1>1
  <2>2. \A q \in 1 .. len - 1 : pos1[q] \in 1 .. n
    BY <1>1, <1>3, <2>1
  <2> QED
    BY <2>2
<1>7. \A i \in 1 .. n : Footprint(Append(uses, u), i, n + 1) =
               Footprint(uses, i, n) + u.size - (IF i <= last THEN uses[last].size ELSE 0)
  <2>1. IsLastOf(uses, n, u.session, last)
    BY <1>4 DEF IsLastOf
  <2> HIDE DEF last
  <2> QED
    BY <2>1, FootprintNext
<1>8. \A q \in 1 .. len : pos[q] # last => uses[pos[q]].session # u.session
  <2> HIDE DEF last
  <2> QED
    BY <1>1, <1>4, LastUseUnique
<1>9. u.size \in Nat /\ entries[p].size \in Nat /\ uses[last].size = entries[p].size
      /\ \A q \in 1 .. len : Rest(entries, q) \in Nat
  <2>1. entries[p] \in Uses
    BY <1>1
  <2>2. \A q \in 1 .. len : q \in 1 .. len + 1 /\ q \in q .. len + 1
    BY <1>1
  <2>3. \A q \in 1 .. len : Rest(entries, q) \in Nat
    BY <1>1, <2>2, TailsFall
  <2> QED
    BY <1>1, <2>1, <2>3 DEF Uses
<1>10. \A q \in 1 .. len : q < p => pos[q] < last
  BY <1>1
<1>11. \A q \in 1 .. len : p < q => last < pos[q]
  BY <1>1
<1> HIDE DEF e, pos1, len, last
<1>12. ASSUME NEW q \in 1 .. len - 1
       PROVE  \E r \in 1 .. len : /\ pos1[q] = pos[r] /\ e[q] = entries[r] /\ r # p
                                  /\ r = IF q < p THEN q ELSE q + 1
                                  /\ Rest(e, q) = IF r < p THEN Rest(entries, r) - entries[p].size ELSE Rest(entries, r)
  <2>1. CASE q < p
    <3>1. q \in 1 .. len /\ q # p
      BY <1>1, <2>1
    <3> QED
      BY <1>2, <1>3, <1>5, <2>1, <3>1
  <2>2. CASE ~(q < p)
    <3>1. q + 1 \in 1 .. len /\ q + 1 # p /\ ~(q + 1 < p)
      BY <1>1, <2>2
    <3> QED
      BY <1>2, <1>3, <1>5, <2>2, <3>1, Zenon
  <2> QED
    BY <2>1, <2>2
<1>13. ASSUME NEW q \in 1 .. len - 1
       PROVE  /\ e[q] = uses[pos1[q]] /\ ~Again(uses, pos1[q], n) /\ uses[pos1[q]].session # u.session
              /\ Rest(e, q) + u.size = Footprint(Append(uses, u), pos1[q], n + 1)
  <2>1. PICK r \in 1 .. len : /\ pos1[q] = pos[r] /\ e[q] = entries[r] /\ r # p
                              /\ Rest(e, q) = IF r < p THEN Rest(entries, r) - entries[p].size ELSE Rest(entries, r)
    BY <1>12
  <2>2. pos[r] # last /\ (r < p <=> pos[r] <= last) /\ pos[r] \in 1 .. n
    <3>1. r < p \/ p < r
      BY <1>1, <2>1
    <3>2. last \in Int /\ pos[r] \in Int /\ pos[r] \in 1 .. n
      BY <1>1, <1>4
    <3>3. r < p => pos[r] < last
      BY <1>10
    <3>4. p < r => last < pos[r]
      BY <1>11
    <3>5. ~(r < p /\ p < r)
      BY <1>1
    <3> QED
      BY <3>1, <3>2, <3>3, <3>4, <3>5
  <2>3. Footprint(Append(uses, u), pos[r], n + 1)
          = Rest(entries, r) + u.size - (IF r < p THEN entries[p].size ELSE 0)
    BY <1>1, <1>7, <1>9, <2>2
  <2>4. Rest(e, q) + u.size = Footprint(Append(uses, u), pos[r], n + 1)
    <3> DEFINE a == Rest(entries, r)
               b == entries[p].size
    <3>1. a \in Nat /\ b \in Nat
      BY <1>9
    <3>2. /\ Rest(e, q) = (IF r < p THEN a - b ELSE a)
          /\ Footprint(Append(uses, u), pos[r], n + 1) = a + u.size - (IF r < p THEN b ELSE 0)
      BY <2>1, <2>3
    <3> HIDE DEF a, b
    <3> QED
      BY <1>9, <3>1, <3>2
  <2>5. uses[pos[r]].session # u.session
    BY <1>8, <2>2
  <2>6. e[q] = uses[pos[r]] /\ ~Again(uses, pos[r], n)
    BY <1>1, <2>1
  <2> QED
    BY <2>1, <2>4, <2>5, <2>6
<1>14. ASSUME NEW q \in 1 .. len - 1, NEW r \in 1 .. len - 1, q < r PROVE pos1[q] < pos1[r]
  <2>1. PICK a \in 1 .. len : pos1[q] = pos[a] /\ a = IF q < p THEN q ELSE q + 1
    BY <1>12
  <2>2. PICK b \in 1 .. len : pos1[r] = pos[b] /\ b = IF r < p THEN r ELSE r + 1
    BY <1>12
  <2>3. a < b
    BY <1>1, <1>14, <2>1, <2>2
  <2> QED
    BY <1>1, <2>1, <2>2, <2>3
<1>15. ASSUME NEW l \in 1 .. n
       PROVE  (~Again(uses, l, n) /\ uses[l].session # u.session /\ Stays(uses, l, n))
                 <=> \E q \in 1 .. len - 1 : pos1[q] = l
  <2>1. (~Again(uses, l, n) /\ Stays(uses, l, n)) <=> \E q \in 1 .. len : pos[q] = l
    BY DEF Complete, len
  <2>2. ASSUME NEW q \in 1 .. len - 1, pos1[q] = l PROVE uses[l].session # u.session /\ \E r \in 1 .. len : pos[r] = l
    BY <1>12, <1>13, <2>2
  <2>3. ASSUME NEW r \in 1 .. len, pos[r] = l, uses[l].session # u.session PROVE \E q \in 1 .. len - 1 : pos1[q] = l
    <3>1. r # p
      BY <1>1, <2>3
    <3>2. CASE r < p
      <4>1. r \in 1 .. len - 1
        BY <1>1, <3>2
      <4> QED
        BY <1>3, <2>3, <3>2, <4>1
    <3>3. CASE p < r
      <4>1. r - 1 \in 1 .. len - 1 /\ ~(r - 1 < p) /\ (r - 1) + 1 = r
        BY <1>1, <3>3
      <4>2. pos1[r - 1] = pos[r]
        BY <1>3, <4>1
      <4> QED
        BY <2>3, <4>1, <4>2
    <3> QED
      BY <1>1, <3>1, <3>2, <3>3
  <2> QED
    BY <2>1, <2>2, <2>3
<1>16. Others(e, pos1, uses, u, n)
  BY <1>2, <1>6, <1>13, <1>14, <1>15 DEF Others
<1> QED
  BY <1>16 DEF e

\* One that is not there was dropped, with all the earlier ones, or never used.
LEMMA OthersOfMiss ==
  ASSUME NEW uses \in Seq(Uses), NEW u \in Uses, NEW n, n = Len(uses),
         NEW entries, NEW pos, Mirrors(entries, pos, uses, n), Complete(pos, Len(entries), uses, n, n),
         \A q \in 1 .. Len(entries) : entries[q].session # u.session
  PROVE  Others(entries, pos, uses, u, n)
<1> DEFINE len == Len(entries)
<1>1. /\ entries \in Seq(Uses) /\ len \in Nat /\ n \in Nat
      /\ \A q \in 1 .. len : pos[q] \in 1 .. n /\ entries[q] = uses[pos[q]] /\ ~Again(uses, pos[q], n)
      /\ \A q \in 1 .. len : Rest(entries, q) = Footprint(uses, pos[q], n)
  BY DEF Mirrors
<1>2. PICK last : IsLastOf(uses, n, u.session, last)
  <2>1. CASE \E k \in 1 .. n : uses[k].session = u.session
    <3>1. PICK k \in 1 .. n : uses[k].session = u.session
      BY <2>1
    <3>2. PICK m \in k .. n : uses[m].session = u.session /\ ~Again(uses, m, n)
      BY <1>1, <3>1, LastUseExists
    <3>3. m \in 1 .. n
      BY <1>1
    <3> QED
      BY <3>2, <3>3 DEF IsLastOf
  <2>2. CASE ~\E k \in 1 .. n : uses[k].session = u.session
    BY <2>2 DEF IsLastOf
  <2> QED
    BY <2>1, <2>2
<1>3. u.size \in Nat /\ last \in 0 .. n
  BY <1>1, <1>2 DEF Uses, IsLastOf
<1>4. ASSUME NEW q \in 1 .. len PROVE ~(pos[q] <= last)
  <2> SUFFICES ASSUME pos[q] <= last PROVE FALSE
    OBVIOUS
  <2>1. pos[q] \in 1 .. n /\ last \in 1 .. n
    BY <1>1, <1>3
  <2>2. uses[last].session = u.session /\ ~Again(uses, last, n)
    BY <1>2, <2>1 DEF IsLastOf
  <2>3. Stays(uses, pos[q], n)
    BY <2>1 DEF Complete
  <2>4. ASSUME NEW k \in last .. n PROVE Footprint(uses, last, k) <= Capacity
    <3>1. k \in pos[q] .. n /\ k \in 0 .. Len(uses) /\ pos[q] \in 1 .. k + 1 /\ last \in pos[q] .. k + 1 /\ last \in 1 .. k + 1
      BY <2>1
    <3>2. Footprint(uses, pos[q], k) <= Capacity
      BY <2>3, <3>1 DEF Stays
    <3>3. Footprint(uses, last, k) <= Footprint(uses, pos[q], k) /\ Footprint(uses, last, k) \in Nat
          /\ Footprint(uses, pos[q], k) \in Nat
      BY <3>1, FootprintOrder
    <3> QED
      BY <3>2, <3>3, WorkingSetAssumption
  <2>5. Stays(uses, last, n)
    BY <2>4 DEF Stays
  <2>6. PICK r \in 1 .. len : pos[r] = last
    BY <2>1, <2>2, <2>5 DEF Complete
  <2> QED
    BY <1>1, <2>2, <2>6
<1>5. ASSUME NEW q \in 1 .. len
      PROVE  Rest(entries, q) + u.size = Footprint(Append(uses, u), pos[q], n + 1)
  <2>1. pos[q] \in 1 .. n
    BY <1>1
  <2>2. Footprint(Append(uses, u), pos[q], n + 1)
          = Footprint(uses, pos[q], n) + u.size - (IF pos[q] <= last THEN uses[last].size ELSE 0)
    BY <1>2, <2>1, FootprintNext
  <2>3. Footprint(uses, pos[q], n) \in Nat
    <3>1. n \in 0 .. Len(uses) /\ pos[q] \in 1 .. n + 1
      BY <1>1, <2>1
    <3> QED
      BY <3>1, FootprintOrder
  <2>4. Footprint(Append(uses, u), pos[q], n + 1) = Footprint(uses, pos[q], n) + u.size - 0
    BY <1>4, <2>2
  <2> QED
    BY <1>1, <1>3, <2>3, <2>4
<1>6. ASSUME NEW l \in 1 .. n
      PROVE  (~Again(uses, l, n) /\ uses[l].session # u.session /\ Stays(uses, l, n))
                <=> \E q \in 1 .. len : pos[q] = l
  <2>1. (~Again(uses, l, n) /\ Stays(uses, l, n)) <=> \E q \in 1 .. len : pos[q] = l
    BY DEF Complete
  <2>2. \A q \in 1 .. len : uses[pos[q]].session # u.session
    BY <1>1
  <2> QED
    BY <2>1, <2>2
<1>7. \A q \in 1 .. len : uses[pos[q]].session # u.session
  BY <1>1
<1> QED
  BY <1>5, <1>6, <1>7 DEF Others, Mirrors

----------------------------------------------------------------------------
(* What is dropped. *)

Drops(entries, m) ==
    /\ m \in 0 .. Len(entries)
    /\ m < Len(entries) => Rest(entries, m + 1) <= Capacity
    /\ \A q \in 1 .. m : ~(Rest(entries, q) <= Capacity)

LEMMA EvictedIs ==
  ASSUME NEW entries \in Seq(Uses)
  PROVE  /\ Drops(entries, Evicted(entries, Tokens(entries)))
         /\ Tokens(entries) = Rest(entries, 1) /\ Tokens(entries) \in Nat
<1> DEFINE len == Len(entries)
           total == Tokens(entries)
           s == Sums(Sizes(entries))
           T == {n \in 0 .. len : n = len \/ total - s[n] <= Capacity}
           m == Evicted(entries, total)
<1>1. /\ len \in Nat /\ s[0] = 0 /\ \A n \in 0 .. len : s[n] \in Nat
  <2>1. Sizes(entries) \in Seq(Nat) /\ Len(Sizes(entries)) = len
    BY SizesType
  <2> QED
    BY <2>1, SumsFacts
<1>2. T \subseteq Nat /\ T # {}
  BY <1>1
<1>3. m = CHOOSE x \in T : \A y \in T : x <= y
  BY DEF Evicted, Min
<1>4. \E x \in T : \A y \in T : x <= y
  <2> HIDE DEF T
  <2> QED
    BY <1>2, NatMin
<1> HIDE DEF m
<1>5. m \in T /\ \A y \in T : m <= y
  <2> HIDE DEF T
  <2> QED
    BY <1>3, <1>4
<1>6. \A n \in 0 .. len : total - s[n] = Rest(entries, n + 1)
  <2>1. \A n \in 0 .. len : (n + 1) - 1 = n
    OBVIOUS
  <2> QED
    BY <2>1 DEF Tokens, Rest
<1>7. total = Rest(entries, 1) /\ total \in Nat
  <2>1. total = s[len] /\ Rest(entries, 1) = s[len] - s[1 - 1] /\ 1 - 1 = 0 /\ len \in 0 .. len
    BY <1>1 DEF Tokens, Rest
  <2> HIDE DEF s, len, total
  <2> QED
    BY <1>1, <2>1
<1>8. m \in 0 .. len /\ (m < len => Rest(entries, m + 1) <= Capacity)
  <2>1. m \in 0 .. len /\ (m = len \/ total - s[m] <= Capacity)
    BY <1>5
  <2> QED
    BY <1>1, <1>6, <2>1
<1>9. ASSUME NEW q \in 1 .. m PROVE ~(Rest(entries, q) <= Capacity)
  <2>1. q - 1 \in 0 .. len /\ ~(m <= q - 1) /\ (q - 1) + 1 = q
    BY <1>1, <1>8
  <2>2. ~(q - 1 \in T)
    <3> HIDE DEF T
    <3> QED
      BY <1>5, <2>1
  <2>3. ~(total - s[q - 1] <= Capacity)
    BY <2>1, <2>2
  <2>4. total - s[q - 1] = Rest(entries, q)
    <3> HIDE DEF total, s, len
    <3> QED
      BY <1>6, <2>1
  <2> QED
    BY <2>3, <2>4
<1> QED
  BY <1>7, <1>8, <1>9 DEF Drops, m

LEMMA StaysNext ==
  ASSUME NEW uses, NEW n \in Nat, n # 0, NEW l \in 1 .. n
  PROVE  Stays(uses, l, n) <=> Stays(uses, l, n - 1) /\ Footprint(uses, l, n) <= Capacity
<1>1. l .. n = (l .. n - 1) \cup {n}
  OBVIOUS
<1> QED
  BY <1>1 DEF Stays

LEMMA DropSuffices ==
  ASSUME NEW uses \in Seq(Uses), NEW n, n = Len(uses), n # 0,
         NEW entries, NEW pos, Mirrors(entries, pos, uses, n),
         Complete(pos, Len(entries), uses, n, n - 1),
         NEW m, Drops(entries, m)
  PROVE  \E pos2 : LET e == SubSeq(entries, m + 1, Len(entries)) IN
            Mirrors(e, pos2, uses, n) /\ Complete(pos2, Len(e), uses, n, n)
<1> DEFINE len == Len(entries)
           e == SubSeq(entries, m + 1, Len(entries))
           pos2 == [q \in 1 .. len - m |-> pos[q + m]]
<1>1. /\ entries \in Seq(Uses) /\ len \in Nat /\ n \in Nat /\ m \in 0 .. len
      /\ pos \in [1 .. len -> 1 .. n] /\ \A q \in 1 .. len : pos[q] \in 1 .. n
  <2>1. entries \in Seq(Uses) /\ pos \in [1 .. len -> 1 .. n]
    BY DEF Mirrors
  <2>2. len \in Nat /\ n \in Nat /\ \A q \in 1 .. len : pos[q] \in 1 .. n
    BY <2>1
  <2> QED
    BY <2>1, <2>2 DEF Drops
<1>2. /\ \A q \in 1 .. len : /\ entries[q] = uses[pos[q]] /\ ~Again(uses, pos[q], n)
                             /\ Rest(entries, q) = Footprint(uses, pos[q], n)
      /\ \A q, r \in 1 .. len : q < r => pos[q] < pos[r]
  BY DEF Mirrors
<1>3. e \in Seq(Uses) /\ Len(e) = len - m /\ \A q \in 1 .. len - m : e[q] = entries[q + m]
  BY <1>1
<1>4. \A q \in 1 .. len - m : q + m \in 1 .. len /\ q \in 1 .. (len - m) + 1
  BY <1>1
<1>5. \A q \in 1 .. len - m : Rest(e, q) = Rest(entries, q + m)
  BY <1>1, <1>4, TailDrop
<1>6. \A q \in 1 .. len - m : pos2[q] = pos[q + m]
  OBVIOUS
<1>7. pos2 \in [1 .. len - m -> 1 .. n]
  BY <1>1, <1>4
<1> HIDE DEF e, pos2, len
<1>8. ASSUME NEW q \in 1 .. len - m
      PROVE  e[q] = uses[pos2[q]] /\ ~Again(uses, pos2[q], n) /\ Rest(e, q) = Footprint(uses, pos2[q], n)
  BY <1>2, <1>3, <1>4, <1>5, <1>6
<1>9. ASSUME NEW q \in 1 .. len - m, NEW r \in 1 .. len - m, q < r PROVE pos2[q] < pos2[r]
  <2>1. q + m < r + m
    BY <1>1, <1>9
  <2> QED
    BY <1>2, <1>4, <1>6, <2>1
<1>10. ASSUME NEW q \in 1 .. len PROVE Rest(entries, q) <= Capacity <=> q > m
  <2>1. CASE q > m
    <3>1. m < len /\ m + 1 \in 1 .. len + 1 /\ q \in m + 1 .. len + 1
      BY <1>1, <2>1
    <3>2. Rest(entries, q) <= Rest(entries, m + 1) /\ Rest(entries, q) \in Nat /\ Rest(entries, m + 1) \in Nat
      BY <1>1, <3>1, TailsFall DEF len
    <3>3. Rest(entries, m + 1) <= Capacity
      BY <3>1 DEF Drops, len
    <3> QED
      BY <2>1, <3>2, <3>3, WorkingSetAssumption
  <2>2. CASE ~(q > m)
    <3>1. q \in 1 .. m
      BY <1>1, <2>2
    <3> QED
      BY <2>2, <3>1 DEF Drops
  <2> QED
    BY <2>1, <2>2
<1>11. ASSUME NEW l \in 1 .. n
       PROVE  (~Again(uses, l, n) /\ Stays(uses, l, n)) <=> \E q \in 1 .. len - m : pos2[q] = l
  <2>1. (~Again(uses, l, n) /\ Stays(uses, l, n - 1)) <=> \E q \in 1 .. len : pos[q] = l
    BY DEF Complete, len
  <2>2. Stays(uses, l, n) <=> Stays(uses, l, n - 1) /\ Footprint(uses, l, n) <= Capacity
    BY <1>1, StaysNext
  <2>3. ASSUME NEW q \in 1 .. len - m, pos2[q] = l
        PROVE  ~Again(uses, l, n) /\ Stays(uses, l, n)
    <3>1. q + m \in 1 .. len /\ q + m > m /\ pos[q + m] = l
      BY <1>1, <1>4, <1>6, <2>3
    <3>2. Footprint(uses, l, n) <= Capacity
      BY <1>2, <1>10, <3>1
    <3> QED
      BY <2>1, <2>2, <3>1, <3>2
  <2>4. ASSUME ~Again(uses, l, n), Stays(uses, l, n)
        PROVE  \E q \in 1 .. len - m : pos2[q] = l
    <3>1. PICK q \in 1 .. len : pos[q] = l
      BY <2>1, <2>2, <2>4
    <3>2. q > m
      BY <1>2, <1>10, <2>2, <2>4, <3>1
    <3>3. q - m \in 1 .. len - m /\ (q - m) + m = q
      BY <1>1, <3>2
    <3> QED
      BY <1>6, <3>1, <3>3
  <2> QED
    BY <2>3, <2>4
<1>12. Mirrors(e, pos2, uses, n)
  BY <1>3, <1>7, <1>8, <1>9 DEF Mirrors
<1>13. Complete(pos2, Len(e), uses, n, n)
  BY <1>3, <1>11 DEF Complete
<1> QED
  BY <1>12, <1>13 DEF e

----------------------------------------------------------------------------
(* The simulation. *)

HeldIn(uses, s, j) == \E i \in 1 .. j : uses[i].session = s /\ ~Again(uses, i, j) /\ Stays(uses, i, j)
HitsOf(uses) == {i \in 1 .. Len(uses) : HeldIn(uses, uses[i].session, i - 1)}
ReusesOf(uses) == {i \in 1 .. Len(uses) : \E k \in 1 .. i - 1 : uses[k].session = uses[i].session}

Holds(entries, uses) ==
    \E pos : /\ Mirrors(entries, pos, uses, Len(uses))
             /\ Complete(pos, Len(entries), uses, Len(uses), Len(uses))

LRUInv ==
    /\ log \in Seq(Uses) /\ cache \in Seq(Uses) /\ Holds(cache, log)
    /\ used = Tokens(cache)
    /\ seen = Sessions(log)
    /\ hits = Cardinality(HitsOf(log))
    /\ reuses = Cardinality(ReusesOf(log))

LEMMA RestNext ==
  ASSUME NEW entries \in Seq(Uses), NEW q \in 1 .. Len(entries)
  PROVE  Rest(entries, q) = Rest(entries, q + 1) + entries[q].size
<1> DEFINE w == Sizes(entries)
           s == Sums(w)
           n == Len(entries)
<1>1. w \in Seq(Nat) /\ Len(w) = n /\ w[q] = entries[q].size /\ w[q] \in Nat
  BY SizesType
<1>2. q - 1 \in 0 .. n - 1 /\ (q - 1) + 1 = q /\ q \in 0 .. n /\ n \in 0 .. n /\ q - 1 \in 0 .. n /\ (q + 1) - 1 = q
  OBVIOUS
<1> HIDE DEF n, w
<1>3. s[(q - 1) + 1] = s[q - 1] + w[(q - 1) + 1] /\ s[q - 1] \in Nat /\ s[n] \in Nat
  BY <1>1, <1>2, SumsFacts
<1>4. \A r : Rest(entries, r) = s[n] - s[r - 1]
  BY DEF Rest, n, w
<1> HIDE DEF s
<1>5. Rest(entries, q) = s[n] - s[q - 1] /\ Rest(entries, q + 1) = s[n] - s[q]
  BY <1>2, <1>4
<1>6. s[q] = s[q - 1] + w[q]
  BY <1>2, <1>3
<1> QED
  BY <1>1, <1>3, <1>5, <1>6

LEMMA HeldLocal ==
  ASSUME NEW uses \in Seq(Uses), NEW u \in Uses, NEW s, NEW j \in 0 .. Len(uses)
  PROVE  HeldIn(Append(uses, u), s, j) <=> HeldIn(uses, s, j)
<1>1. ASSUME NEW i \in 1 .. j
      PROVE  /\ Append(uses, u)[i] = uses[i]
             /\ Again(Append(uses, u), i, j) <=> Again(uses, i, j)
             /\ Stays(Append(uses, u), i, j) <=> Stays(uses, i, j)
  <2>1. i \in 1 .. Len(uses) + 1 /\ Append(uses, u)[i] = uses[i]
    OBVIOUS
  <2> QED
    BY <2>1, FootprintLocal, StaysLocal
<1> QED
  BY <1>1 DEF HeldIn

LEMMA HitsNext ==
  ASSUME NEW uses \in Seq(Uses), NEW u \in Uses, NEW n, n = Len(uses)
  PROVE  /\ HitsOf(Append(uses, u)) = HitsOf(uses) \cup (IF HeldIn(uses, u.session, n) THEN {n + 1} ELSE {})
         /\ ReusesOf(Append(uses, u)) =
               ReusesOf(uses) \cup (IF u.session \in Sessions(uses) THEN {n + 1} ELSE {})
         /\ IsFiniteSet(HitsOf(uses)) /\ n + 1 \notin HitsOf(uses)
         /\ IsFiniteSet(ReusesOf(uses)) /\ n + 1 \notin ReusesOf(uses)
         /\ Sessions(Append(uses, u)) = Sessions(uses) \cup {u.session}
<1> DEFINE all == Append(uses, u)
<1>1. /\ all \in Seq(Uses) /\ Len(all) = n + 1 /\ n \in Nat /\ all[n + 1] = u
      /\ \A i \in 1 .. n : all[i] = uses[i]
      /\ DOMAIN all = 1 .. n + 1 /\ DOMAIN uses = 1 .. n
  OBVIOUS
<1>2. 1 .. n + 1 = (1 .. n) \cup {n + 1} /\ n + 1 \notin 1 .. n /\ (n + 1) - 1 = n /\ n \in 0 .. Len(uses)
  BY <1>1
<1>3. \A i \in 1 .. n : i - 1 \in 0 .. Len(uses) /\ \A k \in 1 .. i - 1 : k \in 1 .. n
  OBVIOUS
<1>4. \A s : \A j \in 0 .. Len(uses) : HeldIn(all, s, j) <=> HeldIn(uses, s, j)
  BY HeldLocal
<1> HIDE DEF all
<1>5. HitsOf(all) = HitsOf(uses) \cup (IF HeldIn(uses, u.session, n) THEN {n + 1} ELSE {})
  <2>1. \A i \in 1 .. n : i \in HitsOf(all) <=> i \in HitsOf(uses)
    BY <1>1, <1>2, <1>3, <1>4 DEF HitsOf
  <2>2. n + 1 \in HitsOf(all) <=> HeldIn(uses, u.session, n)
    <3>1. n + 1 \in HitsOf(all) <=> HeldIn(all, all[n + 1].session, (n + 1) - 1)
      BY <1>1, <1>2 DEF HitsOf
    <3> QED
      BY <1>1, <1>2, <1>4, <3>1
  <2>3. HitsOf(all) \subseteq (1 .. n) \cup {n + 1} /\ HitsOf(uses) \subseteq 1 .. n
    BY <1>1, <1>2 DEF HitsOf
  <2> QED
    BY <1>2, <2>1, <2>2, <2>3
<1>6. ReusesOf(all) = ReusesOf(uses) \cup (IF u.session \in Sessions(uses) THEN {n + 1} ELSE {})
  <2>1. ASSUME NEW i \in 1 .. n PROVE i \in ReusesOf(all) <=> i \in ReusesOf(uses)
    <3>1. \A k \in 1 .. i - 1 : all[k] = uses[k]
      BY <1>1, <1>3
    <3> QED
      BY <1>1, <1>2, <3>1 DEF ReusesOf
  <2>2. n + 1 \in ReusesOf(all) <=> u.session \in Sessions(uses)
    <3>1. n + 1 \in ReusesOf(all) <=> \E k \in 1 .. n : all[k].session = all[n + 1].session
      BY <1>1, <1>2 DEF ReusesOf
    <3> QED
      BY <1>1, <3>1 DEF Sessions
  <2>3. ReusesOf(all) \subseteq (1 .. n) \cup {n + 1} /\ ReusesOf(uses) \subseteq 1 .. n
    BY <1>1, <1>2 DEF ReusesOf
  <2> QED
    BY <1>2, <2>1, <2>2, <2>3
<1>7. IsFiniteSet(HitsOf(uses)) /\ IsFiniteSet(ReusesOf(uses))
  <2>1. IsFiniteSet(1 .. n)
    BY <1>1, FS_Interval
  <2>2. HitsOf(uses) \subseteq 1 .. n /\ ReusesOf(uses) \subseteq 1 .. n
    BY DEF HitsOf, ReusesOf
  <2> QED
    BY <2>1, <2>2, FS_Subset
<1>8. n + 1 \notin HitsOf(uses) /\ n + 1 \notin ReusesOf(uses)
  BY <1>2 DEF HitsOf, ReusesOf
<1>9. Sessions(all) = Sessions(uses) \cup {u.session}
  BY <1>1, <1>2 DEF Sessions
<1> QED
  BY <1>5, <1>6, <1>7, <1>8, <1>9 DEF all

LEMMA HeldAreCached ==
  ASSUME NEW uses \in Seq(Uses), NEW entries \in Seq(Uses), Holds(entries, uses)
  PROVE  /\ \A s : s \in Sessions(entries) <=> HeldIn(uses, s, Len(uses))
         /\ Sessions(entries) \subseteq Sessions(uses)
         /\ Cardinality(Sessions(entries)) = Len(entries)
<1> DEFINE n == Len(uses)
           len == Len(entries)
<1>1. PICK pos : Mirrors(entries, pos, uses, n) /\ Complete(pos, len, uses, n, n)
  BY DEF Holds
<1>2. /\ n \in Nat /\ len \in Nat /\ DOMAIN entries = 1 .. len /\ DOMAIN uses = 1 .. n
      /\ \A q \in 1 .. len : pos[q] \in 1 .. n
  <2>1. pos \in [1 .. len -> 1 .. n]
    BY <1>1 DEF Mirrors
  <2> QED
    BY <2>1
<1>3. \A q \in 1 .. len : entries[q] = uses[pos[q]] /\ ~Again(uses, pos[q], n)
  BY <1>1 DEF Mirrors
<1>4. \A q, r \in 1 .. len : q < r => pos[q] < pos[r]
  BY <1>1 DEF Mirrors
<1>5. \A l \in 1 .. n : (~Again(uses, l, n) /\ Stays(uses, l, n)) <=> \E q \in 1 .. len : pos[q] = l
  BY <1>1 DEF Complete
<1> HIDE DEF n, len
<1>6. \A s : s \in Sessions(entries) <=> HeldIn(uses, s, n)
  <2> TAKE s
  <2>1. s \in Sessions(entries) <=> \E q \in 1 .. len : entries[q].session = s
    BY <1>2 DEF Sessions
  <2>2. ASSUME NEW q \in 1 .. len, entries[q].session = s PROVE HeldIn(uses, s, n)
    <3>1. pos[q] \in 1 .. n /\ uses[pos[q]].session = s /\ ~Again(uses, pos[q], n) /\ Stays(uses, pos[q], n)
      BY <1>2, <1>3, <1>5, <2>2
    <3> QED
      BY <3>1 DEF HeldIn
  <2>3. ASSUME HeldIn(uses, s, n) PROVE \E q \in 1 .. len : entries[q].session = s
    <3>1. PICK i \in 1 .. n : uses[i].session = s /\ ~Again(uses, i, n) /\ Stays(uses, i, n)
      BY <2>3 DEF HeldIn
    <3>2. PICK q \in 1 .. len : pos[q] = i
      BY <1>5, <3>1
    <3> QED
      BY <1>3, <3>1, <3>2
  <2> QED
    BY <2>1, <2>2, <2>3
<1>7. Sessions(entries) \subseteq Sessions(uses)
  BY <1>2, <1>3 DEF Sessions
<1>8. ASSUME NEW q \in 1 .. len, NEW r \in 1 .. len, entries[q].session = entries[r].session PROVE q = r
  <2>1. pos[q] = pos[r]
    BY <1>2, <1>3, <1>8, LastUseUnique
  <2>2. pos[q] \in Int /\ pos[r] \in Int
    BY <1>2
  <2>3. ~(q < r) /\ ~(r < q)
    BY <1>4, <2>1, <2>2
  <2> QED
    BY <1>2, <2>3
<1> DEFINE f == [q \in 1 .. len |-> entries[q].session]
<1>9. f \in Bijection(1 .. len, Sessions(entries))
  <2>1. f \in [1 .. len -> Sessions(entries)]
    BY <1>2 DEF Sessions
  <2>2. \A a, b \in 1 .. len : f[a] = f[b] => a = b
    BY <1>8
  <2>3. \A s \in Sessions(entries) : \E a \in 1 .. len : f[a] = s
    BY <1>2 DEF Sessions
  <2> QED
    BY <2>1, <2>2, <2>3 DEF Bijection, Injection, Surjection, IsInjective
<1>10. Cardinality(Sessions(entries)) = len
  <2>1. ExistsBijection(1 .. len, Sessions(entries))
    BY <1>9 DEF ExistsBijection
  <2> QED
    BY <1>2, <2>1, FS_CountingElements
<1> QED
  BY <1>6, <1>7, <1>10 DEF n, len

LEMMA UseHolds ==
  ASSUME LRUInv, NEW u \in Uses, Use(u)
  PROVE  LRUInv'
<1> DEFINE n == Len(log)
           p == Place(u.session)
           hit == u.session \in Sessions(cache)
           others == IF hit THEN RemoveAt(cache, p) ELSE cache
           entries == Append(others, u)
           all == Append(log, u)
           m == Evicted(entries, Tokens(entries))
           next == SubSeq(entries, m + 1, Len(entries))
<1>1. log \in Seq(Uses) /\ cache \in Seq(Uses) /\ n \in Nat /\ all \in Seq(Uses) /\ Len(all) = n + 1
  BY DEF LRUInv
<1>2. PICK pos : Mirrors(cache, pos, log, n) /\ Complete(pos, Len(cache), log, n, n)
  BY DEF LRUInv, Holds
<1>3. hit => p \in 1 .. Len(cache) /\ cache[p].session = u.session
  <2>1. DOMAIN cache = 1 .. Len(cache)
    BY <1>1
  <2> QED
    BY <2>1 DEF Place, Sessions
<1>4. ~hit => \A q \in 1 .. Len(cache) : cache[q].session # u.session
  <2>1. DOMAIN cache = 1 .. Len(cache)
    BY <1>1
  <2> QED
    BY <2>1 DEF Sessions
<1> HIDE DEF n, p, hit
<1>5. PICK pos0 : Others(others, pos0, log, u, n)
  <2>1. CASE hit
    BY <1>1, <1>2, <1>3, <2>1, OthersOfHit DEF n
  <2>2. CASE ~hit
    BY <1>1, <1>2, <1>4, <2>2, OthersOfMiss DEF n
  <2> QED
    BY <2>1, <2>2
<1>6. others \in Seq(Uses)
  BY <1>5 DEF Others
<1>7. /\ u.size \in Nat
      /\ Tokens(cache) = Rest(cache, 1) /\ Rest(cache, 1) \in Nat
      /\ hit => cache[p].size \in Nat
  <2>1. hit => cache[p] \in Uses
    BY <1>1, <1>3
  <2> QED
    BY <1>1, <2>1, EvictedIs DEF Uses
<1>8. Rest(others, 1) = Rest(cache, 1) - (IF hit THEN cache[p].size ELSE 0)
  <2>1. CASE hit
    <3>1. p \in 1 .. Len(cache) /\ 1 \in 1 .. Len(cache)
      BY <1>1, <1>3, <2>1
    <3>2. Rest(RemoveAt(cache, p), 1) = IF 1 < p THEN Rest(cache, 1) - cache[p].size ELSE Rest(cache, 1 + 1)
      BY <1>1, <3>1, TailRemove
    <3>3. Rest(cache, 1) = Rest(cache, 1 + 1) + cache[1].size
      BY <1>1, <3>1, RestNext
    <3>4. Rest(cache, 1 + 1) \in Nat
      <4>1. 1 + 1 \in 1 .. Len(cache) + 1 /\ 1 + 1 \in (1 + 1) .. Len(cache) + 1
        BY <1>1, <3>1
      <4> QED
        BY <1>1, <4>1, TailsFall
    <3>5. CASE 1 < p
      BY <2>1, <3>2, <3>5
    <3>6. CASE p = 1
      <4>1. Rest(RemoveAt(cache, p), 1) = Rest(cache, 1 + 1)
        BY <3>2, <3>6
      <4>2. Rest(cache, 1 + 1) = Rest(cache, 1) - cache[p].size
        BY <1>7, <2>1, <3>3, <3>4, <3>6
      <4> QED
        BY <2>1, <4>1, <4>2
    <3> QED
      BY <3>1, <3>5, <3>6
  <2>2. CASE ~hit
    BY <1>7, <2>2
  <2> QED
    BY <2>1, <2>2
<1> HIDE DEF others
<1>9. entries \in Seq(Uses) /\ Len(entries) = Len(others) + 1
  BY <1>6
<1>10. PICK pos1 : Mirrors(entries, pos1, all, n + 1) /\ Complete(pos1, Len(entries), all, n + 1, n)
  <2>1. \E pos1 : Mirrors(Append(others, u), pos1, Append(log, u), n + 1)
                  /\ Complete(pos1, Len(others) + 1, Append(log, u), n + 1, n)
    BY <1>1, <1>5, UseSuffices DEF n
  <2> QED
    BY <1>9, <2>1
<1>11. Tokens(entries) = used + u.size - (IF hit THEN cache[p].size ELSE 0)
  <2>1. Tokens(entries) = Rest(entries, 1)
    BY <1>9, EvictedIs
  <2>2. Rest(entries, 1) = Rest(others, 1) + u.size
    <3>1. 1 \in 1 .. Len(others) + 1
      BY <1>6
    <3> QED
      BY <1>6, <3>1, TailAppend
  <2>3. used = Rest(cache, 1)
    BY <1>7 DEF LRUInv
  <2> DEFINE a == Rest(cache, 1)
             b == IF hit THEN cache[p].size ELSE 0
  <2>4. Rest(others, 1) = a - b /\ used = a /\ a \in Nat /\ b \in Nat
    BY <1>7, <1>8, <2>3
  <2>5. Tokens(entries) = (a - b) + u.size
    BY <2>1, <2>2, <2>4
  <2> HIDE DEF a, b
  <2>6. Tokens(entries) = used + u.size - b
    BY <1>7, <2>4, <2>5
  <2> QED
    BY <2>6 DEF b
<1>12. Drops(entries, m)
  BY <1>9, EvictedIs
<1>13. /\ entries = Renewed(u) /\ Tokens(entries) = Refilled(u)
  BY <1>11 DEF Renewed, Refilled, others, hit, p
<1> HIDE DEF entries, all
<1>14. cache' = next /\ used' = Tokens(entries) - Sums(Sizes(entries))[m] /\ log' = all
  BY <1>13 DEF Use, all
<1>15. PICK pos2 : Mirrors(next, pos2, all, n + 1) /\ Complete(pos2, Len(next), all, n + 1, n + 1)
  <2>1. n + 1 = Len(all) /\ n + 1 # 0 /\ (n + 1) - 1 = n
    BY <1>1
  <2> HIDE DEF m
  <2> QED
    BY <1>1, <1>10, <1>12, <2>1, DropSuffices
<1>16. next \in Seq(Uses)
  BY <1>15 DEF Mirrors
<1>17. Holds(cache', log')
  BY <1>1, <1>14, <1>15 DEF Holds
<1>18. used' = Tokens(cache')
  <2>1. Tokens(next) = Rest(next, 1)
    BY <1>16, EvictedIs
  <2>2. m \in 0 .. Len(entries)
    BY <1>12 DEF Drops
  <2> HIDE DEF m
  <2>3. 1 \in 1 .. (Len(entries) - m) + 1 /\ (1 + m) - 1 = m
    BY <1>9, <2>2
  <2>4. Rest(next, 1) = Rest(entries, 1 + m)
    BY <1>9, <2>2, <2>3, TailDrop
  <2>5. Rest(entries, 1 + m) = Tokens(entries) - Sums(Sizes(entries))[m]
    BY <2>3 DEF Rest, Tokens
  <2> QED
    BY <1>14, <2>1, <2>4, <2>5
<1>19. /\ HitsOf(all) = HitsOf(log) \cup (IF HeldIn(log, u.session, n) THEN {n + 1} ELSE {})
       /\ ReusesOf(all) = ReusesOf(log) \cup (IF u.session \in Sessions(log) THEN {n + 1} ELSE {})
       /\ IsFiniteSet(HitsOf(log)) /\ n + 1 \notin HitsOf(log)
       /\ IsFiniteSet(ReusesOf(log)) /\ n + 1 \notin ReusesOf(log)
       /\ Sessions(all) = Sessions(log) \cup {u.session}
  BY <1>1, HitsNext DEF n, all
<1>20. hit <=> HeldIn(log, u.session, n)
  BY <1>1, HeldAreCached DEF LRUInv, hit, n
<1>21. seen' = Sessions(log')
  BY <1>14, <1>19 DEF Use, LRUInv
<1>22. hits' = Cardinality(HitsOf(log'))
  <2>1. hits' = hits + (IF hit THEN 1 ELSE 0) /\ hits = Cardinality(HitsOf(log)) /\ hits \in Nat
    BY <1>19, FS_CardinalityType DEF Use, LRUInv, hit
  <2>2. CASE hit
    <3>1. HitsOf(log') = HitsOf(log) \cup {n + 1}
      BY <1>14, <1>19, <1>20, <2>2
    <3> QED
      BY <1>19, <2>1, <2>2, <3>1, FS_AddElement
  <2>3. CASE ~hit
    <3>1. HitsOf(log') = HitsOf(log)
      BY <1>14, <1>19, <1>20, <2>3
    <3> QED
      BY <2>1, <2>3, <3>1
  <2> QED
    BY <2>2, <2>3
<1>23. reuses' = Cardinality(ReusesOf(log'))
  <2> DEFINE again == u.session \in Sessions(log)
  <2>1. reuses' = reuses + (IF again THEN 1 ELSE 0) /\ reuses = Cardinality(ReusesOf(log)) /\ reuses \in Nat
    BY <1>19, FS_CardinalityType DEF Use, LRUInv
  <2>2. CASE again
    <3>1. ReusesOf(log') = ReusesOf(log) \cup {n + 1}
      BY <1>14, <1>19, <2>2
    <3> QED
      BY <1>19, <2>1, <2>2, <3>1, FS_AddElement
  <2>3. CASE ~again
    BY <1>14, <1>19, <2>1, <2>3
  <2> QED
    BY <2>2, <2>3
<1> QED
  BY <1>1, <1>14, <1>16, <1>17, <1>18, <1>21, <1>22, <1>23 DEF LRUInv

USE ArrivalAssumption

----------------------------------------------------------------------------
(* Workloads, and the clock. *)

LEMMA WorkloadFacts ==
  ASSUME workload \in Workloads
  PROVE  /\ Places = 1..Len(workload) /\ Len(workload) \in Nat
         /\ \A i \in Places : SessionOf(i) \in Nat /\ TurnOf(i) \in Nat /\ workload[i].request \in Nat
         /\ Profile \subseteq Places
<1>1. workload \in Seq(Rows)
  OBVIOUS
<1>2. Places = 1..Len(workload) /\ Len(workload) \in Nat
  BY <1>1 DEF Places
<1>3. \A i \in Places : workload[i] \in Rows
  BY <1>1, <1>2
<1>4. \A i \in Places : SessionOf(i) \in Nat /\ TurnOf(i) \in Nat /\ workload[i].request \in Nat
  BY <1>3 DEF SessionOf, TurnOf, Rows
<1> QED
  BY <1>2, <1>4 DEF Profile

LEMMA Division ==
  ASSUME NEW n \in Nat, NEW d \in Nat \ {0}
  PROVE  n \div d \in Nat /\ n < (n \div d + 1) * d
OBVIOUS

LEMMA Remaining ==
  ASSUME NEW h \in Nat, NEW a \in Nat, NEW p \in Nat \ {0}, ~(h * p <= a)
  PROVE  h - a \div p \in Nat
OBVIOUS

LEMMA PositiveProduct ==
  ASSUME NEW a \in Nat \ {0}, NEW b \in Nat \ {0}
  PROVE  a * b \in Nat \ {0}
OBVIOUS

LEMMA ClockFacts ==
  ASSUME now \in Nat
  PROVE  /\ Segment \in Nat /\ SegmentEnd \in Nat /\ SegmentEnd - now \in Nat
         /\ Pace \in Nat \ {0}
<1> DEFINE length == Period * High * Low
<1>1. length \in Nat \ {0}
  <2>1. Period * High \in Nat \ {0}
    BY PositiveProduct
  <2> QED
    BY <2>1, PositiveProduct
<1>2. Segment \in Nat /\ now < (Segment + 1) * length
  BY <1>1, Division DEF Segment
<1>3. SegmentEnd = (Segment + 1) * length
  BY <1>2 DEF SegmentEnd
<1>4. (Segment + 1) * length \in Nat
  BY <1>1, <1>2, PositiveProduct
<1>5. Pace \in Nat \ {0}
  BY DEF Pace
<1> QED
  <2> HIDE DEF length
  <2> QED
    BY <1>2, <1>3, <1>4, <1>5

LEMMA DrawnType == ASSUME drawn \in Seq(Nat) PROVE Drawn \in Nat /\ (drawn # <<>> => Drawn = drawn[Len(drawn)])
<1>1. drawn # <<>> => Len(drawn) \in 1 .. Len(drawn)
  OBVIOUS
<1> QED
  BY <1>1 DEF Drawn, Last

----------------------------------------------------------------------------
(* Types. *)

\* Until the workload is read, and for a trace that is sorted, there are no
\* cohorts.
BeginInv ==
    /\ step \in {"select", "read"} \/ plan = "sorted" =>
          left = {} /\ cohort = {} /\ turns = {} /\ wave = {}
    /\ step \in {"select", "read"} => trace = <<>>
    /\ step = "select" => kept = {} /\ read = 0
    /\ step = "read" => plan # "sorted"

TypeInv == TypeOK /\ BeginInv

LEMMA TypeInit == Init => TypeInv
<1> SUFFICES ASSUME Init PROVE TypeInv
  OBVIOUS
<1>1. workload \in Workloads /\ Len(workload) \in Nat
  BY WorkloadFacts DEF Init
<1>2. trace \in Seq(kept) /\ drawn \in Seq(Nat) /\ offsets \in Seq(Nat)
  BY DEF Init
<1>3. TypeOK
  BY <1>1, <1>2 DEF Init, TypeOK
<1> QED
  BY <1>3 DEF Init, TypeInv, BeginInv

LEMMA TypeStep == TypeInv /\ [Next]_vars => TypeInv'
<1> SUFFICES ASSUME TypeInv, [Next]_vars PROVE TypeInv'
  OBVIOUS
<1> USE DEF TypeInv
<1>1. /\ TypeOK /\ workload \in Workloads /\ Places = 1..Len(workload) /\ Len(workload) \in Nat
      /\ \A i \in Places : SessionOf(i) \in Nat /\ TurnOf(i) \in Nat /\ workload[i].request \in Nat
      /\ Profile \subseteq Places
  BY WorkloadFacts DEF TypeOK
<1>2. CASE Select
  BY <1>2 DEF Select, TypeOK, BeginInv, planned, ordering, timing, Places, SessionsOf, SessionOf
<1>3. CASE KeepAll
  BY <1>1, <1>3 DEF KeepAll, TypeOK, BeginInv, planned, ordering, timing, Places, SessionsOf, SessionOf
<1>4. CASE ReadRow
  <2>1. /\ read' \in 0..Len(workload) /\ step' \in {"read", "refused"}
        /\ kept' \subseteq Places /\ UNCHANGED <<planned, left, cohort, turns, wave, trace, timing>>
    <3>1. read + 1 \in 0..Len(workload) /\ read + 1 \in Places
      BY <1>1, <1>4 DEF ReadRow, TypeOK
    <3>2. kept \subseteq Places
      BY <1>1 DEF TypeOK
    <3>3. Indexed(read + 1) \subseteq Places
      BY <3>1, <3>2 DEF Indexed
    <3>4. step' \in {"read", "refused"} /\ kept' \in {kept, Indexed(read + 1)}
      BY <1>4 DEF ReadRow
    <3>5. read' = read + 1 /\ UNCHANGED <<planned, left, cohort, turns, wave, trace, timing>>
      BY <1>4 DEF ReadRow
    <3> QED
      BY <3>1, <3>2, <3>3, <3>4, <3>5
  <2>2. plan # "sorted" /\ trace = <<>> /\ wave = {} /\ left = {} /\ cohort = {} /\ turns = {}
    BY <1>4 DEF ReadRow, BeginInv
  <2>3. trace' \in Seq(kept') /\ wave' \subseteq kept'
    BY <2>1, <2>2
  <2>4. TypeOK'
    BY <1>1, <2>1, <2>3 DEF TypeOK, planned, timing, Places, SessionsOf, SessionOf
  <2> QED
    BY <2>1, <2>2, <2>4 DEF BeginInv, planned
<1>5. CASE AllRead
  BY <1>1, <1>5 DEF AllRead, TypeOK, BeginInv, planned, ordering, timing, Places, SessionsOf, SessionOf
<1>6. CASE NextCohort
  <2>1. cohort' \subseteq left /\ left' \subseteq left /\ turns' \subseteq Nat
    BY <1>1, <1>6 DEF NextCohort, Slice, TypeOK
  <2>2. plan # "sorted" /\ step = "order" /\ UNCHANGED <<planned, step, read, kept, wave, trace, timing>>
    BY <1>6 DEF NextCohort, BeginInv
  <2> QED
    BY <1>1, <2>1, <2>2 DEF TypeOK, BeginInv, planned, timing, Places, SessionsOf, SessionOf
<1>7. CASE NextTurn
  <2>1. turns' \subseteq turns /\ wave' \subseteq kept
    BY <1>7 DEF NextTurn
  <2>2. plan # "sorted" /\ step = "order" /\ UNCHANGED <<planned, step, read, kept, left, cohort, trace, timing>>
    BY <1>7 DEF NextTurn, BeginInv
  <2> QED
    BY <1>1, <2>1, <2>2 DEF TypeOK, BeginInv, planned, timing, Places, SessionsOf, SessionOf
<1>8. CASE Emit
  <2>1. wave' \subseteq wave /\ trace' \in Seq(kept) /\ plan # "sorted"
    BY <1>8, <1>1, AppendProperties DEF Emit, TypeOK, BeginInv
  <2>2. step = "order" /\ UNCHANGED <<planned, step, read, kept, left, cohort, turns, timing>>
    BY <1>8 DEF Emit
  <2> QED
    BY <1>1, <2>1, <2>2 DEF TypeOK, BeginInv, planned, timing, Places, SessionsOf, SessionOf
<1>9. CASE EmitSorted
  <2>1. trace' \in Seq(kept)
    BY <1>9, <1>1, AppendProperties DEF EmitSorted, TypeOK
  <2>2. step = "order" /\ UNCHANGED <<planned, step, read, kept, left, cohort, turns, wave, timing>>
    BY <1>9 DEF EmitSorted
  <2> QED
    BY <1>1, <2>1, <2>2 DEF TypeOK, BeginInv, planned, timing, Places, SessionsOf, SessionOf
<1>10. CASE Ordered
  BY <1>1, <1>10 DEF Ordered, TypeOK, BeginInv, planned, ordering, timing, Places, SessionsOf, SessionOf
<1>11. CASE Draw
  <2>1. hazard' \in Nat /\ drawn' \in Seq(Nat)
    <3>1. Drawn \in Nat
      BY <1>1, DrawnType DEF TypeOK
    <3>2. hazard' \in Nat /\ drawn' = Append(drawn, Drawn + hazard')
      BY <1>11 DEF Draw
    <3>3. drawn \in Seq(Nat)
      BY <1>1 DEF TypeOK
    <3>4. hazard' \in Nat
      BY <3>2
    <3>5. Drawn + hazard' \in Nat
      <4>1. \A h \in Nat : Drawn + h \in Nat
        BY <3>1
      <4> QED
        BY <3>4, <4>1
    <3> QED
      BY <3>2, <3>3, <3>4, <3>5, AppendProperties
  <2>2. step = "draw" /\ step' = "cross" /\ UNCHANGED <<planned, ordering, now, offsets>>
    BY <1>11 DEF Draw
  <2> QED
    BY <1>1, <2>1, <2>2 DEF TypeOK, BeginInv, planned, ordering, Places, SessionsOf, SessionOf
<1>12. CASE Cross
  <2>1. now \in Nat /\ hazard \in Nat
    BY <1>1 DEF TypeOK
  <2>2. SegmentEnd \in Nat /\ SegmentEnd - now \in Nat /\ Pace \in Nat \ {0}
    BY <2>1, ClockFacts
  <2>3. ~(hazard * Pace <= SegmentEnd - now)
    BY <1>12 DEF Cross, Reached
  <2>4. hazard - (SegmentEnd - now) \div Pace \in Nat
    BY <2>1, <2>2, <2>3, Remaining
  <2>5. /\ now' \in Nat /\ hazard' \in Nat /\ step = "cross"
        /\ UNCHANGED <<planned, step, ordering, drawn, offsets>>
    BY <1>12, <2>2, <2>4 DEF Cross
  <2> QED
    BY <1>1, <2>5 DEF TypeOK, BeginInv, planned, ordering, Places, SessionsOf, SessionOf
<1>13. CASE Arrive
  <2>1. now \in Nat /\ hazard \in Nat
    BY <1>1 DEF TypeOK
  <2>2. Pace \in Nat \ {0}
    BY <2>1, ClockFacts
  <2>3. hazard * Pace \in Nat
    BY <2>1, <2>2
  <2>4. now' \in Nat /\ hazard' \in Nat /\ offsets' \in Seq(Nat)
    BY <1>13, <1>1, <2>1, <2>3, AppendProperties DEF Arrive, TypeOK
  <2>5. step = "cross" /\ step' = "draw" /\ UNCHANGED <<planned, ordering, drawn>>
    BY <1>13 DEF Arrive
  <2> QED
    BY <1>1, <2>4, <2>5 DEF TypeOK, BeginInv, planned, ordering, Places, SessionsOf, SessionOf
<1>14. CASE Finish
  BY <1>1, <1>14 DEF Finish, TypeOK, BeginInv, planned, ordering, timing, Places, SessionsOf, SessionOf
<1>15. CASE UNCHANGED vars
  BY <1>1, <1>15 DEF vars, TypeOK, BeginInv, planned, ordering, timing, Places, SessionsOf, SessionOf
<1> QED
  BY <1>2, <1>3, <1>4, <1>5, <1>6, <1>7, <1>8, <1>9, <1>10, <1>11, <1>12, <1>13, <1>14, <1>15 DEF Next

\* Every variable of a generation keeps its type, for every workload and all
\* draws: the clock never runs backwards past a hazard that is left.
THEOREM ArrivalTypeCorrect == Spec => []TypeOK
<1>1. Spec => []TypeInv
  BY TypeInit, TypeStep, PTL DEF Spec
<1> QED
  BY <1>1, PTL DEF TypeInv

----------------------------------------------------------------------------
(* The order. *)

\* A step of the order, a step that reads, or one that leaves both alone.
SameOrder == UNCHANGED <<planned, ordering>>
Reads ==
    /\ UNCHANGED <<planned, trace>> /\ trace = <<>> /\ wave' = {} /\ turns' = {} /\ cohort' = {}
    /\ KeepAll \/ ReadRow \/ AllRead

LEMMA Kinds ==
  ASSUME TypeInv, [Next]_vars
  PROVE  \/ SameOrder \/ Reads \/ EmitSorted
         \/ plan # "sorted" /\ (NextCohort \/ NextTurn \/ Emit)
<1>1. CASE Select \/ Ordered \/ Draw \/ Cross \/ Arrive \/ Finish
  BY <1>1 DEF Select, Ordered, Draw, Cross, Arrive, Finish, SameOrder
<1>2. CASE UNCHANGED vars
  BY <1>2 DEF vars, SameOrder
<1>3. CASE KeepAll
  BY <1>3 DEF KeepAll, Reads, TypeInv, BeginInv
<1>4. CASE ReadRow
  BY <1>4 DEF ReadRow, Reads, TypeInv, BeginInv
<1>5. CASE AllRead
  BY <1>5 DEF AllRead, Reads, TypeInv, BeginInv
<1>6. CASE NextCohort
  <2>1. plan # "sorted"
    BY <1>6 DEF NextCohort, TypeInv, BeginInv
  <2> QED
    BY <1>6, <2>1
<1>7. CASE NextTurn
  <2>1. plan # "sorted"
    BY <1>7 DEF NextTurn, TypeInv, BeginInv
  <2> QED
    BY <1>7, <2>1
<1>8. CASE Emit
  <2>1. plan # "sorted"
    BY <1>8 DEF Emit, TypeInv, BeginInv
  <2> QED
    BY <1>8, <2>1
<1> QED
  BY <1>1, <1>2, <1>3, <1>4, <1>5, <1>6, <1>7, <1>8 DEF Next

LEMMA TraceFacts ==
  ASSUME TypeInv
  PROVE  /\ DOMAIN trace = 1..Len(trace) /\ Len(trace) \in Nat
         /\ \A k \in DOMAIN trace : trace[k] \in kept /\ trace[k] \in Places
         /\ \A i \in Places : SessionOf(i) \in Nat /\ TurnOf(i) \in Nat /\ workload[i].request \in Nat
         /\ kept \subseteq Places /\ wave \subseteq kept /\ turns \subseteq Nat
BY WorkloadFacts DEF TypeInv, TypeOK

\* What appending one request makes of the trace.
LEMMA AppendFacts ==
  ASSUME TypeInv, NEW i \in kept, trace' = Append(trace, i)
  PROVE  /\ DOMAIN trace' = 1..(Len(trace) + 1) /\ Len(trace') = Len(trace) + 1
         /\ \A k \in DOMAIN trace : trace'[k] = trace[k]
         /\ trace'[Len(trace) + 1] = i
         /\ ToSet(trace') = ToSet(trace) \cup {i}
<1>1. trace \in Seq(kept) /\ DOMAIN trace = 1..Len(trace) /\ Len(trace) \in Nat
  BY DEF TypeInv, TypeOK
<1>2. /\ DOMAIN trace' = 1..(Len(trace) + 1) /\ Len(trace') = Len(trace) + 1
      /\ \A k \in DOMAIN trace : trace'[k] = trace[k]
      /\ trace'[Len(trace) + 1] = i
  BY <1>1, AppendProperties
<1>3. ToSet(trace') = ToSet(trace) \cup {i}
  BY <1>1, <1>2 DEF ToSet
<1> QED
  BY <1>2, <1>3

\* A session and a turn are in the index once.
IndexInv ==
    plan # "sorted" =>
        \A i, j \in kept : SessionOf(i) = SessionOf(j) /\ TurnOf(i) = TurnOf(j) => i = j

LEMMA IndexStep == TypeInv /\ IndexInv /\ [Next]_vars => IndexInv'
<1> SUFFICES ASSUME TypeInv, IndexInv, [Next]_vars PROVE IndexInv'
  OBVIOUS
<1>1. CASE UNCHANGED <<planned, kept>>
  BY <1>1 DEF IndexInv, planned, SessionOf, TurnOf
<1>2. CASE KeepAll
  BY <1>2 DEF KeepAll, IndexInv, planned
<1>3. CASE ReadRow
  <2>1. UNCHANGED planned /\ kept' \in {kept, Indexed(read + 1)}
    BY <1>3 DEF ReadRow
  <2>2. plan # "sorted" => \A i, j \in Indexed(read + 1) :
            SessionOf(i) = SessionOf(j) /\ TurnOf(i) = TurnOf(j) => i = j
    BY DEF Indexed, IndexInv
  <2> QED
    BY <2>1, <2>2 DEF IndexInv, planned, SessionOf, TurnOf
<1> QED
  BY <1>1, <1>2, <1>3, Kinds
     DEF SameOrder, Reads, planned, ordering, AllRead, EmitSorted, NextCohort, NextTurn, Emit

\* Sessions that no cohort has taken have no requests yet.  What is left of a
\* turn comes after everything that its sessions have sent, and before the
\* turns that are still to come.
WaveInv ==
    /\ cohort \cap left = {}
    /\ \A k \in DOMAIN trace : SessionOf(trace[k]) \notin left
    /\ \A i \in wave : SessionOf(i) \in cohort /\ \A u \in turns : TurnOf(i) < u
    /\ \A i, j \in wave : TurnOf(i) = TurnOf(j)
    /\ \A k \in DOMAIN trace : SessionOf(trace[k]) \in cohort =>
          /\ \A u \in turns : TurnOf(trace[k]) < u
          /\ \A i \in wave : SessionOf(i) = SessionOf(trace[k]) => TurnOf(trace[k]) < TurnOf(i)

LEMMA WaveStep == TypeInv /\ IndexInv /\ WaveInv /\ [Next]_vars => WaveInv'
<1> SUFFICES ASSUME TypeInv, IndexInv, WaveInv, [Next]_vars PROVE WaveInv'
  OBVIOUS
<1>0. /\ DOMAIN trace = 1..Len(trace) /\ Len(trace) \in Nat
      /\ \A k \in DOMAIN trace : trace[k] \in kept /\ trace[k] \in Places
      /\ \A i \in Places : SessionOf(i) \in Nat /\ TurnOf(i) \in Nat
      /\ kept \subseteq Places /\ wave \subseteq kept /\ turns \subseteq Nat
  BY TraceFacts
<1>1. CASE SameOrder
  BY <1>1 DEF SameOrder, WaveInv, planned, ordering, SessionOf, TurnOf
<1>2. CASE Reads
  BY <1>2 DEF Reads, WaveInv, planned
<1>3. CASE EmitSorted
  <2>1. plan = "sorted" /\ left = {} /\ cohort = {} /\ turns = {} /\ wave = {}
    BY <1>3 DEF EmitSorted, TypeInv, BeginInv
  <2>2. left' = {} /\ cohort' = {} /\ turns' = {} /\ wave' = {}
    BY <1>3, <2>1 DEF EmitSorted
  <2> QED
    BY <2>2 DEF WaveInv
<1>4. CASE NextCohort
  <2>1. cohort' \subseteq left /\ left' = left \ cohort' /\ UNCHANGED <<planned, kept, wave, trace>> /\ wave = {}
    BY <1>4 DEF NextCohort, Slice
  <2>2. \A k \in DOMAIN trace : SessionOf(trace[k]) \notin left
    BY DEF WaveInv
  <2> QED
    BY <2>1, <2>2 DEF WaveInv, planned, SessionOf, TurnOf
<1>5. CASE NextTurn
  <2>1. PICK t \in turns :
          /\ \A u \in turns : t <= u
          /\ turns' = turns \ {t}
          /\ wave' = {i \in kept : SessionOf(i) \in cohort /\ TurnOf(i) = t}
    BY <1>5 DEF NextTurn
  <2>2. UNCHANGED <<planned, kept, left, cohort, trace>>
    BY <1>5 DEF NextTurn
  <2>3. \A u \in turns' : t < u
    BY <1>0, <2>1
  <2> QED
    BY <1>0, <2>1, <2>2, <2>3 DEF WaveInv, planned, SessionOf, TurnOf
<1>6. CASE plan # "sorted" /\ Emit
  <2>1. PICK i \in wave : trace' = Append(trace, i) /\ wave' = wave \ {i}
    BY <1>6 DEF Emit
  <2>2. UNCHANGED <<planned, kept, left, cohort, turns>>
    BY <1>6 DEF Emit
  <2>3. /\ DOMAIN trace' = 1..(Len(trace) + 1)
        /\ \A k \in DOMAIN trace : trace'[k] = trace[k]
        /\ trace'[Len(trace) + 1] = i
    BY <1>0, <2>1, AppendFacts
  <2>4. \A j \in wave' : SessionOf(j) # SessionOf(i)
    BY <1>0, <1>6, <2>1 DEF WaveInv, IndexInv
  <2>5. SessionOf(i) \in cohort /\ SessionOf(i) \notin left /\ \A u \in turns : TurnOf(i) < u
    BY <2>1 DEF WaveInv
  <2>6. \A k \in DOMAIN trace' : k \in DOMAIN trace \/ k = Len(trace) + 1
    BY <1>0, <2>3
  <2> QED
    BY <2>1, <2>2, <2>3, <2>4, <2>5, <2>6 DEF WaveInv, planned, SessionOf, TurnOf
<1> QED
  BY <1>1, <1>2, <1>3, <1>4, <1>5, <1>6, Kinds

\* What a sorted trace still has to send comes after what it has sent.
SortedInv ==
    plan = "sorted" =>
        \A k \in DOMAIN trace : \A j \in kept \ ToSet(trace) : Before(trace[k], j)

LEMMA SortedStep == TypeInv /\ SortedInv /\ [Next]_vars => SortedInv'
<1> SUFFICES ASSUME TypeInv, SortedInv, [Next]_vars PROVE SortedInv'
  OBVIOUS
<1>0. /\ DOMAIN trace = 1..Len(trace) /\ Len(trace) \in Nat
  BY TraceFacts
<1>1. CASE SameOrder
  BY <1>1 DEF SameOrder, SortedInv, planned, ordering, Before, SessionOf, TurnOf
<1>2. CASE Reads
  BY <1>2 DEF Reads, SortedInv
<1>3. CASE EmitSorted
  <2>1. PICK i \in kept \ ToSet(trace) :
          /\ \A j \in kept \ ToSet(trace) : Before(i, j)
          /\ trace' = Append(trace, i)
    BY <1>3 DEF EmitSorted
  <2>2. plan = "sorted" /\ UNCHANGED <<planned, kept>>
    BY <1>3 DEF EmitSorted
  <2>3. /\ DOMAIN trace' = 1..(Len(trace) + 1)
        /\ \A k \in DOMAIN trace : trace'[k] = trace[k]
        /\ trace'[Len(trace) + 1] = i
        /\ ToSet(trace') = ToSet(trace) \cup {i}
    BY <2>1, AppendFacts
  <2>4. \A k \in DOMAIN trace' : \A j \in kept \ ToSet(trace') : Before(trace'[k], j)
    <3> SUFFICES ASSUME NEW k \in DOMAIN trace', NEW j \in kept \ ToSet(trace')
                 PROVE  Before(trace'[k], j)
      OBVIOUS
    <3>1. j \in kept \ ToSet(trace)
      BY <2>3
    <3>2. CASE k \in DOMAIN trace
      BY <2>2, <2>3, <3>1, <3>2 DEF SortedInv
    <3>3. CASE k = Len(trace) + 1
      BY <2>1, <2>3, <3>1, <3>3
    <3> QED
      BY <1>0, <2>3, <3>2, <3>3
  <2> QED
    BY <2>2, <2>4 DEF SortedInv, planned, Before, SessionOf, TurnOf
<1>4. CASE plan # "sorted" /\ (NextCohort \/ NextTurn \/ Emit)
  BY <1>4 DEF SortedInv, NextCohort, NextTurn, Emit, planned
<1> QED
  BY <1>1, <1>2, <1>3, <1>4, Kinds

LEMMA TurnsStep ==
  TypeInv /\ WaveInv /\ SortedInv /\ TurnsInOrder /\ [Next]_vars => TurnsInOrder'
<1> SUFFICES ASSUME TypeInv, WaveInv, SortedInv, TurnsInOrder, [Next]_vars PROVE TurnsInOrder'
  OBVIOUS
<1>0. /\ DOMAIN trace = 1..Len(trace) /\ Len(trace) \in Nat
      /\ \A k \in DOMAIN trace : trace[k] \in kept /\ trace[k] \in Places
      /\ \A i \in Places : SessionOf(i) \in Nat /\ TurnOf(i) \in Nat
      /\ kept \subseteq Places /\ wave \subseteq kept
  BY TraceFacts
<1>1. CASE UNCHANGED <<planned, trace>>
  BY <1>1 DEF TurnsInOrder, planned, SessionOf, TurnOf
<1>2. ASSUME NEW i \in kept, trace' = Append(trace, i), UNCHANGED planned,
             \A k \in DOMAIN trace : SessionOf(trace[k]) = SessionOf(i) =>
                 \/ TurnOf(trace[k]) < TurnOf(i)
                 \/ plan = "sorted" /\ TurnOf(trace[k]) = TurnOf(i)
      PROVE  TurnsInOrder'
  <2>1. /\ DOMAIN trace' = 1..(Len(trace) + 1)
        /\ \A k \in DOMAIN trace : trace'[k] = trace[k]
        /\ trace'[Len(trace) + 1] = i
    BY <1>2, AppendFacts
  <2>2. \A k, l \in DOMAIN trace' :
            k < l /\ SessionOf(trace'[k]) = SessionOf(trace'[l]) =>
                \/ TurnOf(trace'[k]) < TurnOf(trace'[l])
                \/ plan = "sorted" /\ TurnOf(trace'[k]) = TurnOf(trace'[l])
    <3> SUFFICES ASSUME NEW k \in DOMAIN trace', NEW l \in DOMAIN trace', k < l,
                        SessionOf(trace'[k]) = SessionOf(trace'[l])
                 PROVE  \/ TurnOf(trace'[k]) < TurnOf(trace'[l])
                        \/ plan = "sorted" /\ TurnOf(trace'[k]) = TurnOf(trace'[l])
      OBVIOUS
    <3>1. k \in DOMAIN trace
      BY <1>0, <2>1
    <3>2. CASE l \in DOMAIN trace
      BY <2>1, <3>1, <3>2 DEF TurnsInOrder
    <3>3. CASE l = Len(trace) + 1
      BY <1>2, <2>1, <3>1, <3>3
    <3> QED
      BY <1>0, <2>1, <3>2, <3>3
  <2> QED
    BY <1>2, <2>2 DEF TurnsInOrder, planned, SessionOf, TurnOf
<1>3. CASE plan # "sorted" /\ Emit
  <2>1. PICK i \in wave : trace' = Append(trace, i)
    BY <1>3 DEF Emit
  <2>2. SessionOf(i) \in cohort
    BY DEF WaveInv
  <2>3. \A k \in DOMAIN trace : SessionOf(trace[k]) = SessionOf(i) => TurnOf(trace[k]) < TurnOf(i)
    BY <2>2 DEF WaveInv
  <2> QED
    BY <1>0, <1>2, <1>3, <2>1, <2>3 DEF Emit
<1>4. CASE EmitSorted
  <2>1. PICK i \in kept \ ToSet(trace) : trace' = Append(trace, i)
    BY <1>4 DEF EmitSorted
  <2>2. plan = "sorted" /\ UNCHANGED planned
    BY <1>4 DEF EmitSorted
  <2>3. \A k \in DOMAIN trace : Before(trace[k], i)
    BY <2>1, <2>2 DEF SortedInv
  <2>4. \A k \in DOMAIN trace : SessionOf(trace[k]) = SessionOf(i) =>
            TurnOf(trace[k]) < TurnOf(i) \/ TurnOf(trace[k]) = TurnOf(i)
    BY <1>0, <2>1, <2>3 DEF Before
  <2> QED
    BY <1>2, <2>1, <2>2, <2>4
<1> QED
  BY <1>1, <1>3, <1>4, Kinds DEF SameOrder, Reads, ordering, NextCohort, NextTurn

OrderInv == TypeInv /\ IndexInv /\ WaveInv /\ SortedInv /\ TurnsInOrder

LEMMA OrderInit == Init => OrderInv
<1> SUFFICES ASSUME Init PROVE OrderInv
  OBVIOUS
<1>1. DOMAIN trace = {} /\ kept = {} /\ wave = {} /\ cohort = {}
  BY DEF Init
<1> QED
  BY <1>1, TypeInit DEF OrderInv, IndexInv, WaveInv, SortedInv, TurnsInOrder

\* A session's turns arrive in their order, however the sessions of a wave
\* and the cohorts are shuffled.
THEOREM TurnsArriveInOrder == Spec => []TurnsInOrder
<1>1. OrderInv /\ [Next]_vars => OrderInv'
  BY TypeStep, IndexStep, WaveStep, SortedStep, TurnsStep DEF OrderInv
<1>2. Spec => []OrderInv
  BY <1>1, OrderInit, PTL DEF Spec
<1> QED
  BY <1>2, PTL DEF OrderInv

----------------------------------------------------------------------------
(* The cohorts. *)

\* Since the first request of an active session, only the sessions of its
\* cohort have sent any.
CohortInv ==
    /\ IsFiniteSet(cohort) /\ Cardinality(cohort) <= CohortSize
    /\ \A k \in DOMAIN trace : SessionOf(trace[k]) \in cohort =>
          \A m \in k .. Len(trace) : SessionOf(trace[m]) \in cohort

LEMMA SessionsFinite ==
  ASSUME workload \in Workloads
  PROVE  IsFiniteSet(SessionsOf(Places))
<1> DEFINE f == [i \in Places |-> SessionOf(i)]
<1>1. IsFiniteSet(Places)
  <2>1. Places = 1..Len(workload) /\ Len(workload) \in Nat
    BY WorkloadFacts
  <2>2. IsFiniteSet(1..Len(workload))
    BY <2>1, FS_Interval
  <2> QED
    BY <2>1, <2>2
<1>2. f \in Surjection(Places, SessionsOf(Places))
  <2>1. f \in [Places -> SessionsOf(Places)]
    BY DEF SessionsOf
  <2>2. \A s \in SessionsOf(Places) : \E i \in Places : f[i] = s
    BY DEF SessionsOf
  <2> QED
    BY <2>1, <2>2, Fun_IsSurj
<1> QED
  BY <1>1, <1>2, FS_Surjection

LEMMA CohortStep == TypeInv /\ WaveInv /\ CohortInv /\ [Next]_vars => CohortInv'
<1> SUFFICES ASSUME TypeInv, WaveInv, CohortInv, [Next]_vars PROVE CohortInv'
  OBVIOUS
<1>0. DOMAIN trace = 1..Len(trace) /\ Len(trace) \in Nat /\ wave \subseteq kept
  BY TraceFacts
<1>1. CASE SameOrder
  BY <1>1 DEF SameOrder, CohortInv, planned, ordering, SessionOf
<1>2. CASE Reads
  BY <1>2, FS_EmptySet DEF Reads, CohortInv
<1>3. CASE EmitSorted
  <2>1. cohort' = {}
    BY <1>3 DEF EmitSorted, TypeInv, BeginInv
  <2> QED
    BY <2>1, FS_EmptySet DEF CohortInv
<1>4. CASE NextCohort
  <2>1. IsFiniteSet(left)
    BY SessionsFinite, FS_Subset DEF TypeInv, TypeOK
  <2>2. cohort' \in Slice /\ UNCHANGED <<planned, trace>>
    BY <1>4 DEF NextCohort
  <2>3. IsFiniteSet(cohort') /\ Cardinality(cohort') <= CohortSize
    <3>1. cohort' \subseteq left /\ (Cardinality(cohort') = CohortSize \/ Cardinality(cohort') < CohortSize)
      BY <2>2 DEF Slice
    <3>2. IsFiniteSet(cohort') /\ Cardinality(cohort') \in Nat
      BY <2>1, <3>1, FS_Subset, FS_CardinalityType
    <3> QED
      BY <3>1, <3>2
  <2>4. \A k \in DOMAIN trace : SessionOf(trace[k]) \notin cohort'
    BY <2>2 DEF Slice, WaveInv
  <2> QED
    BY <2>2, <2>3, <2>4 DEF CohortInv, planned, SessionOf
<1>5. CASE NextTurn
  BY <1>5 DEF NextTurn, CohortInv, planned, SessionOf
<1>6. CASE Emit
  <2>1. PICK i \in wave : trace' = Append(trace, i)
    BY <1>6 DEF Emit
  <2>2. UNCHANGED <<planned, cohort>>
    BY <1>6 DEF Emit
  <2>3. /\ DOMAIN trace' = 1..(Len(trace) + 1) /\ Len(trace') = Len(trace) + 1
        /\ \A k \in DOMAIN trace : trace'[k] = trace[k]
        /\ trace'[Len(trace) + 1] = i
    BY <1>0, <2>1, AppendFacts
  <2>4. SessionOf(i) \in cohort
    BY DEF WaveInv
  <2>5. \A k \in DOMAIN trace' : SessionOf(trace'[k]) \in cohort =>
          \A m \in k .. Len(trace') : SessionOf(trace'[m]) \in cohort
    <3> SUFFICES ASSUME NEW k \in DOMAIN trace', SessionOf(trace'[k]) \in cohort,
                        NEW m \in k .. Len(trace')
                 PROVE  SessionOf(trace'[m]) \in cohort
      OBVIOUS
    <3>1. CASE m = Len(trace) + 1
      BY <2>3, <2>4, <3>1
    <3>2. CASE m # Len(trace) + 1
      <4>1. m \in k .. Len(trace) /\ k \in DOMAIN trace /\ m \in DOMAIN trace
        BY <1>0, <2>3, <3>2
      <4> QED
        BY <2>3, <4>1 DEF CohortInv
    <3> QED
      BY <3>1, <3>2
  <2> QED
    BY <2>2, <2>5 DEF CohortInv, planned, SessionOf
<1> QED
  BY <1>1, <1>2, <1>3, <1>4, <1>5, <1>6, Kinds

LEMMA ActiveStep ==
  TypeInv /\ WaveInv /\ CohortInv /\ CohortInv' /\ CohortStaysActive /\ [Next]_vars
    => CohortStaysActive'
<1> SUFFICES ASSUME TypeInv, WaveInv, CohortInv, CohortInv', CohortStaysActive, [Next]_vars
             PROVE  CohortStaysActive'
  OBVIOUS
<1>0. DOMAIN trace = 1..Len(trace) /\ Len(trace) \in Nat /\ wave \subseteq kept
  BY TraceFacts
<1>1. CASE UNCHANGED <<planned, trace>>
  BY <1>1 DEF CohortStaysActive, planned, SessionOf
<1>2. CASE EmitSorted
  BY <1>2 DEF EmitSorted, CohortStaysActive, planned
<1>3. CASE Emit
  <2>1. PICK i \in wave : trace' = Append(trace, i)
    BY <1>3 DEF Emit
  <2>2. UNCHANGED <<planned, cohort>>
    BY <1>3 DEF Emit
  <2>3. /\ DOMAIN trace' = 1..(Len(trace) + 1) /\ Len(trace') = Len(trace) + 1
        /\ \A k \in DOMAIN trace : trace'[k] = trace[k]
        /\ trace'[Len(trace) + 1] = i
    BY <1>0, <2>1, AppendFacts
  <2>4. SessionOf(i) \in cohort
    BY DEF WaveInv
  <2>5. ASSUME NEW k \in DOMAIN trace', NEW l \in DOMAIN trace', k < l,
               SessionOf(trace'[k]) = SessionOf(trace'[l]), plan # "sorted"
        PROVE  Cardinality({SessionOf(trace'[m]) : m \in k .. l}) <= CohortSize
    <3>1. CASE l \in DOMAIN trace
      <4>1. k \in DOMAIN trace /\ \A m \in k .. l : m \in DOMAIN trace
        BY <1>0, <2>3, <2>5, <3>1
      <4>2. {SessionOf(trace'[m]) : m \in k .. l} = {SessionOf(trace[m]) : m \in k .. l}
        BY <2>3, <4>1
      <4> QED
        BY <2>3, <2>5, <3>1, <4>1, <4>2 DEF CohortStaysActive
    <3>2. CASE l = Len(trace) + 1
      <4>1. \A m \in k .. l : SessionOf(trace'[m]) \in cohort
        BY <2>2, <2>3, <2>4, <2>5, <3>2 DEF CohortInv, SessionOf, planned
      <4>2. {SessionOf(trace'[m]) : m \in k .. l} \in SUBSET cohort
        BY <4>1
      <4>3. /\ IsFiniteSet({SessionOf(trace'[m]) : m \in k .. l})
            /\ Cardinality({SessionOf(trace'[m]) : m \in k .. l}) <= Cardinality(cohort)
        BY <4>2, FS_Subset DEF CohortInv
      <4>4. /\ Cardinality({SessionOf(trace'[m]) : m \in k .. l}) \in Nat
            /\ Cardinality(cohort) \in Nat /\ Cardinality(cohort) <= CohortSize
        BY <4>3, FS_CardinalityType DEF CohortInv
      <4> QED
        BY <4>3, <4>4
    <3> QED
      BY <1>0, <2>3, <3>1, <3>2
  <2> QED
    BY <2>2, <2>5 DEF CohortStaysActive, planned, SessionOf
<1> QED
  BY <1>1, <1>2, <1>3, Kinds DEF SameOrder, Reads, ordering, NextCohort, NextTurn

\* Between two requests of a session there are only requests of as many
\* sessions as a cohort has, whatever their number of turns.
THEOREM CohortsStayTogether == Spec => []CohortStaysActive
<1> DEFINE Inv == OrderInv /\ CohortInv /\ CohortStaysActive
<1>1. Init => Inv
  BY OrderInit, FS_EmptySet DEF Init, CohortInv, CohortStaysActive
<1>2. Inv /\ [Next]_vars => Inv'
  BY TypeStep, IndexStep, WaveStep, SortedStep, TurnsStep, CohortStep, ActiveStep DEF OrderInv
<1>3. Spec => []Inv
  BY <1>1, <1>2, PTL DEF Spec
<1> QED
  BY <1>3, PTL

----------------------------------------------------------------------------
(* That nothing is lost. *)

\* A row that was read is in the index, or a later row has taken its place;
\* an index that was built has read every row.
ReadInv ==
    /\ plan # "sorted" =>
        /\ kept \subseteq Profile
        /\ step # "refused" => \A i \in Profile : i <= read =>
              \/ i \in kept
              \/ \E j \in Profile : i < j /\ SessionOf(i) = SessionOf(j) /\ TurnOf(i) = TurnOf(j)
        /\ step \in {"order", "draw", "cross", "done"} => read = Len(workload)
    /\ plan = "sorted" /\ step # "select" => kept = Places

LEMMA ReadStep == TypeInv /\ ReadInv /\ [Next]_vars => ReadInv'
<1> SUFFICES ASSUME TypeInv, ReadInv, [Next]_vars PROVE ReadInv'
  OBVIOUS
<1>0. /\ Places = 1..Len(workload) /\ Len(workload) \in Nat /\ Profile \subseteq Places
      /\ kept \subseteq Places /\ read \in 0..Len(workload)
  BY WorkloadFacts DEF TypeInv, TypeOK
<1>1. ASSUME UNCHANGED planned
      PROVE  /\ Profile' = Profile /\ Places' = Places
             /\ \A i : SessionOf(i)' = SessionOf(i) /\ TurnOf(i)' = TurnOf(i)
  BY <1>1 DEF planned, Profile, Places, Calibration, InBucket, FirstRow, SessionsOf, SessionOf, TurnOf
<1>2. CASE UNCHANGED <<planned, kept, read>> /\ ((step' = "refused" /\ step # "select") \/ step' = step)
  <2>1. Profile' = Profile /\ Places' = Places /\ workload' = workload /\ plan' = plan
    BY <1>1, <1>2 DEF planned
  <2>2. \A i : SessionOf(i)' = SessionOf(i) /\ TurnOf(i)' = TurnOf(i)
    BY <2>1 DEF SessionOf, TurnOf
  <2>3. CASE step' = step
    BY <1>2, <2>1, <2>2, <2>3 DEF ReadInv
  <2>4. CASE step' = "refused" /\ step # "select"
    BY <1>2, <2>1, <2>2, <2>4 DEF ReadInv
  <2> QED
    BY <1>2, <2>3, <2>4
<1>6. CASE Select
  BY <1>1, <1>6 DEF Select, ReadInv, planned, ordering
<1>7. CASE AllRead
  BY <1>1, <1>7 DEF AllRead, ReadInv, planned, TypeInv, BeginInv
<1>8. CASE UNCHANGED <<planned, kept, read>> /\ step \in {"order", "draw", "cross", "done"}
           /\ step' \in {"order", "draw", "cross", "done"}
  BY <1>1, <1>8 DEF ReadInv, planned
<1>3. CASE KeepAll
  BY <1>1, <1>3 DEF KeepAll, ReadInv, planned
<1>4. CASE ReadRow
  <2>1. read' = read + 1 /\ read + 1 \in Places /\ UNCHANGED planned /\ step' \in {"read", "refused"}
        /\ plan # "sorted" /\ step = "read"
    BY <1>0, <1>4 DEF ReadRow, TypeInv, BeginInv
  <2>2. CASE read + 1 \notin Profile /\ kept' = kept
    <3>1. \A i \in Profile : i <= read + 1 => i <= read
      BY <1>0, <2>2
    <3> QED
      BY <1>1, <2>1, <2>2, <3>1 DEF ReadInv, planned
  <2>3. CASE read + 1 \in Profile /\ kept' = Indexed(read + 1)
    <3>1. kept' \subseteq Profile
      BY <2>1, <2>3 DEF Indexed, ReadInv
    <3>2. ASSUME NEW i \in Profile, i <= read + 1
          PROVE  \/ i \in kept'
                 \/ \E j \in Profile : i < j /\ SessionOf(i) = SessionOf(j) /\ TurnOf(i) = TurnOf(j)
      <4>1. CASE i = read + 1
        BY <2>3, <4>1 DEF Indexed
      <4>2. CASE i # read + 1
        <5>1. i <= read /\ i < read + 1
          BY <1>0, <3>2, <4>2
        <5>2. CASE i \in kept
          BY <2>3, <5>1, <5>2 DEF Indexed
        <5> QED
          BY <2>1, <5>1, <5>2 DEF ReadInv
      <4> QED
        BY <4>1, <4>2
    <3> QED
      BY <1>1, <2>1, <3>1, <3>2 DEF ReadInv, planned
  <2>4. CASE step' = "refused" /\ kept' = kept /\ read + 1 \in Profile
                 /\ workload[read + 1].request \in Seen
    <3> QED
      BY <1>1, <2>1, <2>4 DEF ReadInv, planned
  <2> QED
    BY <1>4, <2>2, <2>3, <2>4 DEF ReadRow
<1>9. CASE NextCohort \/ NextTurn \/ Emit \/ EmitSorted
  BY <1>2, <1>9 DEF NextCohort, NextTurn, Emit, EmitSorted
<1>10. CASE Ordered \/ Draw \/ Cross \/ Arrive
  BY <1>8, <1>10 DEF Ordered, Draw, Cross, Arrive, ordering
<1>11. CASE Finish
  <2>1. step = "draw" /\ step' \in {"refused", "done"} /\ UNCHANGED <<planned, kept, read>>
    BY <1>11 DEF Finish, ordering
  <2> QED
    BY <1>2, <1>8, <2>1
<1>12. CASE UNCHANGED vars
  BY <1>2, <1>12 DEF vars, ordering
<1> QED
  BY <1>3, <1>4, <1>6, <1>7, <1>9, <1>10, <1>11, <1>12 DEF Next

\* What is in the index has been sent, or belongs to the wave, to a turn to
\* come or to a session that no cohort has taken.  Nothing is sent twice.
CoverInv ==
    /\ \A k, l \in DOMAIN trace : trace[k] = trace[l] => k = l
    /\ \A i \in wave : i \notin ToSet(trace)
    /\ step \in {"order", "draw", "cross", "done"} /\ plan # "sorted" =>
        \A i \in kept :
            \/ i \in ToSet(trace) \cup wave
            \/ SessionOf(i) \in cohort /\ TurnOf(i) \in turns
            \/ SessionOf(i) \in left
    /\ step \in {"draw", "cross", "done"} =>
        /\ turns = {} /\ wave = {} /\ left = {}
        /\ plan = "sorted" => kept \subseteq ToSet(trace)

LEMMA CoverStep == TypeInv /\ WaveInv /\ CoverInv /\ [Next]_vars => CoverInv'
<1> SUFFICES ASSUME TypeInv, WaveInv, CoverInv, [Next]_vars PROVE CoverInv'
  OBVIOUS
<1>0. /\ DOMAIN trace = 1..Len(trace) /\ Len(trace) \in Nat
      /\ \A k \in DOMAIN trace : trace[k] \in kept /\ trace[k] \in Places
      /\ \A i \in Places : SessionOf(i) \in Nat /\ TurnOf(i) \in Nat
      /\ kept \subseteq Places /\ wave \subseteq kept
  BY TraceFacts
<1>1. CASE UNCHANGED <<planned, ordering>>
           /\ (step' \in {step, "read", "refused"}
                 \/ (step \in {"draw", "cross"} /\ step' \in {"draw", "cross", "done"}))
  BY <1>1 DEF CoverInv, planned, ordering, SessionOf, TurnOf
<1>2. CASE Select
  BY <1>1, <1>2 DEF Select
<1>3. CASE Draw \/ Cross \/ Arrive
  BY <1>1, <1>3 DEF Draw, Cross, Arrive
<1>4. CASE Finish
  <2>1. step = "draw" /\ step' \in {"refused", "done"} /\ UNCHANGED <<planned, ordering>>
    BY <1>4 DEF Finish
  <2> QED
    BY <1>1, <2>1
<1>5. CASE Ordered
  BY <1>5 DEF Ordered, CoverInv, planned, ordering, SessionOf, TurnOf
<1>6. CASE UNCHANGED vars
  BY <1>1, <1>6 DEF vars
<1>7. CASE KeepAll \/ ReadRow
  <2>1. /\ trace' = <<>> /\ wave' = {} /\ plan' = plan
        /\ (plan = "sorted" \/ step' \in {"read", "refused"}) /\ step' \notin {"draw", "cross", "done"}
    BY <1>7 DEF KeepAll, ReadRow, planned, TypeInv, BeginInv
  <2> QED
    BY <2>1 DEF CoverInv
<1>8. CASE AllRead
  <2>1. /\ trace' = <<>> /\ wave' = {} /\ kept' = kept /\ workload' = workload
        /\ step' = "order" /\ left' = SessionsOf(kept)
    BY <1>8 DEF AllRead, planned, TypeInv, BeginInv
  <2>2. \A i \in kept' : SessionOf(i)' \in left'
    BY <2>1 DEF SessionsOf, SessionOf
  <2> QED
    BY <2>1, <2>2 DEF CoverInv
<1>9. CASE NextCohort
  <2>1. /\ step = "order" /\ turns = {} /\ wave = {} /\ left' = left \ cohort'
        /\ turns' = {TurnOf(i) : i \in {i \in kept : SessionOf(i) \in cohort'}}
        /\ UNCHANGED <<planned, step, kept, wave, trace>>
    BY <1>9 DEF NextCohort
  <2>2. \A i \in kept : plan # "sorted" =>
            \/ i \in ToSet(trace) \cup wave
            \/ SessionOf(i) \in cohort' /\ TurnOf(i) \in turns'
            \/ SessionOf(i) \in left'
    BY <2>1 DEF CoverInv
  <2> QED
    BY <2>1, <2>2 DEF CoverInv, planned, SessionOf, TurnOf
<1>10. CASE NextTurn
  <2>1. PICK t \in turns :
          /\ turns' = turns \ {t}
          /\ wave' = {i \in kept : SessionOf(i) \in cohort /\ TurnOf(i) = t}
    BY <1>10 DEF NextTurn
  <2>2. step = "order" /\ wave = {} /\ UNCHANGED <<planned, step, kept, left, cohort, trace>>
    BY <1>10 DEF NextTurn
  <2>3. \A i \in wave' : i \notin ToSet(trace)
    <3> SUFFICES ASSUME NEW k \in DOMAIN trace, trace[k] \in wave' PROVE FALSE
      BY DEF ToSet
    <3>1. TurnOf(trace[k]) < t
      BY <2>1 DEF WaveInv
    <3> QED
      BY <1>0, <2>1, <3>1
  <2>4. \A i \in kept : plan # "sorted" =>
            \/ i \in ToSet(trace) \cup wave'
            \/ SessionOf(i) \in cohort /\ TurnOf(i) \in turns'
            \/ SessionOf(i) \in left
    BY <2>1, <2>2 DEF CoverInv
  <2> QED
    BY <2>2, <2>3, <2>4 DEF CoverInv, planned, SessionOf, TurnOf
<1>11. ASSUME NEW i \in kept, i \notin ToSet(trace), trace' = Append(trace, i),
              wave' = wave \ {i}, step = "order",
              UNCHANGED <<planned, step, kept, left, cohort, turns>>
       PROVE  CoverInv'
  <2>1. /\ DOMAIN trace' = 1..(Len(trace) + 1)
        /\ \A k \in DOMAIN trace : trace'[k] = trace[k]
        /\ trace'[Len(trace) + 1] = i
        /\ ToSet(trace') = ToSet(trace) \cup {i}
    BY <1>11, AppendFacts
  <2>2. \A k \in DOMAIN trace : trace[k] # i
    BY <1>11 DEF ToSet
  <2>3. \A k, l \in DOMAIN trace' : trace'[k] = trace'[l] => k = l
    <3> SUFFICES ASSUME NEW k \in DOMAIN trace', NEW l \in DOMAIN trace', trace'[k] = trace'[l]
                 PROVE  k = l
      OBVIOUS
    <3>1. \A m \in DOMAIN trace' : m \in DOMAIN trace \/ m = Len(trace) + 1
      BY <1>0, <2>1
    <3> QED
      BY <2>1, <2>2, <3>1 DEF CoverInv
  <2>4. \A j \in wave' : j \notin ToSet(trace')
    BY <1>11, <2>1 DEF CoverInv
  <2>5. \A j \in kept : plan # "sorted" =>
            \/ j \in ToSet(trace') \cup wave'
            \/ SessionOf(j) \in cohort /\ TurnOf(j) \in turns
            \/ SessionOf(j) \in left
    BY <1>11, <2>1 DEF CoverInv
  <2> QED
    BY <1>11, <2>3, <2>4, <2>5 DEF CoverInv, planned, SessionOf, TurnOf
<1>12. CASE Emit
  <2>1. PICK i \in wave : trace' = Append(trace, i) /\ wave' = wave \ {i}
    BY <1>12 DEF Emit
  <2>2. step = "order" /\ UNCHANGED <<planned, step, kept, left, cohort, turns>>
    BY <1>12 DEF Emit
  <2>3. i \in kept /\ i \notin ToSet(trace)
    BY <1>0, <2>1 DEF CoverInv
  <2> QED
    BY <1>11, <2>1, <2>2, <2>3
<1>13. CASE EmitSorted
  <2>1. PICK i \in kept \ ToSet(trace) : trace' = Append(trace, i)
    BY <1>13 DEF EmitSorted
  <2>2. step = "order" /\ UNCHANGED <<planned, step, kept, left, cohort, turns, wave>> /\ wave = {}
    BY <1>13 DEF EmitSorted, TypeInv, BeginInv
  <2> QED
    BY <1>11, <2>1, <2>2
<1> QED
  BY <1>2, <1>3, <1>4, <1>5, <1>6, <1>7, <1>8, <1>9, <1>10, <1>12, <1>13 DEF Next

LEMMA NothingIsLost == TypeInv /\ ReadInv /\ CoverInv => NothingLost
<1> SUFFICES ASSUME TypeInv, ReadInv, CoverInv, step \in {"draw", "cross", "done"},
                    NEW i \in Profile
             PROVE  \/ Arrivals(i) = 1
                    \/ plan # "sorted" /\ Arrivals(i) = 0
                          /\ \E j \in Profile :
                                i < j /\ SessionOf(i) = SessionOf(j) /\ TurnOf(i) = TurnOf(j)
  BY DEF NothingLost
<1>0. /\ Places = 1..Len(workload) /\ Profile \subseteq Places
      /\ \A k \in DOMAIN trace : trace[k] \in kept
  BY WorkloadFacts, TraceFacts DEF TypeInv, TypeOK
<1>1. kept \subseteq ToSet(trace)
  BY DEF CoverInv
<1>2. CASE i \in kept
  <2>1. PICK k \in DOMAIN trace : trace[k] = i
    BY <1>1, <1>2 DEF ToSet
  <2>2. {l \in DOMAIN trace : trace[l] = i} = {k}
    BY <2>1 DEF CoverInv
  <2> QED
    BY <2>2, FS_Singleton DEF Arrivals
<1>3. CASE i \notin kept
  <2>1. {l \in DOMAIN trace : trace[l] = i} = {}
    BY <1>0, <1>3
  <2>2. Arrivals(i) = 0
    BY <2>1, FS_EmptySet DEF Arrivals
  <2>3. plan # "sorted"
    BY <1>0, <1>3 DEF ReadInv
  <2>4. \E j \in Profile : i < j /\ SessionOf(i) = SessionOf(j) /\ TurnOf(i) = TurnOf(j)
    BY <1>0, <1>3, <2>3 DEF ReadInv
  <2> QED
    BY <2>2, <2>3, <2>4
<1> QED
  BY <1>2, <1>3

\* Every request of the profile arrives once, the rows that a later row of the
\* same session and turn replaces excepted.
THEOREM EveryRequestArrives == Spec => []NothingLost
<1> DEFINE Inv == OrderInv /\ ReadInv /\ CoverInv
<1>1. Init => Inv
  <2> SUFFICES ASSUME Init PROVE Inv
    OBVIOUS
  <2>1. DOMAIN trace = {} /\ kept = {} /\ wave = {} /\ read = 0 /\ step = "select"
    BY DEF Init
  <2>2. \A i \in Profile : ~(i <= read)
    BY <2>1, WorkloadFacts DEF Init
  <2> QED
    BY <2>1, <2>2, OrderInit DEF ReadInv, CoverInv
<1>2. Inv /\ [Next]_vars => Inv'
  BY TypeStep, IndexStep, WaveStep, SortedStep, TurnsStep, ReadStep, CoverStep DEF OrderInv
<1>3. Inv => NothingLost
  BY NothingIsLost DEF OrderInv
<1> QED
  BY <1>1, <1>2, <1>3, PTL DEF Spec

----------------------------------------------------------------------------
(* The rate: where a hazard ends. *)

LEMMA ProductOrder ==
  ASSUME NEW d \in Nat, NEW a \in Int, NEW b \in Int
  PROVE  /\ (a + 1) * d = a * d + d
         /\ a <= b => a * d <= b * d
OBVIOUS

LEMMA DivisionIs ==
  ASSUME NEW d \in Nat \ {0}, NEW q \in Nat, NEW r \in 0 .. d - 1
  PROVE  q * d + r \in Nat /\ (q * d + r) \div d = q /\ (q * d + r) % d = r
<1>0. q * d \in Nat
  OBVIOUS
<1> DEFINE t == q * d + r
           p == t \div d
<1>1. t \in Nat
  BY <1>0
<1>2. p \in Nat /\ t % d \in 0 .. d - 1 /\ t = p * d + (t % d)
  BY <1>1
<1> HIDE DEF p, t
<1>3. ~(p < q)
  <2>1. SUFFICES ASSUME p + 1 <= q PROVE FALSE
    BY <1>2
  <2>2. (p + 1) * d <= q * d /\ (p + 1) * d = p * d + d
    BY <1>2, <2>1, ProductOrder
  <2> QED
    BY <1>0, <1>2, <2>2 DEF t
<1>4. ~(q < p)
  <2>1. SUFFICES ASSUME q + 1 <= p PROVE FALSE
    BY <1>2
  <2>2. (q + 1) * d <= p * d /\ (q + 1) * d = q * d + d
    BY <1>2, <2>1, ProductOrder
  <2> QED
    BY <1>0, <1>2, <2>2 DEF t
<1>5. p = q
  BY <1>2, <1>3, <1>4
<1> QED
  BY <1>0, <1>2, <1>5 DEF t, p

LEMMA MultipleDivided ==
  ASSUME NEW d \in Nat \ {0}, NEW a \in Nat
  PROVE  a * d \in Nat /\ (a * d) \div d = a /\ (a * d) % d = 0
<1>1. 0 \in 0 .. d - 1
  OBVIOUS
<1>2. a * d + 0 \in Nat /\ (a * d + 0) \div d = a /\ (a * d + 0) % d = 0
  BY <1>1, DivisionIs, Zenon
<1>3. a * d + 0 = a * d
  OBVIOUS
<1> QED
  BY <1>2, <1>3

\* A segment, its rate, and the hazard before it.
Length == Period * High * Low
PaceOf(q) == IF q % 2 = 0 THEN Low ELSE High
HazardOf(q) == Period * (IF q % 2 = 0 THEN High ELSE Low)
HazardBefore(q) == ((q + 1) \div 2) * (Length \div Low) + (q \div 2) * (Length \div High)

LEMMA SegmentFacts ==
  ASSUME NEW q \in Nat
  PROVE  /\ Length \in Nat \ {0} /\ PaceOf(q) \in Nat \ {0} /\ HazardOf(q) \in Nat \ {0}
         /\ HazardOf(q) * PaceOf(q) = Length
         /\ HazardBefore(q) \in Nat
         /\ HazardBefore(q + 1) = HazardBefore(q) + HazardOf(q)
<1>1. /\ Period * High \in Nat \ {0} /\ Period * Low \in Nat \ {0}
      /\ Length = (Period * High) * Low /\ Length = (Period * Low) * High
  <2>0. Period * High \in Nat \ {0}
    BY PositiveProduct
  <2>1. Period * Low \in Nat \ {0}
    BY PositiveProduct
  <2>2. Length = (Period * High) * Low
    BY DEF Length
  <2>3. (Period * High) * Low = (Period * Low) * High
    OBVIOUS
  <2> QED
    BY <2>0, <2>1, <2>2, <2>3
<1>2. Length \in Nat \ {0}
  BY <1>1, PositiveProduct
<1>3. Length \div Low = Period * High /\ Length \div High = Period * Low
  <2>1. ((Period * High) * Low) \div Low = Period * High
    BY <1>1, MultipleDivided, Zenon
  <2>2. ((Period * Low) * High) \div High = Period * Low
    BY <1>1, MultipleDivided, Zenon
  <2> QED
    BY <1>1, <2>1, <2>2, Zenon
<1> DEFINE x == Period * High
           y == Period * Low
<1>4. x \in Nat \ {0} /\ y \in Nat \ {0} /\ HazardBefore(q) = ((q + 1) \div 2) * x + (q \div 2) * y
      /\ HazardBefore(q + 1) = ((q + 2) \div 2) * x + ((q + 1) \div 2) * y
      /\ HazardOf(q) = (IF q % 2 = 0 THEN x ELSE y)
  <2>1. q + 1 + 1 = q + 2
    OBVIOUS
  <2> QED
    BY <1>1, <1>3, <2>1 DEF HazardBefore, HazardOf
<1> HIDE DEF x, y
<1>5. (q + 1) \div 2 \in Nat /\ q \div 2 \in Nat
  OBVIOUS
<1>6. HazardBefore(q) \in Nat
  <2>1. ((q + 1) \div 2) * x \in Nat /\ (q \div 2) * y \in Nat
    BY <1>4, <1>5
  <2> QED
    BY <1>4, <2>1
<1>7. HazardBefore(q + 1) = HazardBefore(q) + HazardOf(q)
  <2>1. CASE q % 2 = 0
    <3>1. (q + 2) \div 2 = (q + 1) \div 2 + 1 /\ (q + 1) \div 2 = q \div 2
      BY <2>1
    <3>2. ((q + 1) \div 2 + 1) * x = ((q + 1) \div 2) * x + x
      BY <1>4, <1>5, ProductOrder
    <3>3. ((q + 1) \div 2) * x \in Nat /\ (q \div 2) * y \in Nat
      BY <1>4, <1>5
    <3> QED
      BY <1>4, <2>1, <3>1, <3>2, <3>3
  <2>2. CASE q % 2 # 0
    <3>1. (q + 2) \div 2 = (q + 1) \div 2 /\ (q + 1) \div 2 = q \div 2 + 1
      BY <2>2
    <3>2. (q \div 2 + 1) * y = (q \div 2) * y + y
      BY <1>4, <1>5, ProductOrder
    <3>3. ((q + 1) \div 2) * x \in Nat /\ (q \div 2) * y \in Nat
      BY <1>4, <1>5
    <3> QED
      BY <1>4, <2>2, <3>1, <3>2, <3>3
  <2> QED
    BY <2>1, <2>2
<1>8. HazardOf(q) * PaceOf(q) = Length /\ HazardOf(q) \in Nat \ {0} /\ PaceOf(q) \in Nat \ {0}
  BY <1>1 DEF HazardOf, PaceOf
<1> QED
  BY <1>2, <1>6, <1>7, <1>8

LEMMA IntegralAt ==
  ASSUME NEW q \in Nat, NEW c \in Nat, c <= HazardOf(q), plan # "sorted"
  PROVE  Integral(q * Length + c * PaceOf(q)) = HazardBefore(q) + c
<1> DEFINE t == q * Length + c * PaceOf(q)
<1>1. /\ Length \in Nat \ {0} /\ PaceOf(q) \in Nat \ {0} /\ HazardOf(q) \in Nat \ {0}
      /\ HazardOf(q) * PaceOf(q) = Length /\ HazardBefore(q) \in Nat
      /\ HazardBefore(q + 1) = HazardBefore(q) + HazardOf(q)
  BY SegmentFacts
<1>2. ASSUME NEW k \in Nat, NEW n \in Nat, NEW f \in Nat, n = k * Length + f, f < Length
      PROVE  Integral(n) = HazardBefore(k) + f \div PaceOf(k)
  <2>1. n \div Length = k /\ n % Length = f
    <3>1. f \in 0 .. Length - 1
      BY <1>1, <1>2
    <3> QED
      BY <1>1, <1>2, <3>1, DivisionIs, Zenon
  <2>2. Integral(n) = HazardBefore(n \div Length) + (n % Length) \div PaceOf(n \div Length)
    BY Zenon DEF Integral, HazardBefore, Length, PaceOf
  <2> QED
    BY <2>1, <2>2
<1>3. CASE c < HazardOf(q)
  <2>1. (c + 1) * PaceOf(q) <= Length /\ (c + 1) * PaceOf(q) = c * PaceOf(q) + PaceOf(q)
    BY <1>1, <1>3, ProductOrder
  <2>2. c * PaceOf(q) \in Nat
    BY <1>1
  <2>3. c * PaceOf(q) < Length
    BY <1>1, <2>1, <2>2
  <2>4. (c * PaceOf(q)) \div PaceOf(q) = c
    BY <1>1, MultipleDivided, Zenon
  <2>5. q * Length + c * PaceOf(q) \in Nat
    BY <1>1, <2>2
  <2> QED
    BY <1>2, <2>2, <2>3, <2>4, <2>5
<1>4. CASE c = HazardOf(q)
  <2>1. q + 1 \in Nat /\ (q + 1) * Length = q * Length + Length /\ (q + 1) * Length \in Nat
    BY <1>1, ProductOrder
  <2>2. q * Length + c * PaceOf(q) = (q + 1) * Length + 0
    BY <1>1, <1>4, <2>1
  <2>3. Integral((q + 1) * Length + 0) = HazardBefore(q + 1) + 0 \div PaceOf(q + 1)
    BY <1>1, <1>2, <2>1
  <2>4. 0 \div PaceOf(q + 1) = 0
    BY DEF PaceOf
  <2> QED
    BY <1>1, <1>4, <2>2, <2>3, <2>4
<1> QED
  BY <1>1, <1>3, <1>4

LEMMA IntegralSorted ==
  ASSUME NEW c \in Nat, plan = "sorted"
  PROVE  Integral(c * Low) = c
<1>1. (c * Low) \div Low = c
  BY MultipleDivided, Zenon
<1> QED
  BY <1>1 DEF Integral

\* The clock stands where a whole hazard ends.
InSegment(t, q, c) ==
    q \in Nat /\ c \in Nat /\ c < HazardOf(q) /\ t = q * Length + c * PaceOf(q)
OnClock(t) ==
    IF plan = "sorted" THEN \E c \in Nat : t = c * Low
    ELSE \E q, c \in Nat : InSegment(t, q, c)

LEMMA SegmentIs ==
  ASSUME plan # "sorted", NEW q \in Nat, NEW c \in Nat, InSegment(now, q, c)
  PROVE  /\ now \in Nat /\ Segment = q /\ Pace = PaceOf(q)
         /\ SegmentEnd = (q + 1) * Length /\ SegmentEnd \in Nat
         /\ SegmentEnd - now = (HazardOf(q) - c) * PaceOf(q)
         /\ (SegmentEnd - now) \div Pace = HazardOf(q) - c
         /\ HazardOf(q) - c \in Nat
         /\ Integral(now) = HazardBefore(q) + c
<1>1. /\ Length \in Nat \ {0} /\ PaceOf(q) \in Nat \ {0} /\ HazardOf(q) \in Nat \ {0}
      /\ HazardOf(q) * PaceOf(q) = Length
  BY SegmentFacts
<1>2. c < HazardOf(q) /\ now = q * Length + c * PaceOf(q)
  BY DEF InSegment
<1>3. c * PaceOf(q) \in Nat /\ c * PaceOf(q) < Length
  <2>1. (c + 1) * PaceOf(q) <= Length /\ (c + 1) * PaceOf(q) = c * PaceOf(q) + PaceOf(q)
    BY <1>1, <1>2, ProductOrder
  <2>2. c * PaceOf(q) \in Nat
    BY <1>1
  <2> QED
    BY <1>1, <2>1, <2>2
<1>4. now \in Nat /\ now \div Length = q
  <2>1. c * PaceOf(q) \in 0 .. Length - 1
    BY <1>1, <1>3
  <2> QED
    BY <1>1, <1>2, <2>1, DivisionIs, Zenon
<1>5. Segment = q
  BY <1>4 DEF Segment, Length
<1>6. Pace = PaceOf(q) /\ SegmentEnd = (q + 1) * Length
  <2>1. Pace = PaceOf(q)
    BY <1>5 DEF Pace, PaceOf
  <2>2. SegmentEnd = (q + 1) * Length
    BY <1>5 DEF SegmentEnd, Length
  <2> QED
    BY <2>1, <2>2
<1>7. (q + 1) * Length = q * Length + Length /\ q * Length \in Nat
  BY <1>1, ProductOrder
<1> DEFINE w == HazardOf(q) - c
<1>8. w \in Nat
  BY <1>1, <1>2
<1>9. w * PaceOf(q) = HazardOf(q) * PaceOf(q) - c * PaceOf(q)
  BY <1>1, <1>2
<1> HIDE DEF w
<1>10. SegmentEnd - now = w * PaceOf(q) /\ SegmentEnd \in Nat
  BY <1>1, <1>2, <1>3, <1>6, <1>7, <1>9
<1>11. (w * PaceOf(q)) \div PaceOf(q) = w
  BY <1>1, <1>8, MultipleDivided, Zenon
<1>12. Integral(now) = HazardBefore(q) + c
  BY <1>1, <1>2, IntegralAt
<1> QED
  BY <1>4, <1>5, <1>6, <1>8, <1>10, <1>11, <1>12 DEF w

LEMMA IntegralType == ASSUME OnClock(now) PROVE Integral(now) \in Nat
<1>1. CASE plan = "sorted"
  BY <1>1, IntegralSorted DEF OnClock
<1>2. CASE plan # "sorted"
  <2>1. PICK q \in Nat, c \in Nat : InSegment(now, q, c)
    BY <1>2 DEF OnClock
  <2>2. Integral(now) = HazardBefore(q) + c /\ HazardBefore(q) \in Nat
    BY <1>2, <2>1, SegmentIs, SegmentFacts
  <2> QED
    BY <2>2
<1> QED
  BY <1>1, <1>2

\* A hazard that ends in the segment takes its time in it.
LEMMA HazardEnds ==
  ASSUME OnClock(now), now \in Nat, hazard \in Nat, Reached
  PROVE  /\ OnClock(now + hazard * Pace) /\ now <= now + hazard * Pace
         /\ Integral(now + hazard * Pace) = Integral(now) + hazard
<1>1. CASE plan = "sorted"
  <2>1. PICK c \in Nat : now = c * Low
    BY <1>1 DEF OnClock
  <2>2. now + hazard * Pace = (c + hazard) * Low /\ c + hazard \in Nat /\ hazard * Pace \in Nat
    BY <1>1, <2>1 DEF Pace
  <2>3. Integral(c * Low) = c /\ Integral((c + hazard) * Low) = c + hazard
    BY <1>1, <2>2, IntegralSorted
  <2>4. OnClock((c + hazard) * Low)
    BY <1>1, <2>2 DEF OnClock
  <2>5. Integral(now + hazard * Pace) = Integral(now) + hazard /\ OnClock(now + hazard * Pace)
    BY <2>1, <2>2, <2>3, <2>4, Zenon
  <2>6. now <= now + hazard * Pace
    <3> DEFINE h == hazard * Pace
    <3>1. h \in Nat
      BY <2>2
    <3> HIDE DEF h
    <3>2. now <= now + h
      BY <3>1
    <3> QED
      BY <3>2 DEF h
  <2> QED
    BY <2>5, <2>6
<1>2. CASE plan # "sorted"
  <2>1. PICK q \in Nat, c \in Nat : InSegment(now, q, c)
    BY <1>2 DEF OnClock
  <2> DEFINE w == HazardOf(q) - c
  <2>2. /\ Pace = PaceOf(q) /\ w \in Nat /\ SegmentEnd - now = w * PaceOf(q)
        /\ Integral(now) = HazardBefore(q) + c /\ now = q * Length + c * PaceOf(q)
    BY <1>2, <2>1, SegmentIs DEF InSegment
  <2>3. /\ Length \in Nat \ {0} /\ PaceOf(q) \in Nat \ {0} /\ HazardOf(q) \in Nat \ {0}
        /\ HazardOf(q) * PaceOf(q) = Length /\ HazardBefore(q) \in Nat
    BY SegmentFacts
  <2> HIDE DEF w
  <2>4. hazard <= w
    <3>1. SUFFICES ASSUME w + 1 <= hazard PROVE FALSE
      BY <2>2
    <3>2. (w + 1) * PaceOf(q) <= hazard * PaceOf(q) /\ (w + 1) * PaceOf(q) = w * PaceOf(q) + PaceOf(q)
      <4>1. w \in Int /\ w + 1 \in Int /\ hazard \in Int /\ PaceOf(q) \in Nat
        BY <2>2, <2>3
      <4> QED
        BY <3>1, <4>1, ProductOrder, Zenon
    <3>3. hazard * PaceOf(q) <= w * PaceOf(q)
      BY <1>2, <2>2 DEF Reached
    <3>4. w * PaceOf(q) \in Nat /\ hazard * PaceOf(q) \in Nat
      BY <2>2, <2>3
    <3> QED
      BY <2>3, <3>2, <3>3, <3>4
  <2> DEFINE e == c + hazard
  <2>5. e \in Nat /\ e <= HazardOf(q)
    BY <2>3, <2>4, <2>2 DEF w
  <2>6. now + hazard * Pace = q * Length + e * PaceOf(q) /\ hazard * Pace \in Nat
    <3>1. e * PaceOf(q) = c * PaceOf(q) + hazard * PaceOf(q)
      BY <2>3
    <3>2. c * PaceOf(q) \in Nat /\ hazard * PaceOf(q) \in Nat /\ q * Length \in Nat
      BY <2>3
    <3> QED
      BY <2>2, <3>1, <3>2
  <2>7. Integral(q * Length + e * PaceOf(q)) = HazardBefore(q) + e
    BY <1>2, <2>5, IntegralAt
  <2>8. OnClock(q * Length + e * PaceOf(q))
    <3>1. CASE e < HazardOf(q)
      BY <1>2, <2>5, <3>1 DEF OnClock, InSegment
    <3>2. CASE e = HazardOf(q)
      <4>1. q * Length + e * PaceOf(q) = (q + 1) * Length + 0 * PaceOf(q + 1)
        <5>1. (q + 1) * Length = q * Length + Length /\ q * Length \in Nat
          BY <2>3, ProductOrder
        <5>2. 0 * PaceOf(q + 1) = 0
          BY DEF PaceOf
        <5> QED
          BY <2>3, <3>2, <5>1, <5>2
      <4>2. q + 1 \in Nat /\ 0 < HazardOf(q + 1)
        <5>1. q + 1 \in Nat
          OBVIOUS
        <5>2. HazardOf(q + 1) \in Nat \ {0}
          BY <5>1, SegmentFacts, Zenon
        <5> QED
          BY <5>1, <5>2
      <4> QED
        BY <1>2, <4>1, <4>2 DEF OnClock, InSegment
    <3>3. e < HazardOf(q) \/ e = HazardOf(q)
      <4>1. HazardOf(q) \in Nat
        BY <2>3
      <4> HIDE DEF e
      <4> QED
        BY <2>5, <4>1
    <3> QED
      BY <3>1, <3>2, <3>3, Zenon
  <2>9. Integral(now + hazard * Pace) = HazardBefore(q) + e /\ OnClock(now + hazard * Pace)
    BY <2>6, <2>7, <2>8, Zenon
  <2>10. HazardBefore(q) + e = Integral(now) + hazard
    BY <2>2, <2>3
  <2>11. now <= now + hazard * Pace
    <3> DEFINE h == hazard * Pace
    <3>1. h \in Nat
      BY <2>6
    <3> HIDE DEF h
    <3>2. now <= now + h
      BY <3>1
    <3> QED
      BY <3>2 DEF h
  <2> QED
    BY <2>9, <2>10, <2>11, Zenon
<1> QED
  BY <1>1, <1>2

\* A hazard that does not end in the segment loses what the rest of it makes up.
LEMMA HazardGoesOn ==
  ASSUME OnClock(now), ~Reached
  PROVE  /\ OnClock(SegmentEnd) /\ now <= SegmentEnd /\ SegmentEnd \in Nat
         /\ (SegmentEnd - now) \div Pace \in Nat
         /\ Integral(SegmentEnd) = Integral(now) + (SegmentEnd - now) \div Pace
<1>1. plan # "sorted"
  BY DEF Reached
<1>2. PICK q \in Nat, c \in Nat : InSegment(now, q, c)
  BY <1>1 DEF OnClock
<1> DEFINE w == HazardOf(q) - c
<1>3. /\ now \in Nat /\ SegmentEnd = (q + 1) * Length /\ SegmentEnd \in Nat
      /\ w \in Nat /\ SegmentEnd - now = w * PaceOf(q) /\ (SegmentEnd - now) \div Pace = w
      /\ Integral(now) = HazardBefore(q) + c
  BY <1>1, <1>2, SegmentIs
<1>4. /\ PaceOf(q) \in Nat \ {0} /\ HazardOf(q) \in Nat \ {0} /\ HazardBefore(q) \in Nat
      /\ HazardBefore(q + 1) = HazardBefore(q) + HazardOf(q)
  BY SegmentFacts
<1>5. q + 1 \in Nat /\ HazardOf(q + 1) \in Nat \ {0} /\ PaceOf(q + 1) \in Nat \ {0} /\ Length \in Nat \ {0}
  BY SegmentFacts
<1>6. SegmentEnd = (q + 1) * Length + 0 * PaceOf(q + 1)
  BY <1>3, <1>5
<1>7. OnClock(SegmentEnd)
  BY <1>1, <1>5, <1>6 DEF OnClock, InSegment
<1>8. Integral(SegmentEnd) = HazardBefore(q + 1) + 0
  BY <1>1, <1>5, <1>6, IntegralAt
<1>9. Integral(SegmentEnd) = Integral(now) + w
  BY <1>3, <1>4, <1>8
<1>10. now <= SegmentEnd
  <2> HIDE DEF w
  <2>1. w * PaceOf(q) \in Nat
    BY <1>3, <1>4
  <2> QED
    BY <1>3, <2>1
<1> QED
  BY <1>3, <1>7, <1>9, <1>10

----------------------------------------------------------------------------
(* The arrivals. *)

HIDE ArrivalAssumption

RateInv ==
    /\ OnClock(now)
    /\ Integral(now) + hazard = Drawn
    /\ step # "cross" => hazard = 0
    /\ Len(drawn) = Len(offsets) + (IF step = "cross" THEN 1 ELSE 0)
    /\ \A k \in DOMAIN offsets : offsets[k] <= now
    /\ ArrivalsFollowRate

\* What a step leaves of it, if the clock and the draws stay as they are.
LEMMA RateStays ==
  ASSUME RateInv, UNCHANGED <<plan, timing>>, step # "cross", step' # "cross"
  PROVE  RateInv'
<1>1. now' = now /\ hazard' = hazard /\ drawn' = drawn /\ offsets' = offsets /\ plan' = plan
  BY DEF timing
<1>2. \A t : Integral(t)' = Integral(t) /\ OnClock(t)' = OnClock(t)
  BY <1>1 DEF Integral, OnClock, InSegment
<1> QED
  BY <1>1, <1>2 DEF RateInv, Drawn, ArrivalsFollowRate

LEMMA RateInit == Init => RateInv
<1> SUFFICES ASSUME Init PROVE RateInv
  OBVIOUS
<1>1. now = 0 /\ hazard = 0 /\ drawn = <<>> /\ offsets = <<>> /\ step = "select"
  BY DEF Init
<1>2. OnClock(0) /\ Integral(0) = 0
  <2>1. CASE plan = "sorted"
    <3>1. 0 * Low = 0
      BY ArrivalAssumption
    <3> QED
      BY <2>1, <3>1, IntegralSorted DEF OnClock
  <2>2. CASE plan # "sorted"
    <3>1. HazardOf(0) \in Nat \ {0} /\ PaceOf(0) \in Nat \ {0} /\ Length \in Nat \ {0}
      BY SegmentFacts
    <3>2. 0 * Length + 0 * PaceOf(0) = 0
      BY <3>1
    <3>3. InSegment(0, 0, 0)
      BY <3>1, <3>2 DEF InSegment
    <3>4. HazardBefore(0) = 0
      <4>1. (0 + 1) \div 2 = 0 /\ 0 \div 2 = 0 /\ Length \div Low \in Nat /\ Length \div High \in Nat
        BY <3>1, ArrivalAssumption
      <4> QED
        BY <4>1 DEF HazardBefore
    <3>5. Integral(0 * Length + 0 * PaceOf(0)) = HazardBefore(0) + 0
      <4>1. 0 \in Nat /\ 0 <= HazardOf(0)
        BY <3>1
      <4> QED
        BY <2>2, <4>1, IntegralAt, Zenon
    <3> QED
      BY <2>2, <3>2, <3>3, <3>4, <3>5 DEF OnClock
  <2> QED
    BY <2>1, <2>2
<1> QED
  BY <1>1, <1>2 DEF RateInv, Drawn, ArrivalsFollowRate

LEMMA RateStep == TypeInv /\ RateInv /\ [Next]_vars => RateInv'
<1> SUFFICES ASSUME TypeInv, RateInv, [Next]_vars PROVE RateInv'
  OBVIOUS
<1>1. now \in Nat /\ hazard \in Nat /\ drawn \in Seq(Nat) /\ offsets \in Seq(Nat)
  BY DEF TypeInv, TypeOK
<1>2. CASE UNCHANGED <<plan, timing>> /\ step # "cross" /\ step' # "cross"
  BY <1>2, RateStays
<1>3. CASE UNCHANGED vars
  <2>1. /\ now' = now /\ hazard' = hazard /\ drawn' = drawn /\ offsets' = offsets
        /\ plan' = plan /\ step' = step
    BY <1>3 DEF vars, timing, planned
  <2>2. \A t : Integral(t)' = Integral(t) /\ OnClock(t)' = OnClock(t)
    BY <2>1 DEF Integral, OnClock, InSegment
  <2> QED
    BY <2>1, <2>2 DEF RateInv, Drawn, ArrivalsFollowRate
<1>4. CASE Draw
  <2>1. /\ hazard' \in Nat /\ drawn' = Append(drawn, Drawn + hazard') /\ step = "draw" /\ step' = "cross"
        /\ plan' = plan /\ now' = now /\ offsets' = offsets
    BY <1>4, ArrivalAssumption DEF Draw, planned
  <2>2. Drawn \in Nat
    BY <1>1, DrawnType
  <2>3. /\ drawn' \in Seq(Nat) /\ Len(drawn') = Len(drawn) + 1 /\ drawn'[Len(drawn) + 1] = Drawn + hazard'
        /\ \A k \in 1 .. Len(drawn) : drawn'[k] = drawn[k]
    <3> DEFINE x == Drawn + hazard'
    <3>1. hazard' \in Nat
      BY <2>1
    <3>2. x \in Nat
      <4>1. \A h \in Nat : Drawn + h \in Nat
        BY <2>2
      <4> QED
        BY <3>1, <4>1
    <3>3. drawn' = Append(drawn, x)
      BY <2>1
    <3> HIDE DEF x
    <3>4. /\ drawn' \in Seq(Nat) /\ Len(drawn') = Len(drawn) + 1 /\ drawn'[Len(drawn) + 1] = x
          /\ \A k \in 1 .. Len(drawn) : drawn'[k] = drawn[k]
      BY <1>1, <3>2, <3>3, AppendProperties
    <3> QED
      BY <3>4 DEF x
  <2>4. \A t : Integral(t)' = Integral(t) /\ OnClock(t)' = OnClock(t)
    BY <2>1 DEF Integral, OnClock, InSegment
  <2>5. Drawn' = Drawn + hazard'
    BY <1>1, <2>3 DEF Drawn, Last
  <2>6. Integral(now) = Drawn /\ Len(drawn) = Len(offsets)
    <3>1. Integral(now) + 0 = Drawn /\ Len(drawn) = Len(offsets) + 0
      BY <2>1 DEF RateInv
    <3>2. OnClock(now)
      BY DEF RateInv
    <3>3. Integral(now) \in Nat
      BY <1>1, <3>2, IntegralType
    <3> QED
      BY <1>1, <3>1, <3>3
  <2>7. ArrivalsFollowRate'
    BY <1>1, <2>1, <2>3, <2>4, <2>6 DEF RateInv, ArrivalsFollowRate
  <2> QED
    BY <1>1, <2>1, <2>3, <2>4, <2>5, <2>6, <2>7 DEF RateInv
<1>5. CASE Cross
  <2> DEFINE gone == (SegmentEnd - now) \div Pace
  <2>1. /\ ~Reached /\ hazard' = hazard - gone /\ now' = SegmentEnd
        /\ step = "cross" /\ step' = "cross" /\ plan' = plan /\ drawn' = drawn /\ offsets' = offsets
    BY <1>5 DEF Cross, planned
  <2>2. OnClock(now)
    BY DEF RateInv
  <2>3. /\ OnClock(SegmentEnd) /\ now <= SegmentEnd /\ SegmentEnd \in Nat /\ gone \in Nat
        /\ Integral(SegmentEnd) = Integral(now) + gone
    BY <2>1, <2>2, HazardGoesOn
  <2> HIDE DEF gone
  <2>4. Integral(SegmentEnd) + (hazard - gone) = Integral(now) + hazard
    <3>1. Integral(now) \in Nat
      BY <2>2, IntegralType
    <3> QED
      BY <1>1, <2>3, <3>1
  <2>5. \A t : Integral(t)' = Integral(t') /\ OnClock(t)' = OnClock(t')
    BY <2>1 DEF Integral, OnClock, InSegment
  <2>6. \A k \in DOMAIN offsets' : offsets'[k] <= now' /\ offsets'[k] \in Nat
    BY <1>1, <2>1, <2>3 DEF RateInv
  <2>7. ArrivalsFollowRate'
    BY <2>1 DEF RateInv, ArrivalsFollowRate, Integral
  <2>8. Integral(now)' = Integral(SegmentEnd) /\ OnClock(now)'
    BY <2>1, <2>3, <2>5
  <2> QED
    BY <2>1, <2>4, <2>6, <2>7, <2>8 DEF RateInv, Drawn
<1>6. CASE Arrive
  <2> DEFINE t == now + hazard * Pace
  <2>1. /\ Reached /\ now' = t /\ offsets' = Append(offsets, t) /\ hazard' = 0
        /\ step = "cross" /\ step' = "draw" /\ plan' = plan /\ drawn' = drawn
    BY <1>6 DEF Arrive, planned
  <2>2. OnClock(t) /\ now <= t /\ Integral(t) = Integral(now) + hazard
    BY <1>1, <2>1, HazardEnds DEF RateInv
  <2>3. t \in Nat
    <3>1. Pace \in Nat
      BY <1>1, ClockFacts
    <3>2. hazard * Pace \in Nat
      BY <1>1, <3>1
    <3> QED
      BY <1>1, <3>2
  <2> HIDE DEF t
  <2>4. /\ offsets' \in Seq(Nat) /\ Len(offsets') = Len(offsets) + 1 /\ offsets'[Len(offsets) + 1] = t
        /\ \A k \in 1 .. Len(offsets) : offsets'[k] = offsets[k]
    BY <1>1, <2>1, <2>3, AppendProperties
  <2>5. Integral(t) = Drawn /\ Len(drawn) = Len(offsets) + 1
    BY <2>1, <2>2 DEF RateInv
  <2>6. Drawn = drawn[Len(drawn)] /\ Drawn \in Nat
    <3>1. drawn # <<>>
      BY <1>1, <2>5
    <3> QED
      BY <1>1, <3>1, DrawnType
  <2>7. \A k \in DOMAIN offsets' : offsets'[k] <= t
    <3>1. \A k \in 1 .. Len(offsets) : offsets[k] <= now /\ offsets[k] \in Nat
      BY <1>1 DEF RateInv
    <3>2. \A k \in 1 .. Len(offsets) : offsets[k] <= t
      BY <1>1, <2>2, <2>3, <3>1
    <3>3. \A k \in DOMAIN offsets' : k \in 1 .. Len(offsets) \/ k = Len(offsets) + 1
      BY <1>1, <2>4
    <3> QED
      BY <2>3, <2>4, <3>2, <3>3
  <2>8. \A n : Integral(n)' = Integral(n') /\ OnClock(n)' = OnClock(n')
    BY <2>1 DEF Integral, OnClock, InSegment
  <2>9. ArrivalsFollowRate'
    <3>1. ASSUME NEW k \in 1 .. Len(offsets) + 1
          PROVE  /\ Integral(offsets'[k]) = drawn[k]
                 /\ k > 1 => offsets'[k - 1] <= offsets'[k]
      <4>1. CASE k \in 1 .. Len(offsets)
        <5>1. k > 1 => k - 1 \in 1 .. Len(offsets)
          BY <4>1
        <5>2. Integral(offsets[k]) = drawn[k] /\ (k > 1 => offsets[k - 1] <= offsets[k])
          <6>1. k \in DOMAIN offsets
            BY <1>1, <4>1
          <6>2. ArrivalsFollowRate
            BY DEF RateInv
          <6> QED
            BY <6>1, <6>2, Zenon DEF ArrivalsFollowRate
        <5> QED
          BY <2>4, <4>1, <5>1, <5>2
      <4>2. CASE k = Len(offsets) + 1
        <5>1. Integral(offsets'[k]) = drawn[k]
          BY <2>4, <2>5, <2>6, <4>2
        <5>2. k > 1 => k - 1 \in DOMAIN offsets'
          BY <1>1, <2>4, <4>2
        <5> QED
          BY <2>4, <2>7, <4>2, <5>1, <5>2
      <4> QED
        BY <1>1, <4>1, <4>2
    <3>2. \A n : Integral(n)' = Integral(n')
      BY <2>8
    <3>3. DOMAIN offsets' = 1 .. Len(offsets) + 1
      BY <1>1, <2>4
    <3> QED
      BY <2>1, <3>1, <3>3 DEF ArrivalsFollowRate, Integral
  <2>10. Integral(now)' + hazard' = Drawn'
    <3>1. Integral(now)' = Integral(t) /\ Drawn' = Drawn
      BY <2>1, <2>8 DEF Drawn
    <3> QED
      BY <2>1, <2>5, <2>6, <3>1
  <2>11. OnClock(now)'
    BY <2>1, <2>2, <2>8
  <2>12. Len(drawn') = Len(offsets') + 0
    BY <1>1, <2>1, <2>4, <2>5
  <2> QED
    BY <2>1, <2>7, <2>9, <2>10, <2>11, <2>12 DEF RateInv
<1>7. ASSUME Select \/ KeepAll \/ ReadRow \/ AllRead \/ NextCohort \/ NextTurn \/ Emit \/ EmitSorted
             \/ Ordered \/ Finish
      PROVE  UNCHANGED <<plan, timing>> /\ step # "cross" /\ step' # "cross"
  BY <1>7 DEF Select, KeepAll, ReadRow, AllRead, NextCohort, NextTurn, Emit, EmitSorted, Ordered,
              Finish, planned
<1> QED
  BY <1>2, <1>3, <1>4, <1>5, <1>6, <1>7 DEF Next

\* The arrivals are a process of the alternating rate, for every period, every
\* pair of rates and all draws, also where a hazard ends at a boundary or spans
\* several segments (_piecewise_offsets); those of the older program are one of
\* the constant rate.
THEOREM ArrivalsAreOfTheRate == Spec => []ArrivalsFollowRate
<1>1. Spec => [](TypeInv /\ RateInv)
  BY TypeInit, TypeStep, RateInit, RateStep, PTL DEF Spec
<1>2. TypeInv /\ RateInv => ArrivalsFollowRate
  BY DEF RateInv
<1> QED
  BY <1>1, <1>2, PTL

----------------------------------------------------------------------------
(* The simulation of a trace. *)

LEMMA RowForType ==
  ASSUME workload \in Workloads, NEW i \in Places
  PROVE  /\ RowFor(i) \in Rows
         /\ \E j \in Places : RowFor(i) = workload[j] /\ workload[j].request = workload[i].request
<1> DEFINE T == {j \in Places : workload[j].request = workload[i].request}
<1>1. Places = 1 .. Len(workload) /\ Len(workload) \in Nat /\ workload \in Seq(Rows)
  BY WorkloadFacts, ArrivalAssumption
<1>2. T \subseteq 1 .. Len(workload) /\ T # {}
  BY <1>1
<1>3. Max(T) = CHOOSE x \in T : \A y \in T : x >= y
  BY DEF Max
<1>4. \E x \in T : \A y \in T : x >= y
  <2> HIDE DEF T
  <2>1. PICK x \in T : \A y \in T : y <= x
    BY <1>1, <1>2, NatMax
  <2>2. \A y \in T : y <= x => x >= y
    BY <1>1, <1>2
  <2> QED
    BY <2>1, <2>2
<1>5. Max(T) \in T
  <2> HIDE DEF T
  <2> QED
    BY <1>3, <1>4
<1>6. RowFor(i) = workload[Max(T)]
  BY DEF RowFor
<1>7. workload[Max(T)] \in Rows
  BY <1>1, <1>5
<1> QED
  BY <1>5, <1>6, <1>7

LEMMA UseOfType ==
  ASSUME workload \in Workloads, NEW i \in Places
  PROVE  UseOf(i) \in Uses
BY RowForType DEF UseOf, Uses, Rows

LEMMA ScreenIsSpec == ScreenSpec => Spec
<1>1. ScreenInit => Init
  BY DEF ScreenInit
<1>2. [ScreenNext]_screenVars => [Next]_vars
  BY DEF ScreenNext, Generate, Screen, screenVars, vars
<1> QED
  BY <1>1, <1>2, PTL DEF ScreenSpec, Spec

LEMMA LRUInvInit == ScreenInit => LRUInv
<1> SUFFICES ASSUME ScreenInit PROVE LRUInv
  OBVIOUS
<1>1. cache = <<>> /\ log = <<>> /\ used = 0 /\ hits = 0 /\ reuses = 0 /\ seen = {}
  BY DEF ScreenInit, LRUInit
<1>2. log \in Seq(Uses) /\ cache \in Seq(Uses) /\ Len(log) = 0 /\ Len(cache) = 0 /\ DOMAIN log = {} /\ 1 .. 0 = {}
  BY <1>1
<1>3. Mirrors(cache, <<>>, log, 0)
  <2>1. <<>> \in [1 .. 0 -> 1 .. 0]
    BY <1>2
  <2> QED
    BY <1>2, <2>1 DEF Mirrors
<1>4. Complete(<<>>, 0, log, 0, 0)
  BY <1>2 DEF Complete
<1>5. Holds(cache, log)
  BY <1>2, <1>3, <1>4 DEF Holds
<1>6. Tokens(cache) = 0
  <2>1. Sizes(cache) \in Seq(Nat) /\ Len(Sizes(cache)) = 0
    BY <1>2, SizesType
  <2> QED
    BY <1>2, <2>1, SumsFacts DEF Tokens
<1>7. Sessions(log) = {} /\ HitsOf(log) = {} /\ ReusesOf(log) = {}
  BY <1>2 DEF Sessions, HitsOf, ReusesOf
<1> QED
  BY <1>1, <1>2, <1>5, <1>6, <1>7, FS_EmptySet DEF LRUInv

LEMMA LRUInvStep == TypeOK /\ LRUInv /\ [ScreenNext]_screenVars => LRUInv'
<1> SUFFICES ASSUME TypeOK, LRUInv, [ScreenNext]_screenVars PROVE LRUInv'
  OBVIOUS
<1>1. CASE UNCHANGED simulated
  BY <1>1 DEF simulated, LRUInv, Sessions, Tokens
<1>2. CASE Screen
  <2> DEFINE i == trace[Len(log) + 1]
  <2>1. i \in Places /\ workload \in Workloads
    <3>1. trace \in Seq(Places) /\ Len(log) \in Nat /\ Len(log) < Len(trace) /\ workload \in Workloads
      BY <1>2 DEF TypeOK, Screen, LRUInv
    <3> QED
      BY <3>1
  <2> HIDE DEF i
  <2>2. UseOf(i) \in Uses
    BY <2>1, UseOfType
  <2>3. Use(UseOf(i))
    BY <1>2 DEF Screen, i
  <2> QED
    BY <2>2, <2>3, UseHolds
<1> QED
  BY <1>1, <1>2 DEF ScreenNext, Generate, screenVars

LEMMA LRUInvSimulates == LRUInv => SimulatesLRU
<1> SUFFICES ASSUME LRUInv PROVE SimulatesLRU
  OBVIOUS
<1>1. log \in Seq(Uses) /\ cache \in Seq(Uses) /\ Holds(cache, log) /\ DOMAIN log = 1 .. Len(log)
  BY DEF LRUInv
<1>2. \A s, j : Resident(s, j) <=> HeldIn(log, s, j)
  BY DEF Resident, HeldIn
<1>3. Sessions(cache) = {s \in seen : Resident(s, Len(log))} /\ Cardinality(Sessions(cache)) = Len(cache)
  <2>1. /\ \A s : s \in Sessions(cache) <=> HeldIn(log, s, Len(log))
        /\ Sessions(cache) \subseteq seen
        /\ Cardinality(Sessions(cache)) = Len(cache)
    BY <1>1, HeldAreCached DEF LRUInv
  <2> QED
    BY <1>2, <2>1
<1>4. {i \in DOMAIN log : Resident(log[i].session, i - 1)} = HitsOf(log)
  BY <1>1, <1>2 DEF HitsOf
<1>5. {i \in DOMAIN log : \E k \in 1 .. i - 1 : log[k].session = log[i].session} = ReusesOf(log)
  BY <1>1 DEF ReusesOf
<1> QED
  BY <1>3, <1>4, <1>5 DEF SimulatesLRU, LRUInv

\* For every trace, every capacity and all sizes, the simulation holds and
\* counts what an ideal LRU cache of sessions would.
THEOREM SimulationIsLRU == ScreenSpec => []SimulatesLRU
<1>1. ScreenSpec => []TypeOK
  BY ScreenIsSpec, ArrivalTypeCorrect, PTL
<1>2. ScreenSpec => []LRUInv
  BY <1>1, LRUInvInit, LRUInvStep, PTL DEF ScreenSpec
<1> QED
  BY <1>2, LRUInvSimulates, PTL

----------------------------------------------------------------------------
(* The cohorts and the cache. *)

\* A sorted trace has the sessions one after the other.
RunsInv ==
    plan = "sorted" =>
        \A k, l \in DOMAIN trace : k <= l => SessionOf(trace[k]) <= SessionOf(trace[l])

LEMMA RunsStep == TypeInv /\ SortedInv /\ RunsInv /\ [Next]_vars => RunsInv'
<1> SUFFICES ASSUME TypeInv, SortedInv, RunsInv, [Next]_vars PROVE RunsInv'
  OBVIOUS
<1>0. /\ DOMAIN trace = 1..Len(trace) /\ Len(trace) \in Nat
      /\ \A k \in DOMAIN trace : trace[k] \in Places
      /\ \A i \in Places : SessionOf(i) \in Nat
      /\ kept \subseteq Places
  BY TraceFacts
<1>1. CASE SameOrder
  BY <1>1 DEF SameOrder, RunsInv, planned, ordering, SessionOf
<1>2. CASE Reads
  BY <1>2 DEF Reads, RunsInv
<1>3. CASE EmitSorted
  <2>1. PICK i \in kept \ ToSet(trace) : trace' = Append(trace, i)
    BY <1>3 DEF EmitSorted
  <2>2. UNCHANGED planned /\ plan = "sorted"
    BY <1>3 DEF EmitSorted
  <2>3. /\ DOMAIN trace' = 1..(Len(trace) + 1)
        /\ \A k \in DOMAIN trace : trace'[k] = trace[k]
        /\ trace'[Len(trace) + 1] = i
    BY <2>1, AppendFacts
  <2>4. ASSUME NEW k \in DOMAIN trace' , NEW l \in DOMAIN trace', k <= l
        PROVE  SessionOf(trace'[k]) <= SessionOf(trace'[l])
    <3>1. CASE l \in DOMAIN trace
      <4>1. k \in DOMAIN trace
        BY <1>0, <2>3, <2>4, <3>1
      <4> QED
        BY <2>2, <2>3, <2>4, <3>1, <4>1 DEF RunsInv
    <3>2. CASE l = Len(trace) + 1
      <4>1. CASE k \in DOMAIN trace
        <5>1. Before(trace[k], i)
          BY <2>1, <2>2, <4>1 DEF SortedInv
        <5>2. SessionOf(trace[k]) <= SessionOf(i)
          <6>1. SessionOf(trace[k]) \in Nat /\ SessionOf(i) \in Nat
            BY <1>0, <2>1, <4>1
          <6> QED
            BY <5>1, <6>1 DEF Before
        <5> QED
          BY <2>3, <3>2, <4>1, <5>2
      <4>2. CASE k = Len(trace) + 1
        <5>1. SessionOf(i) \in Nat
          BY <1>0, <2>1
        <5> QED
          BY <2>3, <3>2, <4>2, <5>1
      <4> QED
        BY <1>0, <2>3, <4>1, <4>2
    <3> QED
      BY <1>0, <2>3, <3>1, <3>2
  <2> QED
    BY <2>2, <2>4 DEF RunsInv, planned, SessionOf
<1>4. CASE plan # "sorted" /\ (NextCohort \/ NextTurn \/ Emit)
  BY <1>4 DEF RunsInv, NextCohort, NextTurn, Emit, planned
<1> QED
  BY <1>1, <1>2, <1>3, <1>4, Kinds

\* What is simulated is the trace.
LogInv ==
    /\ log # <<>> => step = "done"
    /\ Len(log) <= Len(trace)
    /\ \A i \in 1 .. Len(log) : log[i] = UseOf(trace[i])

LEMMA LogStep == TypeOK /\ LRUInv /\ LogInv /\ [ScreenNext]_screenVars => LogInv'
<1> SUFFICES ASSUME TypeOK, LRUInv, LogInv, [ScreenNext]_screenVars PROVE LogInv'
  OBVIOUS
<1>0. log \in Seq(Uses) /\ Len(log) \in Nat /\ Len(trace) \in Nat /\ trace \in Seq(Places)
  BY DEF LRUInv, TypeOK
<1>1. CASE UNCHANGED screenVars
  BY <1>1 DEF screenVars, simulated, vars, planned, ordering, LogInv, UseOf, RowFor, Places
<1>2. CASE Generate
  <2>1. step # "done" /\ UNCHANGED log
    BY <1>2 DEF Generate, simulated, Next, Select, KeepAll, ReadRow, AllRead, NextCohort, NextTurn, Emit,
                EmitSorted, Ordered, Draw, Cross, Arrive, Finish
  <2>2. log = <<>> /\ log' = <<>>
    BY <2>1 DEF LogInv
  <2>3. Len(trace') \in Nat
    <3>1. trace' = trace \/ \E i \in kept : trace' = Append(trace, i)
      <4>1. CASE Emit
        <5>1. PICK i \in wave : trace' = Append(trace, i)
          BY <4>1 DEF Emit
        <5> QED
          BY <5>1 DEF TypeOK
      <4>2. CASE ~Emit
        BY <1>2, <4>2 DEF Generate, Next, Select, KeepAll, ReadRow, AllRead, NextCohort, NextTurn,
                EmitSorted, Ordered, Draw, Cross, Arrive, Finish, ordering
      <4> QED
        BY <4>1, <4>2
    <3>2. trace \in Seq(kept)
      BY DEF TypeOK
    <3> QED
      BY <1>0, <3>1, <3>2
  <2> QED
    BY <2>2, <2>3 DEF LogInv
<1>3. CASE Screen
  <2>1. /\ step = "done" /\ Len(log) < Len(trace) /\ UNCHANGED vars
        /\ log' = Append(log, UseOf(trace[Len(log) + 1]))
    BY <1>3 DEF Screen, Use
  <2>2. /\ Len(log') = Len(log) + 1
        /\ \A i \in 1 .. Len(log) : log'[i] = log[i]
        /\ log'[Len(log) + 1] = UseOf(trace[Len(log) + 1])
    <3>1. trace[Len(log) + 1] \in Places /\ workload \in Workloads
      BY <1>0, <2>1 DEF TypeOK
    <3>2. UseOf(trace[Len(log) + 1]) \in Uses
      BY <3>1, UseOfType
    <3> QED
      BY <1>0, <2>1, <3>2
  <2>3. ASSUME NEW i \in 1 .. Len(log') PROVE log'[i] = UseOf(trace[i])
    <3>1. i \in 1 .. Len(log) \/ i = Len(log) + 1
      BY <1>0, <2>2
    <3> QED
      BY <2>2, <3>1 DEF LogInv
  <2>4. \A i : UseOf(i)' = UseOf(i')
    BY <2>1 DEF UseOf, RowFor, Places, vars, planned
  <2>5. trace' = trace /\ step' = step
    BY <2>1 DEF vars, ordering
  <2> QED
    BY <1>0, <2>1, <2>2, <2>3, <2>4, <2>5 DEF LogInv
<1> QED
  BY <1>1, <1>2, <1>3 DEF ScreenNext

\* From a request of a session to the next there are only requests of as many
\* sessions as are active at once.
LEMMA WindowIsActive ==
  ASSUME TypeInv, RunsInv, CohortStaysActive,
         NEW k \in DOMAIN trace, NEW l \in DOMAIN trace, k < l, SessionOf(trace[k]) = SessionOf(trace[l])
  PROVE  /\ Cardinality({SessionOf(trace[m]) : m \in k .. l}) <= Active
         /\ Active \in Nat
<1> DEFINE W == {SessionOf(trace[m]) : m \in k .. l}
<1>0. /\ DOMAIN trace = 1..Len(trace) /\ Len(trace) \in Nat
      /\ \A m \in DOMAIN trace : SessionOf(trace[m]) \in Nat
  BY TraceFacts
<1>1. CASE plan = "sorted"
  <2>1. ASSUME NEW m \in k .. l PROVE SessionOf(trace[m]) = SessionOf(trace[k])
    <3>1. m \in DOMAIN trace /\ k <= m /\ m <= l
      BY <1>0
    <3>2. SessionOf(trace[k]) <= SessionOf(trace[m]) /\ SessionOf(trace[m]) <= SessionOf(trace[l])
      BY <1>1, <3>1 DEF RunsInv
    <3> DEFINE a == SessionOf(trace[k])
               b == SessionOf(trace[m])
    <3>3. a \in Nat /\ b \in Nat /\ a <= b /\ b <= a
      BY <1>0, <3>1, <3>2
    <3> HIDE DEF a, b
    <3>4. a = b
      BY <3>3
    <3> QED
      BY <3>4 DEF a, b
  <2>2. k \in k .. l
    BY <1>0
  <2>3. W = {SessionOf(trace[k])}
    BY <2>1, <2>2
  <2>4. Cardinality(W) = 1
    BY <2>3, FS_Singleton
  <2> QED
    BY <1>1, <2>4 DEF Active
<1>2. CASE plan # "sorted"
  <2>1. Cardinality(W) <= CohortSize
    BY <1>2 DEF CohortStaysActive
  <2> QED
    BY <1>2, <2>1, ArrivalAssumption DEF Active
<1> QED
  BY <1>1, <1>2

\* The sum of one size more.
LEMMA SumOneMore ==
  ASSUME NEW n \in Nat, NEW v \in Seq(Nat), NEW w \in Seq(Nat), Len(v) = n, Len(w) = n + 1,
         \A i \in 1 .. n : w[i] = v[i]
  PROVE  Sums(w)[n + 1] = Sums(v)[n] + w[n + 1] /\ Sums(v)[n] \in Nat
<1> DEFINE s == Sums(v)
           t == Sums(w)
<1>1. s[0] = 0 /\ (\A i \in 0 .. n - 1 : s[i + 1] = s[i] + v[i + 1]) /\ \A i \in 0 .. n : s[i] \in Nat
  BY SumsFacts
<1>2. \A i \in 0 .. (n + 1) - 1 : t[i + 1] = t[i] + w[i + 1]
  BY SumsFacts
<1>3. \A i \in 0 .. n : t[i] = s[i]
  <2>1. \A i \in 0 .. n - 1 : s[i + 1] = s[i] + w[i + 1]
    <3>1. \A i \in 0 .. n - 1 : i + 1 \in 1 .. n
      OBVIOUS
    <3> QED
      BY <1>1, <3>1
  <2>2. n \in 0 .. Len(w)
    OBVIOUS
  <2> HIDE DEF s
  <2> QED
    BY <1>1, <2>1, <2>2, SumsAre
<1>4. n \in 0 .. (n + 1) - 1 /\ n \in 0 .. n
  OBVIOUS
<1> HIDE DEF s, t
<1>5. t[n + 1] = s[n] + w[n + 1] /\ s[n] \in Nat
  BY <1>1, <1>2, <1>3, <1>4
<1> QED
  BY <1>5 DEF s, t

\* Different sessions, each of which was last used from i on.
LastUsed(C, n, uses, i, j) ==
    /\ \A a, b \in 1 .. n : C[a] = C[b] => a = b
    /\ \A a \in 1 .. n : \E p \in i .. j : uses[p].session = C[a] /\ ~Again(uses, p, j)

BoundedBy(uses, i, j, B, big) ==
    \E n \in Nat : \E C \in [1 .. n -> B] :
        /\ LastUsed(C, n, uses, i, j)
        /\ Footprint(uses, i, j) <= Sums([a \in 1 .. n |-> big[C[a]]])[n]

\* A footprint is at most what the sessions that it is of take at their largest.
LEMMA FootprintBound ==
  ASSUME NEW uses \in Seq(Uses), NEW j \in 0 .. Len(uses), NEW B, NEW big \in [B -> Nat],
         \A p \in 1 .. j : uses[p].session \in B /\ uses[p].size <= big[uses[p].session],
         NEW i \in 1 .. j + 1
  PROVE  BoundedBy(uses, i, j, B, big)
<1> DEFINE Bounded(m) == BoundedBy(uses, m, j, B, big)
           w == LastSizes(uses, j)
           s == Sums(w)
           T == {d \in Nat : d <= j => Bounded(j + 1 - d)}
<1>0. /\ w \in Seq(Nat) /\ Len(w) = j /\ j \in Nat
      /\ \A k \in 1 .. j : w[k] = IF Again(uses, k, j) THEN 0 ELSE uses[k].size
      /\ \A k \in 1 .. j : uses[k].size \in Nat
  <2>1. \A k \in 1 .. j : uses[k] \in Uses
    OBVIOUS
  <2>2. \A k \in 1 .. j : uses[k].size \in Nat
    BY <2>1 DEF Uses
  <2>3. j \in Nat
    OBVIOUS
  <2> QED
    BY <2>2, <2>3, LastSizesType
<1>1. /\ \A k \in 0 .. j - 1 : s[k + 1] = s[k] + w[k + 1]
      /\ \A k \in 0 .. j : s[k] \in Nat
  <2> HIDE DEF w
  <2> QED
    BY <1>0, SumsFacts
<1>2. \A m : Footprint(uses, m, j) = s[j] - s[m - 1]
  BY DEF Footprint
<1> HIDE DEF w, s
<1>3. ASSUME NEW m \in 1 .. j
      PROVE  /\ Footprint(uses, m, j) = Footprint(uses, m + 1, j) + w[m]
             /\ Footprint(uses, m + 1, j) \in Nat
  <2>1. m - 1 \in 0 .. j - 1 /\ (m - 1) + 1 = m /\ m - 1 \in 0 .. j /\ m \in 0 .. j /\ j \in 0 .. j /\ (m + 1) - 1 = m
        /\ m + 1 \in 1 .. j + 1
    OBVIOUS
  <2>2. s[m] = s[m - 1] + w[m] /\ s[m - 1] \in Nat /\ s[m] \in Nat /\ s[j] \in Nat
    BY <1>1, <2>1
  <2>3. Footprint(uses, m, j) = s[j] - s[m - 1] /\ Footprint(uses, m + 1, j) = s[j] - s[m]
    BY <1>2, <2>1
  <2>4. w[m] \in Nat
    BY <1>0
  <2>5. Footprint(uses, m + 1, j) \in Nat
    BY <2>1, FootprintOrder
  <2> QED
    BY <2>2, <2>3, <2>4, <2>5
<1>4. 0 \in T
  <2>1. Footprint(uses, j + 1, j) = 0
    <3>1. (j + 1) - 1 = j /\ s[j] \in Nat
      BY <1>0, <1>1
    <3>2. Footprint(uses, j + 1, j) = s[j] - s[j]
      BY <1>2, <3>1
    <3> QED
      BY <3>1, <3>2
  <2>2. <<>> \in [1 .. 0 -> B] /\ LastUsed(<<>>, 0, uses, j + 1, j)
    BY DEF LastUsed
  <2>3. Sums([a \in 1 .. 0 |-> big[<<>>[a]]])[0] = 0
    <3> DEFINE v == [a \in 1 .. 0 |-> big[<<>>[a]]]
    <3>1. v \in Seq(Nat)
      OBVIOUS
    <3> HIDE DEF v
    <3>2. Sums(v)[0] = 0
      BY <3>1, SumsFacts
    <3> QED
      BY <3>2 DEF v
  <2>4. Bounded(j + 1)
    <3>1. 0 <= Sums([a \in 1 .. 0 |-> big[<<>>[a]]])[0]
      BY <2>3
    <3>2. 0 \in Nat
      OBVIOUS
    <3> QED
      BY <2>1, <2>2, <3>1, <3>2 DEF BoundedBy
  <2>5. (j + 1) - 0 = j + 1
    BY <1>0
  <2> HIDE DEF Bounded
  <2> QED
    BY <2>4, <2>5
<1>5. ASSUME NEW d \in Nat, d \in T PROVE d + 1 \in T
  <2> SUFFICES ASSUME d + 1 <= j PROVE Bounded(j + 1 - (d + 1))
    <3> HIDE DEF Bounded
    <3> QED
      OBVIOUS
  <2> DEFINE m == j + 1 - (d + 1)
  <2>1. m \in 1 .. j /\ j + 1 - d = m + 1
    BY <1>0
  <2>2. Bounded(m + 1)
    <3> HIDE DEF Bounded
    <3> QED
      BY <1>5, <1>0, <2>1
  <2> HIDE DEF m
  <2>0. PICK n \in Nat : \E C \in [1 .. n -> B] :
            /\ LastUsed(C, n, uses, m + 1, j)
            /\ Footprint(uses, m + 1, j) <= Sums([a \in 1 .. n |-> big[C[a]]])[n]
    BY <2>2 DEF BoundedBy
  <2>3. PICK C \in [1 .. n -> B] :
            /\ LastUsed(C, n, uses, m + 1, j)
            /\ Footprint(uses, m + 1, j) <= Sums([a \in 1 .. n |-> big[C[a]]])[n]
    BY <2>0
  <2>4. \A p \in m + 1 .. j : p \in m .. j /\ p \in 1 .. j
    BY <1>0, <2>1
  <2>5. CASE Again(uses, m, j)
    <3>1. Footprint(uses, m, j) = Footprint(uses, m + 1, j)
      <4>1. w[m] = 0
        BY <1>0, <2>1, <2>5
      <4> QED
        BY <1>3, <2>1, <4>1
    <3>2. LastUsed(C, n, uses, m, j)
      BY <2>3, <2>4 DEF LastUsed
    <3>3. Bounded(m)
      BY <2>3, <3>1, <3>2 DEF BoundedBy
    <3> QED
      BY <3>3 DEF m
  <2>6. CASE ~Again(uses, m, j)
    <3> DEFINE x == uses[m].session
               D == [a \in 1 .. n + 1 |-> IF a <= n THEN C[a] ELSE x]
               v == [a \in 1 .. n |-> big[C[a]]]
               u == [a \in 1 .. n + 1 |-> big[D[a]]]
    <3>1. x \in B /\ big[x] \in Nat /\ uses[m].size <= big[x] /\ uses[m].size \in Nat
      BY <1>0, <2>1
    <3>2. D \in [1 .. n + 1 -> B] /\ D[n + 1] = x /\ \A a \in 1 .. n : D[a] = C[a]
      BY <3>1
    <3>3. ASSUME NEW a \in 1 .. n PROVE C[a] # x
      <4>1. PICK p \in m + 1 .. j : uses[p].session = C[a]
        BY <2>3 DEF LastUsed
      <4> QED
        BY <2>6, <4>1 DEF Again
    <3>4. \A a \in 1 .. n + 1 : a \in 1 .. n \/ a = n + 1
      OBVIOUS
    <3>5. m \in m .. j
      BY <1>0, <2>1
    <3> HIDE DEF D, x
    <3>6. LastUsed(D, n + 1, uses, m, j)
      <4>1. ASSUME NEW a \in 1 .. n + 1, NEW b \in 1 .. n + 1, D[a] = D[b] PROVE a = b
        BY <2>3, <3>2, <3>3, <3>4, <4>1 DEF LastUsed
      <4>2. ASSUME NEW a \in 1 .. n + 1 PROVE \E p \in m .. j : uses[p].session = D[a] /\ ~Again(uses, p, j)
        <5>1. CASE a \in 1 .. n
          <6>1. PICK p \in m + 1 .. j : uses[p].session = C[a] /\ ~Again(uses, p, j)
            BY <2>3, <5>1 DEF LastUsed
          <6> QED
            BY <2>4, <3>2, <5>1, <6>1
        <5>2. CASE a = n + 1
          BY <2>6, <3>2, <3>5, <5>2 DEF x
        <5> QED
          BY <3>4, <5>1, <5>2
      <4> QED
        BY <4>1, <4>2 DEF LastUsed
    <3>7. /\ v \in Seq(Nat) /\ Len(v) = n /\ u \in Seq(Nat) /\ Len(u) = n + 1
          /\ u[n + 1] = big[x] /\ \A a \in 1 .. n : u[a] = v[a]
      BY <3>2
    <3>8. Sums(u)[n + 1] = Sums(v)[n] + big[x] /\ Sums(v)[n] \in Nat
      <4> HIDE DEF u, v
      <4>1. Sums(u)[n + 1] = Sums(v)[n] + u[n + 1] /\ Sums(v)[n] \in Nat
        BY <3>7, SumOneMore
      <4> QED
        BY <3>7, <4>1
    <3>9. Footprint(uses, m, j) <= Sums(u)[n + 1]
      <4>1. w[m] = uses[m].size
        BY <1>0, <2>1, <2>6
      <4>2. Footprint(uses, m, j) = Footprint(uses, m + 1, j) + uses[m].size /\ Footprint(uses, m + 1, j) \in Nat
        BY <1>3, <2>1, <4>1
      <4>3. Footprint(uses, m + 1, j) <= Sums(v)[n]
        BY <2>3
      <4> HIDE DEF u, v
      <4> QED
        BY <3>1, <3>8, <4>2, <4>3
    <3>10. n + 1 \in Nat
      OBVIOUS
    <3>11. Bounded(m)
      <4> HIDE DEF v
      <4> QED
        BY <3>2, <3>6, <3>9, <3>10 DEF BoundedBy
    <3> QED
      BY <3>11 DEF m
  <2> QED
    BY <2>5, <2>6
<1> HIDE DEF T, Bounded
<1>6. Nat \subseteq T
  BY <1>4, <1>5, NatInd
<1>7. j + 1 - i \in Nat /\ j + 1 - i <= j /\ j + 1 - (j + 1 - i) = i
  BY <1>0
<1>8. Bounded(j + 1 - (j + 1 - i))
  <2>1. j + 1 - i \in T
    BY <1>6, <1>7
  <2>2. j + 1 - i <= j
    BY <1>7
  <2> QED
    BY <2>1, <2>2 DEF T
<1> QED
  BY <1>7, <1>8 DEF Bounded

\* One of several numbers is the largest.
LEMMA NatBest ==
  ASSUME NEW n \in Nat, n # 0, NEW f \in [1 .. n -> Nat]
  PROVE  \E k \in 1 .. n : \A i \in 1 .. n : f[i] <= f[k]
<1> DEFINE Best(m) == \E k \in 1 .. m : \A i \in 1 .. m : f[i] <= f[k]
           T == {d \in Nat : d < n => Best(d + 1)}
<1>1. 0 \in T
  <2>1. f[1] \in Nat /\ 1 \in 1 .. 1 /\ \A i \in 1 .. 1 : i = 1
    OBVIOUS
  <2>2. Best(1)
    BY <2>1
  <2> QED
    BY <2>2
<1>2. ASSUME NEW d \in Nat, d \in T PROVE d + 1 \in T
  <2> SUFFICES ASSUME d + 1 < n PROVE Best((d + 1) + 1)
    <3> HIDE DEF Best
    <3> QED
      OBVIOUS
  <2>1. PICK k \in 1 .. d + 1 : \A i \in 1 .. d + 1 : f[i] <= f[k]
    BY <1>2
  <2> DEFINE m == (d + 1) + 1
  <2>2. m \in 1 .. m /\ k \in 1 .. m /\ f[m] \in Nat /\ f[k] \in Nat
        /\ \A i \in 1 .. m : i \in 1 .. d + 1 \/ i = m
    OBVIOUS
  <2>3. \A i \in 1 .. d + 1 : f[i] \in Nat
    OBVIOUS
  <2> HIDE DEF m
  <2>4. CASE f[m] <= f[k]
    BY <2>1, <2>2, <2>4 DEF m
  <2>5. CASE ~(f[m] <= f[k])
    <3>1. ASSUME NEW i \in 1 .. m PROVE f[i] <= f[m]
      <4>1. CASE i = m
        BY <2>2, <4>1
      <4>2. CASE i \in 1 .. d + 1
        <5>1. f[i] <= f[k] /\ f[i] \in Nat
          BY <2>1, <2>3, <4>2
        <5> QED
          BY <2>2, <2>5, <5>1
      <4> QED
        BY <2>2, <4>1, <4>2
    <3> QED
      BY <2>2, <3>1 DEF m
  <2> QED
    BY <2>4, <2>5
<1> HIDE DEF T, Best
<1>3. n - 1 \in T
  <2>1. Nat \subseteq T
    BY <1>1, <1>2, NatInd
  <2> QED
    BY <2>1
<1>4. n - 1 < n /\ (n - 1) + 1 = n
  OBVIOUS
<1>5. Best((n - 1) + 1)
  BY <1>3, <1>4 DEF T
<1> QED
  BY <1>4, <1>5 DEF Best

LEMMA LargestIs ==
  ASSUME workload \in Workloads, NEW i \in Places
  PROVE  /\ Largest(SessionOf(i)) \in Nat
         /\ workload[i].tokens <= Largest(SessionOf(i))
<1> DEFINE s == SessionOf(i)
           T == {workload[j].tokens : j \in {j \in Places : SessionOf(j) = s}}
           f == [j \in Places |-> IF SessionOf(j) = s THEN workload[j].tokens + 1 ELSE 0]
<1>1. Places = 1 .. Len(workload) /\ Len(workload) \in Nat /\ Len(workload) # 0
      /\ \A j \in Places : workload[j].tokens \in Nat
  <2>1. workload \in Seq(Rows) /\ Places = 1 .. Len(workload) /\ Len(workload) \in Nat
    BY WorkloadFacts, ArrivalAssumption
  <2>2. \A j \in Places : workload[j] \in Rows
    BY <2>1
  <2>3. Len(workload) # 0
    BY <2>1
  <2> QED
    BY <2>1, <2>2, <2>3 DEF Rows
<1>2. f \in [1 .. Len(workload) -> Nat]
  BY <1>1
<1>3. PICK k \in 1 .. Len(workload) : \A j \in 1 .. Len(workload) : f[j] <= f[k]
  <2> HIDE DEF f
  <2> QED
    BY <1>1, <1>2, NatBest
<1>4. k \in Places /\ SessionOf(k) = s
  <2>1. f[i] = workload[i].tokens + 1 /\ f[i] <= f[k]
    BY <1>1, <1>3
  <2>2. SessionOf(k) # s => f[k] = 0
    BY <1>1
  <2> QED
    BY <1>1, <2>1, <2>2
<1>5. ASSUME NEW j \in Places, SessionOf(j) = s PROVE workload[j].tokens <= workload[k].tokens
  <2>1. f[j] = workload[j].tokens + 1 /\ f[k] = workload[k].tokens + 1 /\ f[j] <= f[k]
    BY <1>1, <1>3, <1>4, <1>5
  <2>2. workload[j].tokens \in Nat /\ workload[k].tokens \in Nat
    BY <1>1, <1>4
  <2> HIDE DEF f
  <2> QED
    BY <2>1, <2>2
<1>6. T \subseteq Nat /\ workload[k].tokens \in T /\ \A y \in T : y <= workload[k].tokens
  BY <1>1, <1>4, <1>5
<1>7. Largest(s) = CHOOSE x \in T : \A y \in T : x >= y
  BY DEF Largest, Max
<1>8. workload[i].tokens \in T
  OBVIOUS
<1> HIDE DEF T
<1>9. \E x \in T : \A y \in T : x >= y
  <2>1. \A y \in T : workload[k].tokens >= y
    BY <1>6
  <2> QED
    BY <1>6, <2>1
<1>10. Largest(s) \in T /\ \A y \in T : Largest(s) >= y
  BY <1>7, <1>9
<1> QED
  BY <1>6, <1>8, <1>10

LEMMA LogFacts ==
  ASSUME TypeInv, LRUInv, LogInv, RequestsOfOneSession
  PROVE  /\ \A k \in 1 .. Len(log) :
              /\ k \in DOMAIN trace
              /\ log[k].session = SessionOf(trace[k]) /\ log[k].session \in SessionsOf(Places)
              /\ log[k].size <= Largest(log[k].session)
         /\ [s \in SessionsOf(Places) |-> Largest(s)] \in [SessionsOf(Places) -> Nat]
<1>1. /\ workload \in Workloads /\ Len(log) \in Nat /\ Len(log) <= Len(trace)
      /\ DOMAIN trace = 1 .. Len(trace) /\ Len(trace) \in Nat
      /\ \A k \in DOMAIN trace : trace[k] \in Places
  BY TraceFacts DEF TypeInv, TypeOK, LRUInv, LogInv
<1>2. ASSUME NEW k \in 1 .. Len(log)
      PROVE  /\ k \in DOMAIN trace
             /\ log[k].session = SessionOf(trace[k]) /\ log[k].session \in SessionsOf(Places)
             /\ log[k].size <= Largest(log[k].session)
  <2>1. k \in DOMAIN trace /\ trace[k] \in Places
    BY <1>1
  <2>2. log[k] = UseOf(trace[k])
    BY DEF LogInv
  <2>3. PICK j \in Places : RowFor(trace[k]) = workload[j] /\ workload[j].request = workload[trace[k]].request
    BY <1>1, <2>1, RowForType
  <2>4. log[k].session = SessionOf(j) /\ log[k].size = workload[j].tokens
    BY <2>2, <2>3 DEF UseOf, SessionOf
  <2>5. SessionOf(j) = SessionOf(trace[k])
    BY <2>1, <2>3 DEF RequestsOfOneSession
  <2>6. workload[j].tokens <= Largest(SessionOf(j))
    BY <1>1, LargestIs
  <2> QED
    BY <2>1, <2>4, <2>5, <2>6 DEF SessionsOf
<1>3. ASSUME NEW s \in SessionsOf(Places) PROVE Largest(s) \in Nat
  BY <1>1, LargestIs DEF SessionsOf
<1> QED
  BY <1>2, <1>3

LEMMA ReuseIsHit ==
  ASSUME TypeInv, RunsInv, CohortStaysActive, LRUInv, LogInv, RequestsOfOneSession, CohortsFit,
         NEW l \in 1 .. Len(log), NEW i \in l + 1 .. Len(log), log[l].session = log[i].session
  PROVE  Stays(log, l, i - 1)
<1> DEFINE B == SessionsOf(Places)
           big == [s \in B |-> Largest(s)]
           W == {SessionOf(trace[m]) : m \in l .. i}
<1>1. log \in Seq(Uses) /\ Len(log) \in Nat /\ i \in 1 .. Len(log) /\ l < i
  BY DEF LRUInv
<1>2. /\ \A k \in 1 .. Len(log) :
            /\ k \in DOMAIN trace
            /\ log[k].session = SessionOf(trace[k]) /\ log[k].session \in B
            /\ log[k].size <= Largest(log[k].session)
      /\ big \in [B -> Nat]
  BY LogFacts
<1>3. Cardinality(W) <= Active /\ Active \in Nat
  BY <1>1, <1>2, WindowIsActive
<1>4. \A k \in 1 .. Len(log) : log[k].session \in B /\ log[k].size <= big[log[k].session]
  BY <1>2
<1>5. IsFiniteSet(W)
  <2>1. W \subseteq B
    <3>1. \A m \in l .. i : m \in 1 .. Len(log)
      BY <1>1
    <3> QED
      BY <1>2, <3>1
  <2>2. IsFiniteSet(B)
    BY SessionsFinite, WorkloadFacts DEF TypeInv, TypeOK
  <2> QED
    BY <2>1, <2>2, FS_Subset
<1> SUFFICES ASSUME NEW j \in l .. i - 1 PROVE Footprint(log, l, j) <= Capacity
  BY DEF Stays
<1>6. j \in 0 .. Len(log) /\ l \in 1 .. j + 1 /\ (\A p \in 1 .. j : p \in 1 .. Len(log)) /\ \A p \in l .. j : p \in l .. i
      /\ p \in 1 .. Len(log)
  BY <1>1
<1>7. PICK n \in Nat : \E C \in [1 .. n -> B] :
          /\ LastUsed(C, n, log, l, j)
          /\ Footprint(log, l, j) <= Sums([a \in 1 .. n |-> big[C[a]]])[n]
  <2>1. \A p \in 1 .. j : log[p].session \in B /\ log[p].size <= big[log[p].session]
    BY <1>4, <1>6
  <2>2. log \in Seq(Uses) /\ j \in 0 .. Len(log) /\ l \in 1 .. j + 1 /\ big \in [B -> Nat]
    BY <1>1, <1>2, <1>6
  <2>3. BoundedBy(log, l, j, B, big)
    <3> HIDE DEF big, B
    <3> QED
      BY <2>1, <2>2, FootprintBound
  <2> QED
    BY <2>3 DEF BoundedBy
<1>8. PICK C \in [1 .. n -> B] :
          /\ LastUsed(C, n, log, l, j)
          /\ Footprint(log, l, j) <= Sums([a \in 1 .. n |-> big[C[a]]])[n]
  BY <1>7
<1> DEFINE D == {C[a] : a \in 1 .. n}
<1>9. C \in Injection(1 .. n, B) /\ C \in Bijection(1 .. n, D)
  <2>1. \A a, b \in 1 .. n : C[a] = C[b] => a = b
    BY <1>8 DEF LastUsed
  <2>2. C \in [1 .. n -> D] /\ \A d \in D : \E a \in 1 .. n : C[a] = d
    OBVIOUS
  <2> HIDE DEF D
  <2> QED
    BY <2>1, <2>2 DEF Injection, Bijection, Surjection, IsInjective
<1>10. n <= Active
  <2>1. Cardinality(D) = n
    <3> HIDE DEF D
    <3> QED
      BY <1>9, FS_CountingElements DEF ExistsBijection
  <2>2. D \subseteq W
    <3>1. ASSUME NEW a \in 1 .. n PROVE C[a] \in W
      <4>1. PICK p \in l .. j : log[p].session = C[a]
        BY <1>8 DEF LastUsed
      <4>2. p \in l .. i /\ log[p].session = SessionOf(trace[p])
        BY <1>2, <1>6
      <4> QED
        BY <4>1, <4>2
    <3> QED
      BY <3>1
  <2>3. Cardinality(D) <= Cardinality(W) /\ Cardinality(W) \in Nat
    <3> HIDE DEF D, W
    <3> QED
      BY <1>5, <2>2, FS_Subset, FS_CardinalityType
  <2> QED
    BY <1>3, <2>1, <2>3
<1>11. n \in 0 .. Active
  BY <1>3, <1>10
<1> DEFINE v == [k \in 1 .. n |-> Largest(C[k])]
<1>12. Sums(v)[n] <= Capacity
  BY <1>9, <1>11 DEF CohortsFit
<1>13. v = [a \in 1 .. n |-> big[C[a]]] /\ v \in Seq(Nat) /\ Len(v) = n
  <2>1. \A a \in 1 .. n : big[C[a]] = Largest(C[a]) /\ big[C[a]] \in Nat
    BY <1>2
  <2> HIDE DEF big
  <2> QED
    BY <2>1
<1> HIDE DEF v, big
<1>14. Sums(v)[n] \in Nat
  BY <1>13, SumsFacts
<1>15. Footprint(log, l, j) <= Sums(v)[n]
  BY <1>8, <1>13
<1>16. Footprint(log, l, j) \in Nat
  BY <1>1, <1>6, FootprintOrder
<1> QED
  BY <1>12, <1>14, <1>15, <1>16, WorkingSetAssumption

LEMMA ReusesAreHits ==
  TypeInv /\ RunsInv /\ CohortStaysActive /\ LRUInv /\ LogInv => CohortsHit
<1> SUFFICES ASSUME TypeInv, RunsInv, CohortStaysActive, LRUInv, LogInv, RequestsOfOneSession, CohortsFit
             PROVE  HitsOf(log) = ReusesOf(log)
  BY DEF CohortsHit, LRUInv
<1>1. Len(log) \in Nat
  BY DEF LRUInv
<1>2. ASSUME NEW i \in 1 .. Len(log), NEW k \in 1 .. i - 1, log[k].session = log[i].session
      PROVE  HeldIn(log, log[i].session, i - 1)
  <2>1. i - 1 \in Nat
    BY <1>1
  <2>2. PICK l \in k .. i - 1 : log[l].session = log[k].session /\ ~Again(log, l, i - 1)
    BY <2>1, LastUseExists
  <2>3. l \in 1 .. Len(log) /\ i \in l + 1 .. Len(log) /\ l \in 1 .. i - 1
    BY <1>1
  <2>4. Stays(log, l, i - 1)
    BY <1>2, <2>2, <2>3, ReuseIsHit
  <2> QED
    BY <1>2, <2>2, <2>3, <2>4 DEF HeldIn
<1>3. ASSUME NEW i \in 1 .. Len(log), HeldIn(log, log[i].session, i - 1)
      PROVE  \E k \in 1 .. i - 1 : log[k].session = log[i].session
  BY <1>3 DEF HeldIn
<1> QED
  BY <1>2, <1>3 DEF HitsOf, ReusesOf

\* Every reuse is a hit if as many sessions as are active at once fit in their
\* largest sizes: for every size of the cohorts, every shuffle and any turns.
THEOREM CohortsAlwaysHit == ScreenSpec => []CohortsHit
<1> DEFINE Inv == OrderInv /\ RunsInv
<1>1. Init => Inv
  BY OrderInit DEF Init, RunsInv
<1>2. Inv /\ [Next]_vars => Inv'
  BY TypeStep, IndexStep, WaveStep, SortedStep, TurnsStep, RunsStep DEF OrderInv
<1>3. Spec => []Inv
  BY <1>1, <1>2, PTL DEF Spec
<1>4. ScreenSpec => []LRUInv
  BY ScreenIsSpec, ArrivalTypeCorrect, LRUInvInit, LRUInvStep, PTL DEF ScreenSpec
<1>5. ScreenInit => LogInv
  BY DEF ScreenInit, Init, LRUInit, LogInv
<1>6. ScreenSpec => []LogInv
  BY <1>4, <1>5, ScreenIsSpec, ArrivalTypeCorrect, LogStep, PTL DEF ScreenSpec
<1>7. Inv => TypeInv /\ RunsInv
  BY DEF OrderInv
<1> QED
  BY <1>3, <1>4, <1>6, <1>7, ScreenIsSpec, CohortsStayTogether, ReusesAreHits, PTL
=============================================================================
