--------------------------- MODULE WifiScanProofs ---------------------------
(***************************************************************************)
(* Theorems about WifiScan, for any threads, results, retries, commands    *)
(* and faults.                                                             *)
(***************************************************************************)
EXTENDS WifiScan, WellFoundedInduction, FunctionTheorems, TLAPS

-----------------------------------------------------------------------------
(* Induction, from the well-foundedness of < on the numbers: every set of  *)
(* numbers has a least one, and what the stages of a loop keep, its end    *)
(* has.                                                                    *)

\* A set of numbers has a least one.
LEMMA LeastNumber ==
  ASSUME NEW S \in SUBSET Nat, S # {}
  PROVE  \E m \in S : \A n \in S : m <= n
<1> DEFINE R == OpToRel(<, Nat)
<1>1. IsWellFoundedOn(R, Nat)
  BY NatLessThanWellFounded
<1>2. \A m, n \in Nat : <<m, n>> \in R <=> m < n
  BY DEF OpToRel
<1> HIDE DEF R
<1>3. \E m \in S : \A n \in S : ~ (<<n, m>> \in R)
  BY <1>1, WFMin
<1>4. PICK m \in S : \A n \in S : ~ (<<n, m>> \in R)
  BY <1>3
<1>5. \A n \in S : m \in Nat /\ n \in Nat /\ ~(n < m)
  BY <1>2, <1>4
<1> QED
  BY <1>5

\* A set that has 0 and every successor has every number.
LEMMA SetInduction ==
  ASSUME NEW S, 0 \in S, \A n \in Nat : n \in S => n + 1 \in S
  PROVE  Nat \subseteq S
<1> SUFFICES ASSUME Nat \ S # {} PROVE FALSE
  OBVIOUS
<1>1. PICK m \in Nat \ S : \A n \in Nat \ S : m <= n
  BY LeastNumber
<1>2. m # 0 /\ m - 1 \in Nat /\ m - 1 + 1 = m
  BY <1>1
<1>3. m - 1 \in S
  BY <1>1, <1>2
<1> QED
  BY <1>1, <1>2, <1>3

\* The same for the numbers that a loop runs through.
LEMMA LoopInduction ==
  ASSUME NEW m \in Nat, NEW n \in Nat, NEW S, m \in S,
         \A j \in m + 1 .. n : j - 1 \in S => j \in S
  PROVE  m .. n \subseteq S
<1> DEFINE K == {k \in Nat : m + k <= n => m + k \in S}
<1>1. 0 \in K
  OBVIOUS
<1>2. ASSUME NEW k \in Nat, k \in K PROVE k + 1 \in K
  <2> SUFFICES ASSUME m + k + 1 <= n PROVE m + (k + 1) \in S
    OBVIOUS
  <2>1. m + k \in S
    BY <1>2
  <2>2. m + k + 1 \in m + 1 .. n /\ (m + k + 1) - 1 = m + k /\ m + k + 1 = m + (k + 1)
    OBVIOUS
  <2> QED BY <2>1, <2>2
<1>3. Nat \subseteq K
  <2> HIDE DEF K
  <2> QED BY <1>1, <1>2, SetInduction
<1> SUFFICES ASSUME NEW j \in m .. n PROVE j \in S
  OBVIOUS
<1>4. j - m \in Nat /\ m + (j - m) = j /\ j <= n
  OBVIOUS
<1> QED BY <1>3, <1>4

\* f runs from c through the steps of D, one for each index of a loop.
Runs(f, m, n, c, D) == f[m] = c /\ \A j \in m + 1 .. n : f[j] = D[<<f[j - 1], j>>]

\* There is such an f, so that a function that is defined by such steps has
\* its stages.
LEMMA Stages ==
  ASSUME NEW m \in Nat, NEW n \in Nat, m <= n, NEW S, NEW c \in S,
         NEW D \in [S \X (m + 1 .. n) -> S]
  PROVE  \E f \in [m .. n -> S] : Runs(f, m, n, c, D)
<1> DEFINE Begun(k) == \E f \in [m .. m + k -> S] :
                 f[m] = c /\ \A j \in m + 1 .. m + k : f[j] = D[<<f[j - 1], j>>]
           K == {k \in Nat : m + k <= n => Begun(k)}
<1>1. 0 \in K
  <2> DEFINE f == [j \in m .. m |-> c]
  <2>1. f \in [m .. m + 0 -> S] /\ f[m] = c
    OBVIOUS
  <2> HIDE DEF f
  <2>2. Begun(0)
    BY <2>1
  <2> QED BY <2>2
<1>2. ASSUME NEW k \in Nat, k \in K PROVE k + 1 \in K
  <2> SUFFICES ASSUME m + k + 1 <= n PROVE Begun(k + 1)
    OBVIOUS
  <2>1. PICK f \in [m .. m + k -> S] :
              f[m] = c /\ \A j \in m + 1 .. m + k : f[j] = D[<<f[j - 1], j>>]
    BY <1>2
  <2> DEFINE e == m + k + 1
             g == [j \in m .. e |-> IF j = e THEN D[<<f[m + k], e>>] ELSE f[j]]
  <2>2. f[m + k] \in S /\ e \in m + 1 .. n /\ D[<<f[m + k], e>>] \in S
    BY <2>1
  <2>3. /\ g \in [m .. e -> S] /\ g[e] = D[<<f[m + k], e>>]
        /\ \A j \in m .. m + k : g[j] = f[j]
    BY <2>1, <2>2
  <2> HIDE DEF g
  <2>4. g[m] = c
    BY <2>1, <2>3
  <2>5. \A j \in m + 1 .. e : g[j] = D[<<g[j - 1], j>>]
    <3> SUFFICES ASSUME NEW j \in m + 1 .. e PROVE g[j] = D[<<g[j - 1], j>>]
      OBVIOUS
    <3>1. j - 1 \in m .. m + k /\ g[j - 1] = f[j - 1]
      BY <2>3
    <3>2. CASE j = e
      BY <2>3, <3>1, <3>2
    <3>3. CASE j # e
      <4>1. j \in m + 1 .. m + k /\ j \in m .. m + k
        BY <3>3
      <4> QED BY <2>1, <2>3, <3>1, <4>1
    <3> QED BY <3>2, <3>3
  <2> QED BY <2>3, <2>4, <2>5
<1>3. Nat \subseteq K
  <2> HIDE DEF K
  <2> QED BY <1>1, <1>2, SetInduction
<1>4. n - m \in Nat /\ m + (n - m) = n
  OBVIOUS
<1>5. Begun(n - m)
  <2> HIDE DEF Begun
  <2> QED BY <1>3, <1>4
<1> QED BY <1>4, <1>5 DEF Runs

-----------------------------------------------------------------------------
(* The sort (wt_wifi.c:316-327): its stages, and what they keep.           *)

Tables(n, E) == [1 .. n -> E]

LEMMA ExchangeFits ==
  ASSUME NEW n \in Nat, NEW E, NEW s \in Tables(n, E), NEW i \in 1 .. n, NEW j \in 1 .. n
  PROVE  Exchange(s, i, j) \in Tables(n, E)
BY DEF Exchange, Tables

\* The stages of the inner loop.
LEMMA PassStages ==
  ASSUME NEW n \in Nat, NEW E, NEW s \in Tables(n, E), NEW i \in 1 .. n
  PROVE  \E f \in [i .. n -> Tables(n, E)] :
           /\ f[i] = s /\ Pass(s, i) = f[n]
           /\ \A j \in i + 1 .. n : f[j] = Exchange(f[j - 1], i, j)
<1> DEFINE T == Tables(n, E)
           D == [p \in T \X (i + 1 .. n) |-> Exchange(p[1], i, p[2])]
           Loop(g) == [j \in i .. n |-> IF j = i THEN s ELSE Exchange(g[j - 1], i, j)]
           f == CHOOSE g : g = Loop(g)
<1>1. /\ i .. n \subseteq 1 .. n /\ i \in Nat /\ i \in i .. n /\ n \in i .. n /\ i <= n
      /\ s \in T
  OBVIOUS
<1>2. \A t \in T : \A j \in i + 1 .. n : Exchange(t, i, j) \in T
  BY <1>1, ExchangeFits
<1>3. Len(s) = n
  BY DEF Tables
<1> HIDE DEF T
<1>4. /\ D \in [T \X (i + 1 .. n) -> T]
      /\ \A t \in T : \A j \in i + 1 .. n : D[<<t, j>>] = Exchange(t, i, j)
  BY <1>2
<1> HIDE DEF D
<1>5. PICK h \in [i .. n -> T] : Runs(h, i, n, s, D)
  <2>1. i \in Nat /\ n \in Nat /\ i <= n /\ s \in T /\ D \in [T \X (i + 1 .. n) -> T]
    BY <1>1, <1>4
  <2> QED BY <2>1, Stages
<1>6. \A j \in i + 1 .. n : j \in i .. n /\ j - 1 \in i .. n
  BY <1>1
<1>7. \A j \in i + 1 .. n : h[j] = Exchange(h[j - 1], i, j)
  BY <1>4, <1>5, <1>6 DEF Runs
<1>8. h = Loop(h)
  BY <1>1, <1>5, <1>7 DEF Runs
<1>9. f = Loop(f)
  <2> HIDE DEF Loop
  <2> QED BY <1>8
<1>10. Pass(s, i) = f[n]
  BY <1>3 DEF Pass
<1> HIDE DEF f
<1>11. /\ DOMAIN f = i .. n /\ f[i] = s
       /\ \A j \in i + 1 .. n : f[j] = Exchange(f[j - 1], i, j)
  BY <1>1, <1>6, <1>9
<1>12. \A j \in i .. n : f[j] \in T
  <2> DEFINE S == {j \in i .. n : f[j] \in T}
  <2>1. i \in S
    BY <1>1, <1>11
  <2>2. \A j \in i + 1 .. n : j - 1 \in S => j \in S
    BY <1>2, <1>6, <1>11
  <2> HIDE DEF S
  <2>3. i .. n \subseteq S
    BY <1>1, <2>1, <2>2, LoopInduction
  <2> QED BY <2>3 DEF S
<1>13. f \in [i .. n -> T]
  <2>1. f = [j \in i .. n |-> f[j]]
    BY <1>9
  <2> QED BY <1>12, <2>1
<1> QED BY <1>10, <1>11, <1>13 DEF T

LEMMA PassFits ==
  ASSUME NEW n \in Nat, NEW E, NEW s \in Tables(n, E), NEW i \in 1 .. n
  PROVE  Pass(s, i) \in Tables(n, E)
<1>1. n \in i .. n
  OBVIOUS
<1> QED BY <1>1, PassStages

\* The stages of the outer loop.
LEMMA SortStages ==
  ASSUME NEW n \in Nat, NEW E, NEW s \in Tables(n, E)
  PROVE  \E f \in [0 .. n -> Tables(n, E)] :
           /\ f[0] = s /\ Sorted(s) = f[n]
           /\ \A j \in 1 .. n : f[j] = Pass(f[j - 1], j)
<1> DEFINE T == Tables(n, E)
           D == [p \in T \X (1 .. n) |-> Pass(p[1], p[2])]
           Loop(g) == [j \in 0 .. n |-> IF j = 0 THEN s ELSE Pass(g[j - 1], j)]
           f == CHOOSE g : g = Loop(g)
<1>1. /\ 0 \in 0 .. n /\ n \in 0 .. n /\ n \in Nat /\ s \in T
      /\ 0 + 1 .. n = 1 .. n
  OBVIOUS
<1>2. \A t \in T : \A j \in 1 .. n : Pass(t, j) \in T
  BY PassFits
<1>3. Len(s) = n
  BY DEF Tables
<1> HIDE DEF T
<1>4. /\ D \in [T \X (1 .. n) -> T]
      /\ \A t \in T : \A j \in 1 .. n : D[<<t, j>>] = Pass(t, j)
  BY <1>2
<1> HIDE DEF D
<1>5. PICK h \in [0 .. n -> T] : Runs(h, 0, n, s, D)
  <2>1. 0 \in Nat /\ n \in Nat /\ 0 <= n /\ s \in T /\ D \in [T \X (0 + 1 .. n) -> T]
    BY <1>1, <1>4
  <2> QED BY <2>1, Stages
<1>6. \A j \in 1 .. n : j \in 0 .. n /\ j - 1 \in 0 .. n
  BY <1>1
<1>7. \A j \in 1 .. n : h[j] = Pass(h[j - 1], j)
  BY <1>1, <1>4, <1>5, <1>6 DEF Runs
<1>8. h = Loop(h)
  BY <1>1, <1>5, <1>7 DEF Runs
<1>9. f = Loop(f)
  <2> HIDE DEF Loop
  <2> QED BY <1>8
<1>10. Sorted(s) = f[n]
  BY <1>3 DEF Sorted
<1> HIDE DEF f
<1>11. /\ DOMAIN f = 0 .. n /\ f[0] = s
       /\ \A j \in 1 .. n : f[j] = Pass(f[j - 1], j)
  BY <1>1, <1>6, <1>9
<1>12. \A j \in 0 .. n : f[j] \in T
  <2> DEFINE S == {j \in 0 .. n : f[j] \in T}
  <2>1. 0 \in S
    BY <1>1, <1>11
  <2>2. \A j \in 1 .. n : j - 1 \in S => j \in S
    BY <1>2, <1>6, <1>11
  <2> HIDE DEF S
  <2>3. 0 .. n \subseteq S
    BY <1>1, <2>1, <2>2, LoopInduction
  <2> QED BY <2>3 DEF S
<1>13. f \in [0 .. n -> T]
  <2>1. f = [j \in 0 .. n |-> f[j]]
    BY <1>9
  <2> QED BY <1>12, <2>1
<1> QED BY <1>10, <1>11, <1>13 DEF T

\* t is a permutation of s that leaves the slots before i alone.
Reorders(t, s, i, n) ==
  \E p \in Bijection(1 .. n, 1 .. n) :
    /\ \A k \in 1 .. n : k < i => p[k] = k
    /\ t = [k \in 1 .. n |-> s[p[k]]]

Falls(s, i, j) == s[i].rssi >= s[j].rssi
Falling(s, n) == \A k, l \in 1 .. n : k <= l => Falls(s, k, l)
Numeric(E) == \A e \in E : e.rssi \in Int

LEMMA PermutationFacts ==
  ASSUME NEW n \in Nat, NEW p \in Bijection(1 .. n, 1 .. n)
  PROVE  /\ p \in [1 .. n -> 1 .. n]
         /\ \A k, l \in 1 .. n : p[k] = p[l] => k = l
         /\ \A l \in 1 .. n : \E k \in 1 .. n : p[k] = l
BY Fun_BijectionProperties

LEMMA NotReordered ==
  ASSUME NEW n \in Nat, NEW E, NEW s \in Tables(n, E), NEW i
  PROVE  Reorders(s, s, i, n)
<1> DEFINE p == [k \in 1 .. n |-> k]
<1>1. p \in Bijection(1 .. n, 1 .. n)
  BY Fun_IsBij
<1>2. s = [k \in 1 .. n |-> s[p[k]]]
  BY DEF Tables
<1>3. \A k \in 1 .. n : k < i => p[k] = k
  OBVIOUS
<1> QED BY <1>1, <1>2, <1>3 DEF Reorders

LEMMA ExchangeReorders ==
  ASSUME NEW n \in Nat, NEW E, NEW s \in Tables(n, E), NEW i \in 1 .. n, NEW j \in i .. n
  PROVE  Reorders(Exchange(s, i, j), s, i, n)
<1>1. j \in 1 .. n /\ i \in Nat
  OBVIOUS
<1>2. CASE ~(s[j].rssi > s[i].rssi)
  <2>1. Exchange(s, i, j) = s
    BY <1>2 DEF Exchange
  <2> QED BY <2>1, NotReordered
<1>3. CASE s[j].rssi > s[i].rssi
  <2> DEFINE p == [k \in 1 .. n |-> IF k = i THEN j ELSE IF k = j THEN i ELSE k]
  <2>1. p \in Bijection(1 .. n, 1 .. n)
    <3>1. p \in [1 .. n -> 1 .. n] /\ \A a, b \in 1 .. n : p[a] = p[b] => a = b
      BY <1>1
    <3>2. \A b \in 1 .. n : p[p[b]] = b /\ p[b] \in 1 .. n
      BY <1>1
    <3> HIDE DEF p
    <3> QED BY <3>1, <3>2, Fun_IsBij
  <2>2. \A k \in 1 .. n : k < i => p[k] = k
    BY <1>1
  <2>3. Exchange(s, i, j) = [k \in 1 .. n |-> s[p[k]]]
    BY <1>1, <1>3 DEF Exchange, Tables
  <2> HIDE DEF p
  <2> QED BY <2>1, <2>2, <2>3 DEF Reorders
<1> QED BY <1>2, <1>3

LEMMA ReordersAgain ==
  ASSUME NEW n \in Nat, NEW s, NEW t, NEW u, NEW i \in Nat, NEW j \in Nat, i <= j,
         Reorders(t, s, i, n), Reorders(u, t, j, n)
  PROVE  Reorders(u, s, i, n)
<1>1. PICK p \in Bijection(1 .. n, 1 .. n) :
             /\ \A k \in 1 .. n : k < i => p[k] = k
             /\ t = [k \in 1 .. n |-> s[p[k]]]
  BY DEF Reorders
<1>2. PICK q \in Bijection(1 .. n, 1 .. n) :
             /\ \A k \in 1 .. n : k < j => q[k] = k
             /\ u = [k \in 1 .. n |-> t[q[k]]]
  BY DEF Reorders
<1>3. q \in [1 .. n -> 1 .. n]
  BY PermutationFacts
<1> DEFINE r == [k \in 1 .. n |-> p[q[k]]]
<1>4. r \in Bijection(1 .. n, 1 .. n)
  BY Fun_BijTransitive
<1>5. \A k \in 1 .. n : k < i => r[k] = k
  BY <1>1, <1>2
<1>6. u = [k \in 1 .. n |-> s[r[k]]]
  BY <1>1, <1>2, <1>3
<1> QED BY <1>4, <1>5, <1>6 DEF Reorders

\* What the slots from i on hold comes from slots from i on.
Behind(t, s, i, n) ==
  /\ \A k \in 1 .. i - 1 : t[k] = s[k]
  /\ \A k \in i .. n : \E l \in i .. n : t[k] = s[l]

LEMMA ReorderedBehind ==
  ASSUME NEW n \in Nat, NEW E, NEW s \in Tables(n, E), NEW t, NEW i \in 1 .. n,
         Reorders(t, s, i, n)
  PROVE  t \in Tables(n, E) /\ Behind(t, s, i, n)
<1>1. PICK p \in Bijection(1 .. n, 1 .. n) :
             /\ \A k \in 1 .. n : k < i => p[k] = k
             /\ t = [k \in 1 .. n |-> s[p[k]]]
  BY DEF Reorders
<1>2. p \in [1 .. n -> 1 .. n] /\ \A k, l \in 1 .. n : p[k] = p[l] => k = l
  BY PermutationFacts
<1>3. t \in Tables(n, E)
  BY <1>1, <1>2 DEF Tables
<1>4. \A k \in 1 .. i - 1 : k \in 1 .. n /\ t[k] = s[k]
  BY <1>1, <1>2
<1>5. \A k \in i .. n : p[k] \in i .. n /\ t[k] = s[p[k]]
  BY <1>1, <1>2
<1> QED BY <1>3, <1>4, <1>5 DEF Behind

\* The inner loop brings the strongest of the slots from i on to slot i.
LEMMA PassBringsStrongest ==
  ASSUME NEW n \in Nat, NEW E, Numeric(E), NEW s \in Tables(n, E), NEW i \in 1 .. n
  PROVE  /\ Reorders(Pass(s, i), s, i, n)
         /\ \A k \in i .. n : Falls(Pass(s, i), i, k)
<1>1. PICK f \in [i .. n -> Tables(n, E)] :
           /\ f[i] = s /\ Pass(s, i) = f[n]
           /\ \A j \in i + 1 .. n : f[j] = Exchange(f[j - 1], i, j)
  BY PassStages
<1> DEFINE Good(j) == /\ Reorders(f[j], s, i, n)
                      /\ \A k \in i .. j : Falls(f[j], i, k)
           S == {j \in i .. n : Good(j)}
<1>2. i \in S
  <2>1. Reorders(f[i], s, i, n)
    BY <1>1, NotReordered
  <2>2. Falls(f[i], i, i)
    BY <1>1 DEF Falls, Tables, Numeric
  <2> QED BY <2>1, <2>2
<1>3. ASSUME NEW j \in i + 1 .. n, j - 1 \in S PROVE j \in S
  <2> DEFINE t == f[j - 1]
             u == f[j]
  <2>1. j - 1 \in i .. n /\ j \in i .. n /\ j \in 1 .. n /\ j # i
    OBVIOUS
  <2>2. t \in Tables(n, E) /\ u = Exchange(t, i, j)
    BY <1>1, <2>1
  <2>3. Reorders(u, s, i, n)
    <3>1. Reorders(t, s, i, n)
      BY <1>3
    <3>2. Reorders(u, t, i, n)
      BY <2>1, <2>2, ExchangeReorders
    <3> QED BY <3>1, <3>2, ReordersAgain
  <2>4. \A k \in i .. j : Falls(u, i, k)
    <3>1. \A k \in i .. j - 1 : Falls(t, i, k)
      BY <1>3
    <3>2. \A k \in 1 .. n : t[k].rssi \in Int
      BY <2>2 DEF Tables, Numeric
    <3>3. CASE t[j].rssi > t[i].rssi
      <4>1. /\ u[i] = t[j] /\ u[j] = t[i]
            /\ \A k \in 1 .. n : k # i /\ k # j => u[k] = t[k]
        BY <2>1, <2>2, <3>3 DEF Exchange, Tables
      <4> QED BY <2>1, <3>1, <3>2, <3>3, <4>1 DEF Falls
    <3>4. CASE ~(t[j].rssi > t[i].rssi)
      <4>1. u = t
        BY <2>2, <3>4 DEF Exchange
      <4> QED BY <2>1, <3>1, <3>2, <3>4, <4>1 DEF Falls
    <3> QED BY <3>3, <3>4
  <2> QED BY <2>1, <2>3, <2>4
<1>4. i .. n \subseteq S
  <2>1. i \in Nat /\ n \in Nat
    OBVIOUS
  <2> HIDE DEF S
  <2> QED BY <1>2, <1>3, <2>1, LoopInduction
<1>5. n \in S
  BY <1>4
<1> QED BY <1>1, <1>5

\* wt_wifi_scan_sort_locked permutes the table into falling order.
LEMMA SortSorts ==
  ASSUME NEW n \in Nat, NEW E, Numeric(E), NEW s \in Tables(n, E)
  PROVE  /\ Reorders(Sorted(s), s, 1, n)
         /\ Falling(Sorted(s), n)
<1>1. PICK f \in [0 .. n -> Tables(n, E)] :
           /\ f[0] = s /\ Sorted(s) = f[n]
           /\ \A i \in 1 .. n : f[i] = Pass(f[i - 1], i)
  BY SortStages
<1> DEFINE Good(i) == /\ Reorders(f[i], s, 1, n)
                      /\ \A k \in 1 .. i : \A l \in k .. n : Falls(f[i], k, l)
           S == {i \in 0 .. n : Good(i)}
<1>2. 0 \in S
  BY <1>1, NotReordered
<1>3. ASSUME NEW i \in 1 .. n, i - 1 \in S PROVE i \in S
  <2> DEFINE t == f[i - 1]
             u == f[i]
  <2>1. i - 1 \in 0 .. n /\ i \in 0 .. n /\ i \in Nat
    OBVIOUS
  <2>2. t \in Tables(n, E) /\ u = Pass(t, i)
    BY <1>1, <2>1
  <2>3. Reorders(u, t, i, n) /\ \A k \in i .. n : Falls(u, i, k)
    BY <2>2, PassBringsStrongest
  <2>4. Reorders(u, s, 1, n)
    <3>1. Reorders(t, s, 1, n) /\ 1 <= i
      BY <1>3
    <3> QED BY <2>1, <2>3, <3>1, ReordersAgain
  <2>5. \A k \in 1 .. i - 1 : \A l \in k .. n : Falls(u, k, l)
    <3> SUFFICES ASSUME NEW k \in 1 .. i - 1, NEW l \in k .. n PROVE Falls(u, k, l)
      OBVIOUS
    <3>1. \A m \in k .. n : Falls(t, k, m)
      BY <1>3
    <3>2. /\ \A m \in 1 .. i - 1 : u[m] = t[m]
          /\ \A m \in i .. n : \E o \in i .. n : u[m] = t[o]
      <4>1. Behind(u, t, i, n)
        <5>1. t \in Tables(n, E) /\ Reorders(u, t, i, n)
          BY <2>2, <2>3
        <5> HIDE DEF t, u
        <5> QED BY <5>1, ReorderedBehind
      <4> QED BY <4>1 DEF Behind
    <3>3. u[k] = t[k]
      BY <3>2
    <3>4. \E o \in k .. n : u[l] = t[o]
      <4>1. CASE l \in 1 .. i - 1
        BY <3>2, <4>1
      <4>2. CASE l \in i .. n
        <5>1. PICK o \in i .. n : u[l] = t[o]
          BY <3>2, <4>2
        <5>2. o \in k .. n
          OBVIOUS
        <5> QED BY <5>1, <5>2
      <4> QED BY <4>1, <4>2
    <3> QED BY <3>1, <3>3, <3>4 DEF Falls
  <2>6. \A k \in 1 .. i : \A l \in k .. n : Falls(u, k, l)
    BY <2>3, <2>5
  <2> QED BY <2>1, <2>4, <2>6
<1>4. 0 .. n \subseteq S
  <2>1. \A i \in 0 + 1 .. n : i - 1 \in S => i \in S
    <3>1. 0 + 1 .. n = 1 .. n
      OBVIOUS
    <3> HIDE DEF S
    <3> QED BY <1>3, <3>1
  <2> HIDE DEF S
  <2> QED BY <1>2, <2>1, LoopInduction
<1>5. n \in S
  BY <1>4
<1>6. Good(n)
  BY <1>5
<1>7. \A k \in 1 .. n : \A l \in k .. n : Falls(Sorted(s), k, l)
  BY <1>1, <1>6
<1>8. \A k, l \in 1 .. n : k <= l => l \in k .. n
  OBVIOUS
<1> HIDE DEF Good
<1> QED BY <1>1, <1>6, <1>7, <1>8 DEF Good, Falling

\* A table that falls already stays as it is.
LEMMA PassStays ==
  ASSUME NEW n \in Nat, NEW E, Numeric(E), NEW s \in Tables(n, E), NEW i \in 1 .. n,
         Falling(s, n)
  PROVE  Pass(s, i) = s
<1>1. PICK f \in [i .. n -> Tables(n, E)] :
           /\ f[i] = s /\ Pass(s, i) = f[n]
           /\ \A j \in i + 1 .. n : f[j] = Exchange(f[j - 1], i, j)
  BY PassStages
<1> DEFINE S == {j \in i .. n : f[j] = s}
<1>2. i \in S /\ i \in Nat /\ n \in Nat
  BY <1>1
<1>3. ASSUME NEW j \in i + 1 .. n, j - 1 \in S PROVE j \in S
  <2>1. j \in i .. n /\ j \in 1 .. n /\ i <= j
    OBVIOUS
  <2>2. f[j] = Exchange(s, i, j)
    BY <1>1, <1>3
  <2>3. Falls(s, i, j) /\ s[i].rssi \in Int /\ s[j].rssi \in Int
    BY <2>1 DEF Falling, Tables, Numeric
  <2>4. Exchange(s, i, j) = s
    BY <2>3 DEF Falls, Exchange
  <2> QED BY <2>1, <2>2, <2>4
<1>4. i .. n \subseteq S
  <2> HIDE DEF S
  <2> QED BY <1>2, <1>3, LoopInduction
<1>5. n \in S
  BY <1>4
<1> QED BY <1>1, <1>5

LEMMA SortStays ==
  ASSUME NEW n \in Nat, NEW E, Numeric(E), NEW s \in Tables(n, E),
         Falling(s, n)
  PROVE  Sorted(s) = s
<1>1. PICK f \in [0 .. n -> Tables(n, E)] :
           /\ f[0] = s /\ Sorted(s) = f[n]
           /\ \A i \in 1 .. n : f[i] = Pass(f[i - 1], i)
  BY SortStages
<1> DEFINE S == {i \in 0 .. n : f[i] = s}
<1>2. 0 \in S /\ 0 \in Nat /\ n \in Nat
  BY <1>1
<1>3. ASSUME NEW i \in 0 + 1 .. n, i - 1 \in S PROVE i \in S
  <2>1. i \in 1 .. n /\ i \in 0 .. n
    OBVIOUS
  <2>2. f[i] = Pass(s, i)
    BY <1>1, <1>3, <2>1
  <2>3. Pass(s, i) = s
    BY <2>1, PassStays
  <2> QED BY <2>1, <2>2, <2>3
<1>4. 0 .. n \subseteq S
  <2> HIDE DEF S
  <2> QED BY <1>2, <1>3, LoopInduction
<1>5. n \in S
  BY <1>4
<1> QED BY <1>1, <1>5

-----------------------------------------------------------------------------
(* The table (wt_wifi.c:329-381).                                          *)

\* What the table should hold, whatever the order of its slots.
Covers(s, n, given) ==
  /\ \A i \in 1 .. n : s[i] \in given
  /\ \A i, j \in 1 .. n : s[i].ssid = s[j].ssid => i = j
  /\ \A e \in given :
       \/ \E i \in 1 .. n : s[i].ssid = e.ssid /\ e.rssi <= s[i].rssi
       \/ n = MaxResults /\ \A i \in 1 .. n : s[i].ssid # e.ssid /\ e.rssi <= s[i].rssi

\* It stays so when the table is reordered.
LEMMA ReorderedCovers ==
  ASSUME NEW n \in Nat, NEW E, NEW s \in Tables(n, E), NEW t, NEW given,
         Reorders(t, s, 1, n), Covers(s, n, given)
  PROVE  Covers(t, n, given)
<1>1. PICK p \in Bijection(1 .. n, 1 .. n) : t = [k \in 1 .. n |-> s[p[k]]]
  BY DEF Reorders
<1>2. /\ p \in [1 .. n -> 1 .. n]
      /\ \A k, l \in 1 .. n : p[k] = p[l] => k = l
      /\ \A l \in 1 .. n : \E k \in 1 .. n : p[k] = l
  BY PermutationFacts
<1>3. \A k \in 1 .. n : t[k] = s[p[k]] /\ p[k] \in 1 .. n
  BY <1>1, <1>2
<1>4. \A l \in 1 .. n : \E k \in 1 .. n : t[k] = s[l]
  <2> SUFFICES ASSUME NEW l \in 1 .. n PROVE \E k \in 1 .. n : t[k] = s[l]
    OBVIOUS
  <2>1. PICK k \in 1 .. n : p[k] = l
    BY <1>2
  <2>2. t[k] = s[l]
    BY <1>3, <2>1
  <2> QED BY <2>2
<1>5. \A i \in 1 .. n : t[i] \in given
  BY <1>3 DEF Covers
<1>6. \A i, j \in 1 .. n : t[i].ssid = t[j].ssid => i = j
  <2> SUFFICES ASSUME NEW i \in 1 .. n, NEW j \in 1 .. n, t[i].ssid = t[j].ssid
               PROVE  i = j
    OBVIOUS
  <2>1. p[i] \in 1 .. n /\ p[j] \in 1 .. n /\ s[p[i]].ssid = s[p[j]].ssid
    BY <1>3
  <2>2. p[i] = p[j]
    BY <2>1 DEF Covers
  <2> QED BY <1>2, <2>2
<1>7. ASSUME NEW e \in given
      PROVE  \/ \E i \in 1 .. n : t[i].ssid = e.ssid /\ e.rssi <= t[i].rssi
             \/ n = MaxResults /\ \A i \in 1 .. n : t[i].ssid # e.ssid /\ e.rssi <= t[i].rssi
  <2>1. CASE \E i \in 1 .. n : s[i].ssid = e.ssid /\ e.rssi <= s[i].rssi
    BY <1>4, <2>1
  <2>2. CASE n = MaxResults /\ \A i \in 1 .. n : s[i].ssid # e.ssid /\ e.rssi <= s[i].rssi
    BY <1>3, <2>2
  <2> QED BY <2>1, <2>2 DEF Covers
<1> QED BY <1>5, <1>6, <1>7 DEF Covers

LEMMA SortedCovers ==
  ASSUME NEW n \in Nat, NEW E, Numeric(E), NEW s \in Tables(n, E), NEW given,
         Covers(s, n, given)
  PROVE  /\ Sorted(s) \in Tables(n, E)
         /\ Covers(Sorted(s), n, given) /\ Falling(Sorted(s), n)
<1>1. Reorders(Sorted(s), s, 1, n) /\ Falling(Sorted(s), n)
  BY SortSorts
<1>2. PICK p \in Bijection(1 .. n, 1 .. n) : Sorted(s) = [k \in 1 .. n |-> s[p[k]]]
  BY <1>1 DEF Reorders
<1>3. Sorted(s) \in Tables(n, E)
  <2>1. p \in [1 .. n -> 1 .. n]
    BY PermutationFacts
  <2> QED BY <1>2, <2>1 DEF Tables
<1> QED BY <1>1, <1>3, ReorderedCovers

\* HoldsStrongest is this and the order.
LEMMA HoldsMeans ==
  ASSUME NEW n \in 0 .. MaxResults, NEW E, Numeric(E), NEW s \in Tables(n, E),
         NEW given \in SUBSET E
  PROVE  HoldsStrongest(s, given) <=> Covers(s, n, given) /\ Falling(s, n)
<1>1. /\ DOMAIN s = 1 .. n /\ Len(s) = n /\ n \in Nat
      /\ \A i \in 1 .. n : s[i].rssi \in Int
      /\ \A e \in given : e.rssi \in Int
      /\ MaxResults \in Nat \ {0}
  BY MaxResultsAssumption DEF Tables, Numeric
<1>2. n # 0 => Last(s) = s[n] /\ n \in 1 .. n
  BY <1>1 DEF Last
<1>3. \A e \in given : SlotsOf(s, e.ssid) = {i \in 1 .. n : s[i].ssid = e.ssid}
  BY <1>1 DEF SlotsOf
<1>4. ASSUME HoldsStrongest(s, given) PROVE Covers(s, n, given) /\ Falling(s, n)
  <2>1. \A i, j \in 1 .. n : i < j => s[i].ssid # s[j].ssid /\ s[i].rssi >= s[j].rssi
    BY <1>1, <1>4 DEF HoldsStrongest
  <2>2. Falling(s, n)
    BY <1>1, <2>1 DEF Falling, Falls
  <2>3. \A i, j \in 1 .. n : s[i].ssid = s[j].ssid => i = j
    <3>1. \A i, j \in 1 .. n : i < j \/ i = j \/ j < i
      OBVIOUS
    <3> QED BY <2>1, <3>1
  <2>4. ASSUME NEW e \in given
        PROVE  \/ \E i \in 1 .. n : s[i].ssid = e.ssid /\ e.rssi <= s[i].rssi
               \/ n = MaxResults /\ \A i \in 1 .. n : s[i].ssid # e.ssid /\ e.rssi <= s[i].rssi
    <3>1. CASE \E i \in SlotsOf(s, e.ssid) : e.rssi <= s[i].rssi
      BY <1>3, <3>1
    <3>2. CASE SlotsOf(s, e.ssid) = {} /\ Len(s) = MaxResults /\ e.rssi <= Last(s).rssi
      <4>1. n = MaxResults /\ n # 0 /\ e.rssi <= s[n].rssi /\ n \in 1 .. n
        BY <1>1, <1>2, <3>2
      <4>2. \A i \in 1 .. n : s[i].ssid # e.ssid
        BY <1>3, <3>2
      <4>3. \A i \in 1 .. n : e.rssi <= s[i].rssi
        BY <1>1, <2>2, <4>1 DEF Falling, Falls
      <4> QED BY <4>1, <4>2, <4>3
    <3> QED BY <1>4, <3>1, <3>2 DEF HoldsStrongest
  <2>5. \A i \in 1 .. n : s[i] \in given
    BY <1>1, <1>4 DEF HoldsStrongest
  <2> QED BY <2>2, <2>3, <2>4, <2>5 DEF Covers
<1>5. ASSUME Covers(s, n, given), Falling(s, n) PROVE HoldsStrongest(s, given)
  <2>1. \A i \in DOMAIN s : s[i] \in given
    BY <1>1, <1>5 DEF Covers
  <2>2. \A i, j \in 1 .. n : i < j => s[i].ssid # s[j].ssid /\ s[i].rssi >= s[j].rssi
    <3>1. \A i, j \in 1 .. n : i < j => i # j /\ i <= j
      OBVIOUS
    <3> QED BY <1>5, <3>1 DEF Covers, Falling, Falls
  <2>3. ASSUME NEW e \in given
        PROVE  \/ \E i \in SlotsOf(s, e.ssid) : e.rssi <= s[i].rssi
               \/ SlotsOf(s, e.ssid) = {} /\ Len(s) = MaxResults /\ e.rssi <= Last(s).rssi
    <3>1. CASE \E i \in 1 .. n : s[i].ssid = e.ssid /\ e.rssi <= s[i].rssi
      BY <1>3, <3>1
    <3>2. CASE n = MaxResults /\ \A i \in 1 .. n : s[i].ssid # e.ssid /\ e.rssi <= s[i].rssi
      BY <1>1, <1>2, <1>3, <3>2
    <3> QED BY <1>5, <3>1, <3>2 DEF Covers
  <2> QED BY <1>1, <2>1, <2>2, <2>3 DEF HoldsStrongest
<1> QED BY <1>4, <1>5

\* A stronger result of a listed network takes its slot.
LEMMA ReplacedCovers ==
  ASSUME NEW n \in Nat, NEW E, Numeric(E), NEW s \in Tables(n, E),
         NEW given \in SUBSET E, Covers(s, n, given),
         NEW e \in E, NEW i \in 1 .. n, s[i].ssid = e.ssid, ~(e.rssi <= s[i].rssi)
  PROVE  Covers([s EXCEPT ![i] = e], n, given \cup {e})
<1> DEFINE t == [s EXCEPT ![i] = e]
<1>1. /\ t[i] = e /\ \A k \in 1 .. n : k # i => t[k] = s[k]
      /\ \A k \in 1 .. n : s[k].rssi \in Int
      /\ \A f \in given \cup {e} : f.rssi \in Int
  BY DEF Tables, Numeric
<1> HIDE DEF t
<1>2. \A k \in 1 .. n : t[k] \in given \cup {e}
  BY <1>1 DEF Covers
<1>3. \A k, l \in 1 .. n : t[k].ssid = t[l].ssid => k = l
  <2>1. \A k \in 1 .. n : t[k].ssid = s[k].ssid
    BY <1>1
  <2> QED BY <2>1 DEF Covers
<1>4. ASSUME NEW f \in given \cup {e}
      PROVE  \/ \E k \in 1 .. n : t[k].ssid = f.ssid /\ f.rssi <= t[k].rssi
             \/ n = MaxResults /\ \A k \in 1 .. n : t[k].ssid # f.ssid /\ f.rssi <= t[k].rssi
  <2>1. CASE f = e
    BY <1>1, <2>1
  <2>2. CASE f \in given /\ \E k \in 1 .. n : s[k].ssid = f.ssid /\ f.rssi <= s[k].rssi
    <3>1. PICK k \in 1 .. n : s[k].ssid = f.ssid /\ f.rssi <= s[k].rssi
      BY <2>2
    <3>2. t[k].ssid = f.ssid /\ f.rssi <= t[k].rssi
      <4>1. CASE k = i
        BY <1>1, <3>1, <4>1
      <4>2. CASE k # i
        BY <1>1, <3>1, <4>2
      <4> QED BY <4>1, <4>2
    <3> QED BY <3>2
  <2>3. CASE f \in given /\ n = MaxResults
             /\ \A k \in 1 .. n : s[k].ssid # f.ssid /\ f.rssi <= s[k].rssi
    <3>1. ASSUME NEW k \in 1 .. n PROVE t[k].ssid # f.ssid /\ f.rssi <= t[k].rssi
      <4>1. CASE k = i
        BY <1>1, <2>3, <4>1
      <4>2. CASE k # i
        BY <1>1, <2>3, <4>2
      <4> QED BY <4>1, <4>2
    <3> QED BY <2>3, <3>1
  <2> QED BY <2>1, <2>2, <2>3 DEF Covers
<1> QED BY <1>2, <1>3, <1>4 DEF Covers, t

\* A new network takes a free slot.
LEMMA AppendedCovers ==
  ASSUME NEW n \in Nat, n < MaxResults, NEW E, Numeric(E), NEW s \in Tables(n, E),
         NEW given \in SUBSET E, Covers(s, n, given),
         NEW e \in E, \A i \in 1 .. n : s[i].ssid # e.ssid
  PROVE  Append(s, e) \in Tables(n + 1, E) /\ Covers(Append(s, e), n + 1, given \cup {e})
<1> DEFINE t == Append(s, e)
<1>1. /\ t \in Tables(n + 1, E) /\ t[n + 1] = e /\ \A k \in 1 .. n : t[k] = s[k]
      /\ 1 .. n + 1 = 1 .. n \cup {n + 1} /\ n + 1 \notin 1 .. n /\ n # MaxResults
      /\ e.rssi \in Int
  <2>1. s \in Seq(E) /\ Len(s) = n
    BY DEF Tables
  <2>2. t \in Seq(E) /\ Len(t) = n + 1 /\ t[n + 1] = e /\ \A k \in 1 .. n : t[k] = s[k]
    BY <2>1
  <2>3. t \in Tables(n + 1, E)
    <3> HIDE DEF t
    <3> QED BY <2>2 DEF Tables
  <2> HIDE DEF t
  <2>4. e.rssi \in Int /\ n # MaxResults
    BY MaxResultsAssumption DEF Numeric
  <2> QED BY <2>2, <2>3, <2>4
<1> HIDE DEF t
<1>2. \A k \in 1 .. n + 1 : t[k] \in given \cup {e}
  BY <1>1 DEF Covers
<1>3. \A k, l \in 1 .. n + 1 : t[k].ssid = t[l].ssid => k = l
  BY <1>1 DEF Covers
<1>4. ASSUME NEW f \in given \cup {e}
      PROVE  \E k \in 1 .. n + 1 : t[k].ssid = f.ssid /\ f.rssi <= t[k].rssi
  <2>1. CASE f = e
    BY <1>1, <2>1
  <2>2. CASE f \in given
    <3>1. PICK k \in 1 .. n : s[k].ssid = f.ssid /\ f.rssi <= s[k].rssi
      BY <1>1, <2>2 DEF Covers
    <3> QED BY <1>1, <3>1
  <2> QED BY <2>1, <2>2
<1> QED BY <1>1, <1>2, <1>3, <1>4 DEF Covers, t

\* A full table keeps out a new network that is not stronger than the weakest.
LEMMA KeptOutCovers ==
  ASSUME NEW E, Numeric(E), NEW s \in Tables(MaxResults, E),
         NEW given \in SUBSET E, Covers(s, MaxResults, given), Falling(s, MaxResults),
         NEW e \in E, \A i \in 1 .. MaxResults : s[i].ssid # e.ssid,
         e.rssi <= s[MaxResults].rssi
  PROVE  Covers(s, MaxResults, given \cup {e})
<1> DEFINE n == MaxResults
<1>1. /\ n \in Nat /\ n \in 1 .. n /\ e.rssi \in Int
      /\ \A i \in 1 .. n : s[i].rssi \in Int /\ i <= n
  BY MaxResultsAssumption DEF Tables, Numeric
<1>2. \A i \in 1 .. n : e.rssi <= s[i].rssi
  BY <1>1 DEF Falling, Falls
<1> QED BY <1>1, <1>2 DEF Covers

\* Or it takes the slot of the weakest.
LEMMA DisplacedCovers ==
  ASSUME NEW n, n = MaxResults, NEW E, Numeric(E), NEW s \in Tables(n, E),
         NEW given \in SUBSET E, Covers(s, n, given), Falling(s, n),
         NEW e \in E, \A i \in 1 .. n : s[i].ssid # e.ssid,
         ~(e.rssi <= s[n].rssi)
  PROVE  Covers([s EXCEPT ![n] = e], n, given \cup {e})
<1> DEFINE t == [s EXCEPT ![n] = e]
<1>1. /\ n \in Nat /\ n \in 1 .. n
      /\ t[n] = e /\ \A k \in 1 .. n : k # n => t[k] = s[k]
      /\ \A k \in 1 .. n : s[k].rssi \in Int /\ k <= n
      /\ \A f \in given \cup {e} : f.rssi \in Int
  BY MaxResultsAssumption DEF Tables, Numeric
<1> HIDE DEF t
<1>2. \A k \in 1 .. n : s[n].rssi <= s[k].rssi
  BY <1>1 DEF Falling, Falls
<1>3. \A k \in 1 .. n : s[n].rssi <= t[k].rssi
  BY <1>1, <1>2
<1>4. \A k \in 1 .. n : t[k] \in given \cup {e}
  BY <1>1 DEF Covers
<1>5. \A k, l \in 1 .. n : t[k].ssid = t[l].ssid => k = l
  BY <1>1 DEF Covers
<1>6. ASSUME NEW f \in given \cup {e}
      PROVE  \/ \E k \in 1 .. n : t[k].ssid = f.ssid /\ f.rssi <= t[k].rssi
             \/ \A k \in 1 .. n : t[k].ssid # f.ssid /\ f.rssi <= t[k].rssi
  <2>1. CASE f = e
    BY <1>1, <2>1
  <2>2. CASE f \in given /\ f.rssi <= s[n].rssi
    <3>1. \A k \in 1 .. n : t[k].rssi \in Int
      BY <1>1
    <3>2. \A k \in 1 .. n : f.rssi <= t[k].rssi
      BY <1>1, <1>3, <2>2, <3>1
    <3> QED BY <3>2
  <2>3. CASE f \in given /\ ~(f.rssi <= s[n].rssi)
    <3>1. PICK k \in 1 .. n : s[k].ssid = f.ssid /\ f.rssi <= s[k].rssi
      BY <1>1, <2>3 DEF Covers
    <3>2. k # n
      BY <2>3, <3>1
    <3> QED BY <1>1, <3>1, <3>2
  <2> QED BY <2>1, <2>2, <2>3
<1> QED BY <1>4, <1>5, <1>6 DEF Covers, t

\* A table in its order.
Proper(s, n, E, given) == s \in Tables(n, E) /\ Covers(s, n, given) /\ Falling(s, n)

\* A result is stored: its network is listed, there is room, or there is not.
LEMMA StoreCovers ==
  ASSUME NEW n \in 0 .. MaxResults, NEW E, Numeric(E), NEW s, NEW given \in SUBSET E,
         Proper(s, n, E, given), NEW e \in E
  PROVE  \E m \in 0 .. MaxResults : Proper(Store(s, e), m, E, given \cup {e})
<1>1. /\ n \in Nat /\ DOMAIN s = 1 .. n /\ Len(s) = n /\ s \in Tables(n, E)
      /\ \A k \in 1 .. n : s[k].rssi \in Int
      /\ e.rssi \in Int /\ MaxResults \in Nat \ {0} /\ n <= MaxResults
      /\ Covers(s, n, given) /\ Falling(s, n)
  BY MaxResultsAssumption DEF Proper, Tables, Numeric
<1>2. SlotsOf(s, e.ssid) = {k \in 1 .. n : s[k].ssid = e.ssid}
  BY <1>1 DEF SlotsOf
<1>3. CASE SlotsOf(s, e.ssid) # {}
  <2> DEFINE i == CHOOSE i \in SlotsOf(s, e.ssid) : TRUE
  <2>1. i \in 1 .. n /\ s[i].ssid = e.ssid
    BY <1>2, <1>3
  <2>2. Store(s, e) = IF e.rssi <= s[i].rssi THEN s ELSE Sorted([s EXCEPT ![i] = e])
    BY <1>3 DEF Store
  <2> HIDE DEF i
  <2>3. CASE e.rssi <= s[i].rssi
    <3>1. Covers(s, n, given \cup {e})
      BY <1>1, <2>1, <2>3 DEF Covers
    <3> QED BY <1>1, <2>2, <2>3, <3>1 DEF Proper
  <2>4. CASE ~(e.rssi <= s[i].rssi)
    <3> DEFINE t == [s EXCEPT ![i] = e]
    <3>1. t \in Tables(n, E) /\ Covers(t, n, given \cup {e})
      BY <1>1, <2>1, <2>4, ReplacedCovers DEF Tables
    <3> HIDE DEF t
    <3>2. Proper(Sorted(t), n, E, given \cup {e})
      BY <1>1, <3>1, SortedCovers DEF Proper
    <3>3. Store(s, e) = Sorted(t)
      BY <2>2, <2>4 DEF t
    <3> QED BY <3>2, <3>3
  <2> QED BY <2>3, <2>4
<1>4. CASE SlotsOf(s, e.ssid) = {} /\ HasRoom(s)
  <2> DEFINE t == Append(s, e)
  <2>1. n < MaxResults /\ \A i \in 1 .. n : s[i].ssid # e.ssid
    BY <1>1, <1>2, <1>4 DEF HasRoom
  <2>2. t \in Tables(n + 1, E) /\ Covers(t, n + 1, given \cup {e})
    BY <1>1, <2>1, AppendedCovers
  <2>3. Store(s, e) = Sorted(t)
    BY <1>4 DEF Store
  <2> HIDE DEF t
  <2>4. n + 1 \in Nat /\ n + 1 \in 0 .. MaxResults
    BY <1>1, <2>1
  <2>5. Proper(Sorted(t), n + 1, E, given \cup {e})
    BY <2>2, <2>4, SortedCovers DEF Proper
  <2> QED BY <2>3, <2>4, <2>5
<1>5. CASE SlotsOf(s, e.ssid) = {} /\ ~HasRoom(s)
  <2> DEFINE t == Sorted(s)
  <2>1. n = MaxResults /\ \A i \in 1 .. n : s[i].ssid # e.ssid
    BY <1>1, <1>2, <1>5 DEF HasRoom
  <2>2. t = s
    BY <1>1, SortStays
  <2>3. Last(s) = s[n] /\ Len(s) = n
    BY <1>1 DEF Last
  <2>4. Store(s, e) = IF e.rssi <= s[n].rssi THEN s ELSE Sorted([s EXCEPT ![n] = e])
    BY <1>5, <2>2, <2>3 DEF Store
  <2>5. CASE e.rssi <= s[n].rssi
    <3>1. Covers(s, n, given \cup {e})
      BY <1>1, <2>1, <2>5, KeptOutCovers
    <3> QED BY <1>1, <2>4, <2>5, <3>1 DEF Proper
  <2>6. CASE ~(e.rssi <= s[n].rssi)
    <3> DEFINE u == [s EXCEPT ![n] = e]
    <3>1. u \in Tables(n, E) /\ Covers(u, n, given \cup {e})
      <4>1. u \in Tables(n, E)
        BY <1>1 DEF Tables
      <4>2. Covers(u, n, given \cup {e})
        BY <1>1, <2>1, <2>6, DisplacedCovers
      <4> QED BY <4>1, <4>2
    <3>2. Store(s, e) = Sorted(u)
      BY <2>4, <2>6
    <3> HIDE DEF u
    <3>3. Proper(Sorted(u), n, E, given \cup {e})
      BY <1>1, <3>1, SortedCovers DEF Proper
    <3> QED BY <3>2, <3>3
  <2> QED BY <2>5, <2>6
<1> QED BY <1>3, <1>4, <1>5
-----------------------------------------------------------------------------
(* Types and abbreviations.                                                *)

Jobs == [step : Steps, wait : BOOLEAN, tries : 0 .. Retries, served : BOOLEAN,
         cut : BOOLEAN]
Pasts == [stale : BOOLEAN, joined : BOOLEAN, explicit : BOOLEAN, mixed : BOOLEAN,
          already : BOOLEAN, refused : BOOLEAN, crossed : BOOLEAN,
          marked : BOOLEAN, aborted : BOOLEAN, lost : BOOLEAN, kept : BOOLEAN]

-----------------------------------------------------------------------------
(* The inductive invariant.                                                *)

Typed ==
  /\ requested \in BOOLEAN /\ autoPower \in BOOLEAN /\ scanRequested \in BOOLEAN
  /\ running \in BOOLEAN /\ sem \in BOOLEAN
  /\ driver \in {"idle", "scanning", "aborted"}
  /\ at \in [Threads -> Jobs] /\ past \in Pasts

\* An explicit request that met no temporary power stands, and no scan holds
\* temporary power beside it or is about to take it.
Explicit ==
  past.explicit /\ ~past.mixed =>
    requested /\ ~autoPower /\ \A t \in Threads : ~At(t, "take")

\* While no scan has been marked twice, one thread at a time asks the driver,
\* which is idle then and has left no answer, and a driver that is not idle has
\* a scan that is marked as running.
OneAsks ==
  /\ driver = "aborted" => past.aborted
  /\ ~past.marked =>
       /\ driver # "idle" => running
       /\ \A t \in Threads : At(t, "submit") =>
            /\ running /\ driver = "idle" /\ ~sem
            /\ \A u \in Threads : At(u, "submit") => u = t

\* What a waiting thread finds in the semaphore is its own scan's.
OwnAnswer ==
  \A t \in Threads :
    At(t, "wait") /\ sem =>
      at[t].served \/ past.joined \/ past.aborted \/ past.marked

\* Until two starts cross, the one thread that starts a scan finds none running
\* before it has marked its own, and so marks no other.
OneStarts ==
  /\ past.marked => past.crossed
  /\ ~past.crossed => \A t \in Threads : Starting(t) =>
       /\ ~At(t, "already") /\ (At(t, "submit") \/ ~running)
       /\ \A u \in Threads : Starting(u) => u = t

\* A scan stays requested from the moment a thread asks for it to the moment it
\* is marked, unless an off meets it, two starts cross or an attempt is refused.
StaysAsked ==
  ~past.crossed /\ ~past.refused =>
    \A t \in Threads :
      /\ ~At(t, "retry")
      /\ at[t].step \in {"enable", "prepare", "request", "mark"} /\ ~at[t].cut
         => scanRequested

IInv ==
  /\ Typed /\ Explicit /\ OneAsks /\ OwnAnswer /\ OneStarts /\ StaysAsked
  /\ FreshAnswer /\ PoweredWhileStarting

-----------------------------------------------------------------------------
(* What happens to a thread.                                               *)

LEMMA JobFields ==
  ASSUME NEW step \in Steps, NEW wait \in BOOLEAN
  PROVE  Job(step, wait) \in Jobs /\ Job(step, wait).step = step
<1>1. 0 \in 0 .. Retries
  BY RetriesAssumption
<1> QED BY <1>1 DEF Job, Jobs, Steps

LEMMA RestingJob == Resting \in Jobs /\ Resting.step = "idle"
BY JobFields DEF Resting, Steps

\* A thread goes on to another step.
LEMMA GoneTo ==
  ASSUME at \in [Threads -> Jobs], NEW t \in Threads, NEW step \in Steps, GoTo(t, step)
  PROVE  /\ at' \in [Threads -> Jobs] /\ at'[t].step = step
         /\ at'[t].served = at[t].served /\ at'[t].cut = at[t].cut
         /\ \A u \in Threads : u # t => at'[u] = at[u]
<1> DEFINE j == [at[t] EXCEPT !.step = step]
<1>1. at' = [at EXCEPT ![t] = j] /\ at[t] \in Jobs
  BY DEF GoTo
<1>2. /\ j \in Jobs /\ j.step = step
      /\ j.served = at[t].served /\ j.cut = at[t].cut
  BY <1>1 DEF Jobs, Steps
<1> HIDE DEF j
<1> QED BY <1>1, <1>2

LEMMA Returned ==
  ASSUME at \in [Threads -> Jobs], NEW t \in Threads, Return(t)
  PROVE  /\ at' \in [Threads -> Jobs] /\ at'[t].step = "idle"
         /\ \A u \in Threads : u # t => at'[u] = at[u]
BY RestingJob DEF Return

LEMMA NowUnderway ==
  ASSUME at \in [Threads -> Jobs], NEW t \in Threads, NEW wait \in BOOLEAN,
         Underway(t, wait)
  PROVE  /\ at' \in [Threads -> Jobs]
         /\ at'[t].step = IF wait THEN "wait" ELSE "idle"
         /\ \A u \in Threads : u # t => at'[u] = at[u]
<1> DEFINE j == Job("wait", FALSE)
<1>1. j \in Jobs /\ j.step = "wait"
  BY JobFields DEF Steps
<1>2. at' = [at EXCEPT ![t] = IF wait THEN j ELSE Resting]
  BY DEF Underway
<1> HIDE DEF j
<1>3. CASE wait
  BY <1>1, <1>2, <1>3
<1>4. CASE ~wait
  BY <1>2, <1>4, RestingJob
<1> QED BY <1>3, <1>4

\* An off, or a failed preparation, meets whoever is under way.
LEMMA Met ==
  ASSUME at \in [Threads -> Jobs], NEW t \in Threads
  PROVE  /\ CutShort(t) \in Jobs /\ CutShort(t).step = at[t].step
         /\ CutShort(t).served = at[t].served
         /\ at[t].step # "idle" => CutShort(t).cut
<1>1. at[t] \in Jobs
  OBVIOUS
<1>2. CASE At(t, "idle")
  BY <1>1, <1>2 DEF CutShort, At
<1>3. CASE ~At(t, "idle")
  BY <1>1, <1>3 DEF CutShort, Jobs
<1> QED BY <1>2, <1>3

-----------------------------------------------------------------------------
(* What happens to the history, and to a thread that goes on.              *)

\* The fields of the history that the invariant speaks of, apart from those
\* that tell of requests and from one.
Answers == past'.stale = past.stale /\ past'.joined = past.joined
Requests == past'.explicit = past.explicit /\ past'.mixed = past.mixed
Starts ==
  /\ past'.refused = past.refused /\ past'.crossed = past.crossed
  /\ past'.marked = past.marked

SamePast ==
  /\ past' \in Pasts /\ Answers /\ Requests /\ Starts
  /\ past'.aborted = past.aborted

LEMMA OtherPast ==
  ASSUME past \in Pasts,
         \/ UNCHANGED past
         \/ \E b \in BOOLEAN : past' = [past EXCEPT !.kept = b]
         \/ past' = [past EXCEPT !.lost = TRUE]
  PROVE  SamePast
<1>1. CASE UNCHANGED past
  BY <1>1 DEF SamePast, Answers, Requests, Starts
<1>2. CASE \E b \in BOOLEAN : past' = [past EXCEPT !.kept = b]
  BY <1>2 DEF SamePast, Answers, Requests, Starts, Pasts
<1>3. CASE past' = [past EXCEPT !.lost = TRUE]
  BY <1>3 DEF SamePast, Answers, Requests, Starts, Pasts
<1> QED BY <1>1, <1>2, <1>3

\* What the steps of one thread leave alone, and where they take it.
Moves(t, from, to) ==
  /\ at[t].step = from /\ at' \in [Threads -> Jobs] /\ at'[t].step = to
  /\ at'[t].served = at[t].served /\ at'[t].cut = at[t].cut
  /\ \A u \in Threads : u # t => at'[u] = at[u]

LEMMA Moved ==
  ASSUME IInv, NEW t \in Threads, NEW from, NEW to \in Steps, At(t, from), GoTo(t, to)
  PROVE  Moves(t, from, to)
BY GoneTo DEF IInv, Typed, At, Moves

-----------------------------------------------------------------------------
(* Scan commands.                                                          *)

LEMMA ScanBeginKeeps ==
  ASSUME IInv, NEW t \in Threads, NEW wait \in BOOLEAN, ScanBegin(t, wait)
  PROVE  IInv'
<1> DEFINE j == Job("power", wait)
<1>1. /\ at[t].step = "idle" /\ ~scanRequested /\ ~running
      /\ UNCHANGED <<requested, autoPower, scanRequested, running, sem,
                     driver>>
  BY DEF ScanBegin, BeginCall, At, flags, scan, stack
<1>2. /\ at' \in [Threads -> Jobs] /\ at'[t].step = "power"
      /\ \A u \in Threads : u # t => at'[u] = at[u]
  <2>1. j \in Jobs /\ j.step = "power"
    BY JobFields DEF Steps
  <2>2. at' = [at EXCEPT ![t] = j]
    BY DEF ScanBegin
  <2> HIDE DEF j
  <2> QED BY <2>1, <2>2 DEF IInv, Typed
<1>3. /\ past' \in Pasts /\ Answers /\ Requests /\ past'.refused = past.refused
      /\ past'.marked = past.marked /\ past'.aborted = past.aborted
      /\ past'.crossed = (past.crossed \/ StartUnderway)
  <2> DEFINE a == past.already \/ (past.explicit /\ ~StartUnderway)
             c == past.crossed \/ StartUnderway
             p == [past EXCEPT !.already = a]
  <2>1. /\ past' = [p EXCEPT !.crossed = c] /\ past \in Pasts
        /\ a \in BOOLEAN /\ c \in BOOLEAN
    BY DEF ScanBegin, IInv, Typed, Pasts, StartUnderway
  <2> HIDE DEF a, c
  <2>2. /\ p \in Pasts /\ p.stale = past.stale /\ p.joined = past.joined
        /\ p.explicit = past.explicit /\ p.mixed = past.mixed
        /\ p.refused = past.refused /\ p.marked = past.marked
        /\ p.aborted = past.aborted
    BY <2>1 DEF Pasts
  <2> HIDE DEF p
  <2>3. /\ past' \in Pasts /\ past'.crossed = c /\ past'.stale = p.stale
        /\ past'.joined = p.joined /\ past'.explicit = p.explicit
        /\ past'.mixed = p.mixed /\ past'.refused = p.refused
        /\ past'.marked = p.marked /\ past'.aborted = p.aborted
    BY <2>1, <2>2 DEF Pasts
  <2> QED BY <2>2, <2>3 DEF Answers, Requests, c
<1>4. Typed' /\ Explicit'
  BY <1>1, <1>2, <1>3 DEF IInv, Typed, Explicit, At, Requests
<1>5. OneAsks' /\ OwnAnswer' /\ FreshAnswer'
  BY <1>1, <1>2, <1>3 DEF IInv, OneAsks, OwnAnswer, FreshAnswer, At, Answers
<1>6. OneStarts'
  BY <1>1, <1>2, <1>3 DEF IInv, OneStarts, Starting, StartUnderway, At
<1>7. StaysAsked' /\ PoweredWhileStarting'
  BY <1>1, <1>2, <1>3 DEF IInv, StaysAsked, PoweredWhileStarting, At
<1> QED BY <1>4, <1>5, <1>6, <1>7 DEF IInv

\* A thread goes from test to assignment to test until it has the radio ready.
LEMMA StartKeeps ==
  ASSUME IInv, NEW t \in Threads,
         \/ ReadPower(t) \/ TakePower(t) \/ AskScan(t) \/ EnableWifi(t)
         \/ Prepared(t) \/ ReadRunning(t) \/ Retry(t)
  PROVE  IInv'
<1>1. CASE ReadPower(t)
  <2>1. PICK to \in {"take", "ask"} :
          Moves(t, "power", to) /\ (to = "take" => ~requested)
    BY <1>1, Moved DEF ReadPower, TakesPower, Steps
  <2>2. UNCHANGED <<requested, autoPower, scanRequested, running, sem, driver,
                    past>>
    BY <1>1 DEF ReadPower, flags, scan, stack
  <2>3. Typed' /\ Explicit' /\ FreshAnswer'
    BY <2>1, <2>2 DEF IInv, Typed, Explicit, FreshAnswer, Moves, At
  <2>4. OneAsks' /\ OwnAnswer'
    BY <2>1, <2>2 DEF IInv, OneAsks, OwnAnswer, At, Moves
  <2>5. OneStarts' /\ StaysAsked' /\ PoweredWhileStarting'
    BY <2>1, <2>2 DEF IInv, OneStarts, StaysAsked, Starting, At, PoweredWhileStarting, Moves
  <2> QED BY <2>3, <2>4, <2>5 DEF IInv
<1>2. CASE TakePower(t)
  <2>1. Moves(t, "take", "ask") /\ autoPower' = TRUE
    BY <1>2, Moved DEF TakePower, Steps
  <2>2. UNCHANGED <<requested, scanRequested, running, sem, driver, past>>
    BY <1>2 DEF TakePower, scan, stack
  <2>3. Typed' /\ Explicit' /\ FreshAnswer'
    BY <2>1, <2>2 DEF IInv, Typed, Explicit, FreshAnswer, Moves, At
  <2>4. OneAsks' /\ OwnAnswer'
    BY <2>1, <2>2 DEF IInv, OneAsks, OwnAnswer, At, Moves
  <2>5. OneStarts' /\ StaysAsked' /\ PoweredWhileStarting'
    BY <2>1, <2>2 DEF IInv, OneStarts, StaysAsked, Starting, At, PoweredWhileStarting, Moves
  <2> QED BY <2>3, <2>4, <2>5 DEF IInv
<1>3. CASE AskScan(t)
  <2>1. Moves(t, "ask", "enable") /\ scanRequested' = TRUE
    BY <1>3, Moved DEF AskScan, Steps
  <2>2. UNCHANGED <<requested, autoPower, running, sem, driver, past>>
    BY <1>3 DEF AskScan, flags, stack
  <2>3. Typed' /\ Explicit' /\ FreshAnswer'
    BY <2>1, <2>2 DEF IInv, Typed, Explicit, FreshAnswer, Moves, At
  <2>4. OneAsks' /\ OwnAnswer'
    BY <2>1, <2>2 DEF IInv, OneAsks, OwnAnswer, At, Moves
  <2>5. OneStarts' /\ StaysAsked' /\ PoweredWhileStarting'
    BY <2>1, <2>2 DEF IInv, OneStarts, StaysAsked, Starting, At, PoweredWhileStarting, Moves
  <2> QED BY <2>3, <2>4, <2>5 DEF IInv
<1>4. CASE EnableWifi(t)
  <2>1. Moves(t, "enable", "prepare") /\ requested' = TRUE
    BY <1>4, Moved DEF EnableWifi, Steps
  <2>2. UNCHANGED <<autoPower, scanRequested, running, sem, driver, past>>
    BY <1>4 DEF EnableWifi, scan, stack
  <2>3. Typed' /\ Explicit' /\ FreshAnswer'
    BY <2>1, <2>2 DEF IInv, Typed, Explicit, FreshAnswer, Moves, At
  <2>4. OneAsks' /\ OwnAnswer'
    BY <2>1, <2>2 DEF IInv, OneAsks, OwnAnswer, At, Moves
  <2>5. OneStarts' /\ StaysAsked' /\ PoweredWhileStarting'
    BY <2>1, <2>2 DEF IInv, OneStarts, StaysAsked, Starting, At, PoweredWhileStarting, Moves
  <2> QED BY <2>3, <2>4, <2>5 DEF IInv
<1>5. CASE Prepared(t)
  <2>1. Moves(t, "prepare", "request")
    BY <1>5, Moved DEF Prepared, Steps
  <2>2. UNCHANGED <<requested, autoPower, scanRequested, running, sem, driver,
                    past>>
    BY <1>5 DEF Prepared, flags, scan
  <2>3. Typed' /\ Explicit' /\ FreshAnswer'
    BY <2>1, <2>2 DEF IInv, Typed, Explicit, FreshAnswer, Moves, At
  <2>4. OneAsks' /\ OwnAnswer'
    BY <2>1, <2>2 DEF IInv, OneAsks, OwnAnswer, At, Moves
  <2>5. OneStarts' /\ StaysAsked' /\ PoweredWhileStarting'
    BY <2>1, <2>2 DEF IInv, OneStarts, StaysAsked, Starting, At, PoweredWhileStarting, Moves
  <2> QED BY <2>3, <2>4, <2>5 DEF IInv
<1>6. CASE ReadRunning(t)
  <2>1. PICK to \in {"already", "mark"} :
          Moves(t, "request", to) /\ (to = "already" => running)
    BY <1>6, Moved DEF ReadRunning, Steps
  <2>2. UNCHANGED <<requested, autoPower, scanRequested, running, sem, driver,
                    past>>
    BY <1>6 DEF ReadRunning, flags, scan, stack
  <2>3. Typed' /\ Explicit' /\ FreshAnswer'
    BY <2>1, <2>2 DEF IInv, Typed, Explicit, FreshAnswer, Moves, At
  <2>4. OneAsks' /\ OwnAnswer'
    BY <2>1, <2>2 DEF IInv, OneAsks, OwnAnswer, At, Moves
  <2>5. OneStarts' /\ StaysAsked' /\ PoweredWhileStarting'
    BY <2>1, <2>2 DEF IInv, OneStarts, StaysAsked, Starting, At, PoweredWhileStarting, Moves
  <2> QED BY <2>3, <2>4, <2>5 DEF IInv
<1>7. CASE Retry(t)
  <2>1. Moves(t, "retry", "request")
    BY <1>7, Moved DEF Retry, Steps
  <2>2. UNCHANGED <<requested, autoPower, scanRequested, running, sem, driver,
                    past>>
    BY <1>7 DEF Retry, flags, scan, stack
  <2>3. Typed' /\ Explicit' /\ FreshAnswer'
    BY <2>1, <2>2 DEF IInv, Typed, Explicit, FreshAnswer, Moves, At
  <2>4. OneAsks' /\ OwnAnswer'
    BY <2>1, <2>2 DEF IInv, OneAsks, OwnAnswer, At, Moves
  <2>5. past.crossed \/ past.refused
    BY <2>1 DEF IInv, StaysAsked, At, Moves
  <2>6. OneStarts' /\ StaysAsked' /\ PoweredWhileStarting'
    BY <2>1, <2>2, <2>5
       DEF IInv, OneStarts, StaysAsked, Starting, At, PoweredWhileStarting, Moves
  <2> QED BY <2>3, <2>4, <2>6 DEF IInv
<1> QED BY <1>1, <1>2, <1>3, <1>4, <1>5, <1>6, <1>7

\* A preparation that fails withdraws the request.
LEMMA PreparationKeeps ==
  ASSUME IInv, NEW t \in Threads, PrepareFails(t)
  PROVE  IInv'
<1>1. /\ at' \in [Threads -> Jobs] /\ at'[t].step = "idle" /\ at[t].step = "prepare"
      /\ \A u \in Threads : u # t => at'[u] = at[u]
  BY Returned DEF PrepareFails, At, IInv, Typed
<1>2. /\ scanRequested' = FALSE
      /\ UNCHANGED <<requested, autoPower, running, sem, driver>>
  BY DEF PrepareFails, Withdrawn, flags, stack
<1>3. SamePast
  BY OtherPast DEF PrepareFails, IInv, Typed
<1>4. Typed' /\ Explicit' /\ FreshAnswer'
  BY <1>1, <1>2, <1>3
     DEF SamePast, Answers, Requests, Starts, IInv, Typed, Explicit, FreshAnswer, At
<1>5. OneAsks' /\ OwnAnswer'
  BY <1>1, <1>2, <1>3 DEF SamePast, Answers, Starts, IInv, OneAsks, OwnAnswer, At
<1>6. OneStarts' /\ StaysAsked' /\ PoweredWhileStarting'
  BY <1>1, <1>2, <1>3
     DEF SamePast, Starts, IInv, OneStarts, StaysAsked, Starting, At, PoweredWhileStarting
<1> QED BY <1>4, <1>5, <1>6 DEF IInv

\* A command joins the scan of another, at once or when it is about to ask.
Joining(t, wait) ==
  /\ at[t].step \in {"idle", "already"} /\ wait \in BOOLEAN
  /\ Joins(t, wait)
  /\ at[t].step = "idle" => scanRequested' = scanRequested
  /\ at[t].step = "already" => scanRequested' = FALSE
  /\ UNCHANGED <<requested, autoPower, running, sem, driver>>

LEMMA JoiningKeeps ==
  ASSUME IInv, NEW t \in Threads, NEW wait, Joining(t, wait)
  PROVE  IInv'
<1>1. /\ at' \in [Threads -> Jobs]
      /\ at'[t].step = IF wait THEN "wait" ELSE "idle"
      /\ \A u \in Threads : u # t => at'[u] = at[u]
  BY NowUnderway DEF Joining, Joins, IInv, Typed
<1>2. /\ past' = [past EXCEPT !.joined = past.joined \/ wait] /\ past \in Pasts
      /\ (past.joined \/ wait) \in BOOLEAN
  BY DEF Joining, Joins, IInv, Typed, Pasts
<1>3. /\ past' \in Pasts /\ past'.joined = (past.joined \/ wait)
      /\ past'.stale = past.stale /\ Requests /\ Starts
      /\ past'.aborted = past.aborted
  BY <1>2 DEF Pasts, Requests, Starts
<1>4. Typed'
  BY <1>1, <1>3 DEF Joining, IInv, Typed
<1>5. Explicit' /\ FreshAnswer'
  BY <1>1, <1>3 DEF Joining, IInv, Explicit, FreshAnswer, Requests, Starts, At
<1>6. OneAsks'
  BY <1>1, <1>3 DEF Joining, IInv, OneAsks, At, Starts
<1>7. OwnAnswer'
  <2>1. wait => past'.joined
    BY <1>3
  <2> QED BY <1>1, <1>3, <2>1 DEF Joining, IInv, OwnAnswer, At, Starts
<1>8. at[t].step = "already" => past.crossed
  BY DEF IInv, OneStarts, Starting, At
<1>9. OneStarts' /\ StaysAsked'
  BY <1>1, <1>3, <1>8 DEF Joining, IInv, OneStarts, StaysAsked, Starting, At, Starts
<1>10. PoweredWhileStarting'
  BY <1>1, <1>3 DEF Joining, IInv, PoweredWhileStarting, Starts
<1> QED BY <1>4, <1>5, <1>6, <1>7, <1>9, <1>10 DEF IInv

\* The request: marked first, then accepted by an idle driver.
LEMMA RequestKeeps ==
  ASSUME IInv, NEW t \in Threads, MarkStarted(t) \/ Accepted(t)
  PROVE  IInv'
<1>1. CASE MarkStarted(t)
  <2>1. Moves(t, "mark", "submit")
    BY <1>1, Moved DEF MarkStarted, Steps
  <2>2. /\ running' = TRUE /\ scanRequested' = FALSE /\ sem' = FALSE
        /\ UNCHANGED <<requested, autoPower, driver>>
    BY <1>1 DEF MarkStarted, NoSem, flags, stack
  <2>3. /\ past' \in Pasts /\ Answers /\ Requests /\ past'.refused = past.refused
        /\ past'.crossed = past.crossed /\ past'.aborted = past.aborted
        /\ past'.marked = (past.marked \/ running)
    <3>1. /\ past' = [past EXCEPT !.marked = past.marked \/ running] /\ past \in Pasts
          /\ (past.marked \/ running) \in BOOLEAN
      BY <1>1 DEF MarkStarted, IInv, Typed, Pasts
    <3> QED BY <3>1 DEF Pasts, Answers, Requests
  <2>4. running => past.crossed
    BY <2>1 DEF IInv, OneStarts, Starting, At, Moves
  <2>5. Typed' /\ Explicit' /\ FreshAnswer' /\ OwnAnswer'
    BY <2>1, <2>2, <2>3
       DEF IInv, Typed, Explicit, FreshAnswer, OwnAnswer, Moves, At, Answers, Requests
  <2>6. OneAsks'
    BY <2>1, <2>2, <2>3 DEF IInv, Typed, OneAsks, At, Moves
  <2>7. OneStarts' /\ StaysAsked' /\ PoweredWhileStarting'
    BY <2>1, <2>2, <2>3, <2>4
       DEF IInv, OneStarts, StaysAsked, Starting, At, PoweredWhileStarting, Moves
  <2> QED BY <2>5, <2>6, <2>7 DEF IInv
<1>2. CASE Accepted(t)
  <2>1. /\ at' \in [Threads -> Jobs] /\ at'[t].step \in {"wait", "idle"}
        /\ at[t].step = "submit" /\ driver = "idle"
        /\ \A u \in Threads : u # t => at'[u] = at[u]
    <3>1. at[t] \in Jobs /\ Underway(t, at[t].wait)
      BY <1>2 DEF Accepted, IInv, Typed
    <3>2. at[t].wait \in BOOLEAN
      BY <3>1 DEF Jobs
    <3> QED BY <1>2, <3>1, <3>2, NowUnderway DEF Accepted, At, IInv, Typed
  <2>2. /\ driver' = "scanning"
        /\ UNCHANGED <<requested, autoPower, scanRequested, running, sem,
                       past>>
    BY <1>2 DEF Accepted, flags, scan
  <2>3. Typed' /\ Explicit' /\ FreshAnswer'
    BY <2>1, <2>2 DEF IInv, Typed, Explicit, FreshAnswer, At
  <2>4. OneAsks' /\ OwnAnswer'
    BY <2>1, <2>2 DEF IInv, OneAsks, OwnAnswer, At
  <2>5. OneStarts' /\ StaysAsked' /\ PoweredWhileStarting'
    BY <2>1, <2>2 DEF IInv, OneStarts, StaysAsked, Starting, At, PoweredWhileStarting
  <2> QED BY <2>3, <2>4, <2>5 DEF IInv
<1> QED BY <1>1, <1>2

\* An attempt is refused; from then on the history says so.
LEMMA RefusalKeeps ==
  ASSUME IInv, NEW t \in Threads, RefusedBusy(t) \/ Refused(t)
  PROVE  IInv'
<1>1. /\ at' \in [Threads -> Jobs] /\ at'[t].step \in {"retry", "idle"}
      /\ at[t].step = "submit"
      /\ \A u \in Threads : u # t => at'[u] = at[u]
  <2>1. CASE RefusedBusy(t)
    <3> DEFINE k == [at[t] EXCEPT !.step = "retry"]
               j == [k EXCEPT !.tries = at[t].tries + 1]
    <3>1. at' = [at EXCEPT ![t] = j] /\ at[t] \in Jobs /\ at[t].tries < Retries
      BY <2>1 DEF RefusedBusy, IInv, Typed
    <3>2. k \in Jobs /\ k.step = "retry" /\ at[t].tries + 1 \in 0 .. Retries
      <4>1. Retries \in Nat /\ at[t].tries \in 0 .. Retries
        BY <3>1, RetriesAssumption DEF Jobs
      <4> QED BY <3>1, <4>1 DEF Jobs, Steps
    <3> HIDE DEF k
    <3>3. j \in Jobs /\ j.step = "retry"
      BY <3>2 DEF Jobs
    <3> HIDE DEF j
    <3> QED BY <2>1, <3>1, <3>3 DEF RefusedBusy, At, IInv, Typed
  <2>2. CASE Refused(t)
    BY <2>2, Returned DEF Refused, At, IInv, Typed
  <2> QED BY <2>1, <2>2
<1>2. /\ scanRequested' = FALSE /\ running' = FALSE
      /\ past' = [past EXCEPT !.refused = TRUE]
      /\ UNCHANGED <<requested, autoPower, sem, driver>>
  BY DEF RefusedBusy, Refused, MarkStartFailed, flags, stack
<1>3. /\ past' \in Pasts /\ past'.refused = TRUE /\ Answers /\ Requests
      /\ past'.crossed = past.crossed /\ past'.marked = past.marked
      /\ past'.aborted = past.aborted
  BY <1>2 DEF IInv, Typed, Pasts, Answers, Requests
<1>4. Typed' /\ Explicit' /\ FreshAnswer'
  BY <1>1, <1>2, <1>3
     DEF IInv, Typed, Explicit, FreshAnswer, At, Answers, Requests
<1>5. OneAsks' /\ OwnAnswer'
  BY <1>1, <1>2, <1>3 DEF IInv, OneAsks, OwnAnswer, At, Answers
<1>6. OneStarts'
  BY <1>1, <1>2, <1>3 DEF IInv, OneStarts, Starting, At
<1>7. StaysAsked' /\ PoweredWhileStarting'
  BY <1>3 DEF StaysAsked, PoweredWhileStarting
<1> QED BY <1>4, <1>5, <1>6, <1>7 DEF IInv

LEMMA WaitKeeps ==
  ASSUME IInv, NEW t \in Threads, TakeSem(t) \/ WaitTimesOut(t)
  PROVE  IInv'
<1>1. /\ at' \in [Threads -> Jobs] /\ at'[t].step = "idle" /\ at[t].step = "wait"
      /\ \A u \in Threads : u # t => at'[u] = at[u]
  BY Returned DEF TakeSem, WaitTimesOut, At, IInv, Typed
<1>2. /\ sem' \in BOOLEAN /\ (sem' => sem)
      /\ UNCHANGED <<requested, autoPower, scanRequested, running, driver>>
  <2>1. CASE TakeSem(t)
    BY <2>1 DEF TakeSem, flags, stack
  <2>2. CASE WaitTimesOut(t)
    BY <2>2 DEF WaitTimesOut, StillRunning, flags, stack, IInv, Typed
  <2> QED BY <2>1, <2>2
<1>3. /\ past' \in Pasts
      /\ past'.stale => past.stale \/ (sem /\ ~at[t].served)
      /\ past'.joined = past.joined /\ Requests /\ Starts
      /\ past'.aborted = past.aborted
  <2>1. CASE TakeSem(t)
    <3> DEFINE b == past.stale \/ ~at[t].served
    <3>1. past' = [past EXCEPT !.stale = b] /\ b \in BOOLEAN /\ past \in Pasts /\ sem
      BY <2>1 DEF TakeSem, IInv, Typed
    <3> HIDE DEF b
    <3>2. /\ past' \in Pasts /\ past'.stale = b /\ past'.joined = past.joined
          /\ Requests /\ Starts /\ past'.aborted = past.aborted
      BY <3>1 DEF Pasts, Requests, Starts
    <3> QED BY <3>1, <3>2 DEF b
  <2>2. CASE WaitTimesOut(t)
    BY <2>2 DEF WaitTimesOut, IInv, Typed, Requests, Starts
  <2> QED BY <2>1, <2>2
<1>4. Typed' /\ Explicit'
  BY <1>1, <1>2, <1>3 DEF IInv, Typed, Explicit, At, Requests
<1>5. FreshAnswer'
  BY <1>1, <1>3 DEF IInv, FreshAnswer, OwnAnswer, At, Starts
<1>6. OneAsks' /\ OwnAnswer'
  BY <1>1, <1>2, <1>3 DEF IInv, OneAsks, OwnAnswer, At, Starts
<1>7. OneStarts' /\ StaysAsked' /\ PoweredWhileStarting'
  BY <1>1, <1>2, <1>3
     DEF IInv, OneStarts, StaysAsked, Starting, At, PoweredWhileStarting, Starts
<1> QED BY <1>4, <1>5, <1>6, <1>7 DEF IInv

-----------------------------------------------------------------------------
(* The driver.                                                             *)

LEMMA ScanDoneKeeps ==
  ASSUME IInv, ScanDone
  PROVE  IInv'
<1>1. /\ driver \in {"scanning", "aborted"} /\ driver' = "idle"
      /\ scanRequested' = FALSE /\ running' = FALSE /\ sem' = TRUE
      /\ UNCHANGED <<requested, autoPower, past>>
  BY DEF ScanDone, flags
<1>2. /\ at' \in [Threads -> Jobs]
      /\ \A t \in Threads :
           /\ at'[t].step = at[t].step /\ at'[t].cut = at[t].cut
           /\ driver = "scanning" /\ at[t].step = "wait" => at'[t].served
           /\ at[t].served => at'[t].served
  <2> DEFINE Now(t) == IF driver = "scanning" /\ At(t, "wait")
                         THEN [at[t] EXCEPT !.served = TRUE] ELSE at[t]
  <2>1. at' = [t \in Threads |-> Now(t)]
    BY DEF ScanDone
  <2>2. ASSUME NEW t \in Threads
        PROVE  /\ Now(t) \in Jobs
               /\ Now(t).step = at[t].step /\ Now(t).cut = at[t].cut
               /\ driver = "scanning" /\ at[t].step = "wait" => Now(t).served
               /\ at[t].served => Now(t).served
    <3>1. at[t] \in Jobs
      BY DEF IInv, Typed
    <3>2. CASE driver = "scanning" /\ At(t, "wait")
      BY <3>1, <3>2 DEF Jobs
    <3>3. CASE ~(driver = "scanning" /\ At(t, "wait"))
      BY <3>1, <3>3 DEF At
    <3> QED BY <3>2, <3>3
  <2> HIDE DEF Now
  <2> QED BY <2>1, <2>2
<1>3. Typed' /\ Explicit' /\ FreshAnswer'
  BY <1>1, <1>2 DEF IInv, Typed, Explicit, FreshAnswer, At
<1>4. OneAsks'
  BY <1>1, <1>2 DEF IInv, OneAsks, At
<1>5. OwnAnswer'
  BY <1>1, <1>2 DEF IInv, OneAsks, OwnAnswer, At
<1>6. ~past.crossed => \A t \in Threads : ~Starting(t)
  BY <1>1 DEF IInv, OneAsks, OneStarts, At
<1>7. OneStarts' /\ StaysAsked' /\ PoweredWhileStarting'
  BY <1>1, <1>2, <1>6
     DEF IInv, OneStarts, StaysAsked, Starting, At, PoweredWhileStarting
<1> QED BY <1>3, <1>4, <1>5, <1>7 DEF IInv

\* Steps that touch no part of the invariant but the ends of lost scans.
LEMMA OtherStepsKeep ==
  ASSUME IInv, SamePast,
         \/ UNCHANGED driver
         \/ driver = "aborted" /\ driver' = "idle",
         UNCHANGED <<requested, autoPower, scanRequested, running, sem, at>>
  PROVE  IInv'
<1>1. driver' \in {driver, "idle"} /\ (driver' # driver => past.aborted)
  BY DEF IInv, OneAsks
<1>2. Typed' /\ Explicit' /\ FreshAnswer'
  BY <1>1
     DEF SamePast, Answers, Requests, Starts, IInv, Typed, Explicit, FreshAnswer, At
<1>3. OneAsks' /\ OwnAnswer'
  BY <1>1 DEF SamePast, Answers, Starts, IInv, OneAsks, OwnAnswer, At
<1>4. OneStarts' /\ StaysAsked' /\ PoweredWhileStarting'
  BY DEF SamePast, Starts, IInv, OneStarts, StaysAsked, Starting, At, PoweredWhileStarting
<1> QED BY <1>2, <1>3, <1>4 DEF IInv

-----------------------------------------------------------------------------
(* On, off and the auto-off.                                               *)

LEMMA OnKeeps ==
  ASSUME IInv, NEW t \in Threads, NEW reconnect \in BOOLEAN, On(t, reconnect)
  PROVE  IInv'
<1>1. requested' = TRUE /\ UNCHANGED <<autoPower, scanRequested, running, sem,
                                       driver, at>>
  BY DEF On, scan, stack
<1>2. /\ past' \in Pasts /\ past'.explicit = TRUE
      /\ past'.mixed = (past.mixed \/ TemporaryPower)
      /\ Answers /\ Starts /\ past'.aborted = past.aborted
  <2> DEFINE p == [past EXCEPT !.explicit = TRUE]
             b == past.mixed \/ TemporaryPower
  <2>1. past' = [p EXCEPT !.mixed = b] /\ past \in Pasts /\ b \in BOOLEAN
    BY DEF On, IInv, Typed, Pasts, TemporaryPower
  <2> HIDE DEF b
  <2>2. /\ p \in Pasts /\ p.explicit = TRUE
        /\ p.stale = past.stale /\ p.joined = past.joined
        /\ p.refused = past.refused /\ p.crossed = past.crossed
        /\ p.marked = past.marked /\ p.aborted = past.aborted
    BY <2>1 DEF Pasts
  <2> HIDE DEF p
  <2>3. /\ past' \in Pasts /\ past'.explicit = TRUE /\ past'.mixed = b
        /\ past'.stale = p.stale /\ past'.joined = p.joined
        /\ past'.refused = p.refused /\ past'.crossed = p.crossed
        /\ past'.marked = p.marked /\ past'.aborted = p.aborted
    BY <2>1, <2>2 DEF Pasts
  <2> QED BY <2>2, <2>3 DEF b, Answers, Starts
<1>3. Typed' /\ FreshAnswer'
  BY <1>1, <1>2 DEF IInv, Typed, FreshAnswer, Answers, Starts
<1>4. Explicit'
  BY <1>1, <1>2 DEF Explicit, TemporaryPower, At
<1>5. OneAsks' /\ OwnAnswer'
  BY <1>1, <1>2 DEF IInv, OneAsks, OwnAnswer, At, Answers, Starts
<1>6. OneStarts' /\ StaysAsked' /\ PoweredWhileStarting'
  BY <1>1, <1>2
     DEF IInv, OneStarts, StaysAsked, Starting, At, PoweredWhileStarting, Starts
<1> QED BY <1>3, <1>4, <1>5, <1>6 DEF IInv

\* Nobody asks for Wi-Fi any more.
LEMMA UnaskedFields ==
  ASSUME past \in Pasts
  PROVE  /\ Unasked \in Pasts /\ Unasked.explicit = FALSE
         /\ Unasked.stale = past.stale /\ Unasked.joined = past.joined
         /\ Unasked.refused = past.refused /\ Unasked.crossed = past.crossed
         /\ Unasked.marked = past.marked /\ Unasked.aborted = past.aborted
<1> DEFINE p == [past EXCEPT !.explicit = FALSE]
           q == [p EXCEPT !.mixed = FALSE]
<1>1. /\ p \in Pasts /\ p.explicit = FALSE
      /\ p.stale = past.stale /\ p.joined = past.joined
      /\ p.refused = past.refused /\ p.crossed = past.crossed
      /\ p.marked = past.marked /\ p.aborted = past.aborted
  BY DEF Pasts
<1> HIDE DEF p
<1>2. /\ q \in Pasts /\ q.explicit = FALSE
      /\ q.stale = past.stale /\ q.joined = past.joined
      /\ q.refused = past.refused /\ q.crossed = past.crossed
      /\ q.marked = past.marked /\ q.aborted = past.aborted
  BY <1>1 DEF Pasts
<1>3. Unasked = [q EXCEPT !.already = FALSE]
  BY DEF Unasked, p
<1> HIDE DEF q
<1> QED BY <1>2, <1>3 DEF Pasts

\* Whoever is starting a scan is met by what withdraws the request.
LEMMA OffKeeps ==
  ASSUME IInv, NEW t \in Threads, Off(t)
  PROVE  IInv'
<1> DEFINE Now(u) == IF u = t THEN Job("lower", FALSE) ELSE CutShort(u)
<1>1. /\ at[t].step = "idle" /\ requested' = FALSE /\ autoPower' = FALSE
      /\ scanRequested' = FALSE
      /\ UNCHANGED <<running, sem, driver>>
  BY DEF Off, BeginCall, At, SwitchOff, stack
<1>2. /\ at' \in [Threads -> Jobs] /\ at'[t].step = "lower"
      /\ \A u \in Threads : u # t =>
           /\ at'[u].step = at[u].step /\ at'[u].served = at[u].served
           /\ at[u].step # "idle" => at'[u].cut
  <2>1. at' = [u \in Threads |-> Now(u)]
    BY DEF Off
  <2>2. ASSUME NEW u \in Threads
        PROVE  /\ Now(u) \in Jobs
               /\ u = t => Now(u).step = "lower"
               /\ u # t => /\ Now(u).step = at[u].step /\ Now(u).served = at[u].served
                           /\ at[u].step # "idle" => Now(u).cut
    <3>1. Job("lower", FALSE) \in Jobs /\ Job("lower", FALSE).step = "lower"
      BY JobFields DEF Steps
    <3> QED BY <3>1, Met DEF IInv, Typed
  <2> HIDE DEF Now
  <2> QED BY <2>1, <2>2
<1>3. /\ past' \in Pasts /\ past'.explicit = FALSE
      /\ past'.aborted = (past.aborted \/ scanRequested \/ running)
      /\ Answers /\ Starts
  <2> DEFINE b == past.aborted \/ scanRequested \/ running
  <2>1. past' = [Unasked EXCEPT !.aborted = b] /\ b \in BOOLEAN
    BY UnaskedFields DEF Off, IInv, Typed, Pasts
  <2> HIDE DEF b
  <2>2. /\ past' \in Pasts /\ past'.explicit = FALSE /\ past'.aborted = b
        /\ Answers /\ Starts
    BY <2>1, UnaskedFields DEF IInv, Typed, Pasts, Answers, Starts
  <2> QED BY <2>2 DEF b
<1>4. Typed' /\ Explicit' /\ FreshAnswer'
  BY <1>1, <1>2, <1>3 DEF IInv, Typed, Explicit, FreshAnswer, Answers, Starts
<1>5. OneAsks'
  BY <1>1, <1>2, <1>3 DEF IInv, OneAsks, At, Starts
<1>6. OwnAnswer'
  BY <1>1, <1>2, <1>3 DEF IInv, OwnAnswer, At, Answers, Starts
<1>7. OneStarts'
  BY <1>1, <1>2, <1>3 DEF IInv, OneStarts, Starting, At, Starts
<1>8. StaysAsked'
  BY <1>1, <1>2, <1>3 DEF IInv, StaysAsked, At, Starts
<1>9. PoweredWhileStarting'
  BY <1>2 DEF PoweredWhileStarting
<1> QED BY <1>4, <1>5, <1>6, <1>7, <1>8, <1>9 DEF IInv

\* The interface goes down under a scan.
LEMMA LowerKeeps ==
  ASSUME IInv, NEW t \in Threads, Lower(t)
  PROVE  IInv'
<1>1. /\ at' \in [Threads -> Jobs] /\ at'[t].step = "idle" /\ at[t].step = "lower"
      /\ \A u \in Threads : u # t => at'[u] = at[u]
  BY Returned DEF Lower, At, IInv, Typed
<1>2. /\ driver' = IF driver = "scanning" THEN "aborted" ELSE driver
      /\ UNCHANGED <<requested, autoPower, scanRequested, running, sem>>
  BY DEF Lower, flags, scan
<1>3. /\ past' \in Pasts
      /\ past'.aborted = (past.aborted \/ driver = "scanning")
      /\ Answers /\ Requests /\ Starts
  <2> DEFINE b == past.aborted \/ driver = "scanning"
  <2>1. past' = [past EXCEPT !.aborted = b] /\ past \in Pasts /\ b \in BOOLEAN
    BY DEF Lower, IInv, Typed
  <2> HIDE DEF b
  <2>2. /\ past' \in Pasts /\ past'.aborted = b
        /\ Answers /\ Requests /\ Starts
    BY <2>1 DEF Pasts, Answers, Requests, Starts
  <2> QED BY <2>2 DEF b
<1>4. Typed' /\ Explicit' /\ FreshAnswer'
  BY <1>1, <1>2, <1>3
     DEF IInv, Typed, Explicit, FreshAnswer, At, Answers, Requests, Starts
<1>5. OneAsks' /\ OwnAnswer'
  BY <1>1, <1>2, <1>3 DEF IInv, OneAsks, OwnAnswer, At, Answers, Starts
<1>6. OneStarts' /\ StaysAsked' /\ PoweredWhileStarting'
  BY <1>1, <1>2, <1>3
     DEF IInv, OneStarts, StaysAsked, Starting, At, PoweredWhileStarting, Starts
<1> QED BY <1>4, <1>5, <1>6 DEF IInv

\* It stays up, and a scan goes on.
LEMMA LowerFailsKeeps ==
  ASSUME IInv, NEW t \in Threads, LowerFails(t)
  PROVE  IInv'
<1>1. /\ at' \in [Threads -> Jobs] /\ at'[t].step = "idle" /\ at[t].step = "lower"
      /\ \A u \in Threads : u # t => at'[u] = at[u]
  BY Returned DEF LowerFails, At, IInv, Typed
<1>2. UNCHANGED <<requested, autoPower, scanRequested, running, sem, driver, past>>
  BY DEF LowerFails, flags, scan, stack
<1>3. Typed' /\ Explicit' /\ FreshAnswer'
  BY <1>1, <1>2 DEF IInv, Typed, Explicit, FreshAnswer, At
<1>4. OneAsks' /\ OwnAnswer'
  BY <1>1, <1>2 DEF IInv, OneAsks, OwnAnswer, At
<1>5. OneStarts' /\ StaysAsked' /\ PoweredWhileStarting'
  BY <1>1, <1>2
     DEF IInv, OneStarts, StaysAsked, Starting, At, PoweredWhileStarting
<1> QED BY <1>3, <1>4, <1>5 DEF IInv

\* The auto-off applies only when no scan is requested or running, so that
\* nobody is past asking for one.
LEMMA AutoOffKeeps ==
  ASSUME IInv, AutoOff
  PROVE  IInv'
<1>1. /\ at' \in [Threads -> Jobs] /\ at'[WorkQueue].step = "lower"
      /\ at'[WorkQueue].served = at[WorkQueue].served
      /\ \A u \in Threads : u # WorkQueue => at'[u] = at[u]
  <2>1. GoTo(WorkQueue, "lower") /\ "lower" \in Steps /\ WorkQueue \in Threads
    BY ThreadsAssumption DEF AutoOff, Steps
  <2> QED BY <2>1, GoneTo DEF IInv, Typed
<1>2. /\ autoPower /\ ~running /\ ~scanRequested
      /\ requested' = FALSE /\ autoPower' = FALSE /\ scanRequested' = FALSE
      /\ UNCHANGED <<running, sem, driver, past>>
  BY DEF AutoOff, OffApplies, SwitchOff, stack
<1>3. ~past.crossed /\ ~past.refused =>
        \A t \in Threads :
          ~(at[t].step \in {"prepare", "request", "mark", "submit"} /\ ~at[t].cut)
  BY <1>2 DEF IInv, OneAsks, OneStarts, StaysAsked, At
<1>4. Typed' /\ FreshAnswer'
  BY <1>1, <1>2 DEF IInv, Typed, FreshAnswer
<1>5. Explicit'
  BY <1>2 DEF IInv, Explicit
<1>6. OneAsks' /\ OwnAnswer'
  BY <1>1, <1>2 DEF IInv, OneAsks, OwnAnswer, At
<1>7. OneStarts' /\ StaysAsked'
  BY <1>1, <1>2 DEF IInv, OneStarts, StaysAsked, Starting, At
<1>8. PoweredWhileStarting'
  BY <1>1, <1>2, <1>3 DEF PoweredWhileStarting
<1> QED BY <1>4, <1>5, <1>6, <1>7, <1>8 DEF IInv

\* The worker gives the request up: it may have been a scan's.
LEMMA GiveUpKeeps ==
  ASSUME IInv, WorkerGivesUp
  PROVE  IInv'
<1>1. requested' = FALSE /\ UNCHANGED <<autoPower, scanRequested, running, sem,
                                        driver>>
  BY DEF WorkerGivesUp, scan, stack
<1>2. /\ at' \in [Threads -> Jobs]
      /\ \A t \in Threads :
           /\ at'[t].step = at[t].step /\ at'[t].served = at[t].served
           /\ at[t].step # "idle" => at'[t].cut
  <2>1. at' = [t \in Threads |-> CutShort(t)]
    BY DEF WorkerGivesUp
  <2> QED BY <2>1, Met DEF IInv, Typed
<1>3. /\ past' \in Pasts /\ past'.explicit = FALSE
      /\ Answers /\ Starts /\ past'.aborted = past.aborted
  <2>1. past' = [Unasked EXCEPT !.kept = TRUE]
    BY DEF WorkerGivesUp
  <2> QED BY <2>1, UnaskedFields DEF IInv, Typed, Pasts, Answers, Starts
<1>4. Typed' /\ Explicit' /\ FreshAnswer'
  BY <1>1, <1>2, <1>3 DEF IInv, Typed, Explicit, FreshAnswer, Answers, Starts
<1>5. OneAsks' /\ OwnAnswer'
  BY <1>1, <1>2, <1>3 DEF IInv, OneAsks, OwnAnswer, At, Answers, Starts
<1>6. OneStarts' /\ StaysAsked' /\ PoweredWhileStarting'
  BY <1>1, <1>2, <1>3
     DEF IInv, OneStarts, StaysAsked, Starting, At, PoweredWhileStarting, Starts
<1> QED BY <1>4, <1>5, <1>6 DEF IInv

-----------------------------------------------------------------------------
(* The theorems.                                                           *)

LEMMA IInvHolds == Spec => []IInv
<1>1. Init => IInv
  <2> SUFFICES ASSUME Init PROVE IInv
    OBVIOUS
  <2>1. /\ at \in [Threads -> Jobs] /\ \A t \in Threads : at[t].step = "idle"
    BY RestingJob DEF Init
  <2>2. /\ past \in Pasts /\ ~past.explicit /\ ~past.stale /\ ~past.marked
    BY DEF Init, NothingYet, Pasts
  <2> QED BY <2>1, <2>2
          DEF Init, IInv, Typed, Explicit, OneAsks, OwnAnswer, OneStarts, StaysAsked,
              Starting, At, FreshAnswer, PoweredWhileStarting
<1>2. IInv /\ [Next]_vars => IInv'
  <2> SUFFICES ASSUME IInv, [Next]_vars PROVE IInv'
    OBVIOUS
  <2>1. ASSUME NEW t \in Threads, Command(t) PROVE IInv'
    <3>1. CASE \E wait \in BOOLEAN : ScanBegin(t, wait)
      BY <3>1, ScanBeginKeeps
    <3>2. CASE \E wait \in BOOLEAN : ScanJoin(t, wait)
      <4>1. PICK wait \in BOOLEAN : ScanJoin(t, wait)
        BY <3>2
      <4>2. Joining(t, wait)
        BY <4>1 DEF ScanJoin, BeginCall, At, Joining, flags, scan, stack
      <4> QED BY <4>2, JoiningKeeps
    <3>3. CASE Clear(t)
      <4>1. UNCHANGED <<requested, autoPower, scanRequested, running, sem,
                        driver, at, past>>
        BY <3>3 DEF Clear, flags, stack
      <4> QED BY <4>1, OtherPast, OtherStepsKeep DEF IInv, Typed
    <3>4. CASE Off(t)
      BY <3>4, OffKeeps
    <3>5. CASE \E reconnect \in BOOLEAN : On(t, reconnect)
      BY <3>5, OnKeeps
    <3> QED BY <2>1, <3>1, <3>2, <3>3, <3>4, <3>5 DEF Command
  <2>2. ASSUME NEW t \in Threads, Proceeds(t) PROVE IInv'
    <3>1. CASE AlreadyRunning(t)
      <4>1. at[t] \in Jobs
        BY DEF IInv, Typed
      <4>2. at[t].wait \in BOOLEAN
        BY <4>1 DEF Jobs
      <4>3. Joining(t, at[t].wait)
        BY <3>1, <4>2 DEF AlreadyRunning, At, Joining, flags, stack
      <4> QED BY <4>3, JoiningKeeps
    <3> QED BY <2>2, <3>1, StartKeeps, PreparationKeeps, RequestKeeps, RefusalKeeps,
               WaitKeeps, LowerKeeps, LowerFailsKeeps DEF Proceeds
  <2>3. ASSUME NEW e \in Results, Hear(e) PROVE IInv'
    <3>1. UNCHANGED <<requested, autoPower, scanRequested, running, sem,
                      driver, at, past>>
      BY <2>3 DEF Hear, flags, stack
    <3> QED BY <3>1, OtherPast, OtherStepsKeep DEF IInv, Typed
  <2>4. CASE DoneLost
    <3>1. /\ driver = "aborted" /\ driver' = "idle"
          /\ past' = [past EXCEPT !.lost = TRUE]
          /\ UNCHANGED <<requested, autoPower, scanRequested, running, sem,
                         at>>
      BY <2>4 DEF DoneLost, flags, scan
    <3> QED BY <3>1, OtherPast, OtherStepsKeep DEF IInv, Typed
  <2>5. CASE AutoOffNotNow
    <3> DEFINE b == past.kept \/ (autoPower /\ connected)
    <3>1. /\ past' = [past EXCEPT !.kept = b] /\ b \in BOOLEAN
          /\ UNCHANGED <<requested, autoPower, scanRequested, running, sem,
                         driver, at>>
      BY <2>5 DEF AutoOffNotNow, flags, scan, stack
    <3> HIDE DEF b
    <3> QED BY <3>1, OtherPast, OtherStepsKeep DEF IInv, Typed
  <2>6. CASE WorkerPrepares \/ Associates \/ AssociationLost \/ UNCHANGED vars
    <3>1. UNCHANGED <<requested, autoPower, scanRequested, running, sem,
                      driver, at, past>>
      BY <2>6 DEF WorkerPrepares, Associates, AssociationLost, vars, flags, scan, stack
    <3> QED BY <3>1, OtherPast, OtherStepsKeep DEF IInv, Typed
  <2> QED BY <2>1, <2>2, <2>3, <2>4, <2>5, <2>6, ScanDoneKeeps, AutoOffKeeps, GiveUpKeeps
          DEF Next, DriverEnds, WorkItem
<1> QED BY <1>1, <1>2, PTL DEF Spec

\* An explicit request survives every scan and its auto-off where it did not
\* come while a scan held temporary power, or had found that it needs it and
\* not yet taken it (wt_wifi.c:438, 1207, 1383).
THEOREM UnmixedSurvives == Spec => []UnmixedOnSurvives
<1>1. IInv => UnmixedOnSurvives
  BY DEF IInv, Explicit, UnmixedOnSurvives
<1> QED BY <1>1, IInvHolds, PTL

\* A command that waits for its own scan is answered by the end of that scan,
\* unless a scan was interrupted, or marked a second time by a start that
\* crossed it (wt_wifi.c:389, 410, 701).
THEOREM AnswersAreFresh == Spec => []FreshAnswer
<1>1. IInv => FreshAnswer
  BY DEF IInv
<1> QED BY <1>1, IInvHolds, PTL

\* The auto-off of one scan never takes the power of the next while that one
\* starts, unless two starts cross or an attempt has been refused
\* (wt_wifi.c:400, 434, 1355, 1383).
THEOREM StartsArePowered == Spec => []PoweredWhileStarting
<1>1. IInv => PoweredWhileStarting
  BY DEF IInv
<1> QED BY <1>1, IInvHolds, PTL

-----------------------------------------------------------------------------
(* The table and the types of the rest.                                    *)

\* The table, of at most MaxResults results, holds the strongest of the scan.
TableInv ==
  /\ heard \in SUBSET Results
  /\ \E n \in 0 .. MaxResults : Proper(table, n, Results, heard)

LEMMA EmptyTable == Proper(<<>>, 0, Results, {})
<1>1. <<>> \in Tables(0, Results) /\ 1 .. 0 = {}
  BY DEF Tables
<1> QED BY <1>1 DEF Proper, Covers, Falling

\* A table that is in order stays as it is when the scan is done.
LEMMA DoneLeavesTable ==
  ASSUME TableInv
  PROVE  Sorted(table) = table
<1>1. PICK n \in 0 .. MaxResults : Proper(table, n, Results, heard)
  BY DEF TableInv
<1>2. n \in Nat /\ Numeric(Results) /\ table \in Tables(n, Results) /\ Falling(table, n)
  BY <1>1, ResultsAssumption, MaxResultsAssumption DEF Proper, Numeric
<1> QED BY <1>2, SortStays

LEMMA TableInvHolds == Spec => []TableInv
<1>1. {} \in SUBSET Results /\ 0 \in 0 .. MaxResults
  BY MaxResultsAssumption
<1>2. Init => TableInv
  BY <1>1, EmptyTable DEF Init, TableInv
<1>3. TableInv /\ [Next]_vars => TableInv'
  <2> SUFFICES ASSUME TableInv, [Next]_vars PROVE TableInv'
    OBVIOUS
  <2>1. CASE table' = <<>> /\ heard' = {}
    BY <1>1, <2>1, EmptyTable DEF TableInv
  <2>2. CASE \E e \in Results : Hear(e)
    <3>1. PICK e \in Results : table' = Store(table, e) /\ heard' = heard \cup {e}
      BY <2>2 DEF Hear
    <3>2. PICK n \in 0 .. MaxResults : Proper(table, n, Results, heard)
      BY DEF TableInv
    <3>3. heard \in SUBSET Results /\ Numeric(Results)
      BY ResultsAssumption DEF TableInv, Numeric
    <3>4. \E m \in 0 .. MaxResults : Proper(Store(table, e), m, Results, heard \cup {e})
      BY <3>2, <3>3, StoreCovers
    <3> QED BY <3>1, <3>3, <3>4 DEF TableInv
  <2>3. CASE ScanDone
    <3>1. table' = Sorted(table) /\ heard' = heard
      BY <2>3 DEF ScanDone
    <3>2. table' = table
      BY <3>1, DoneLeavesTable
    <3> QED BY <3>1, <3>2 DEF TableInv
  <2>4. CASE UNCHANGED <<table, heard>>
    BY <2>4 DEF TableInv
  <2>5. ASSUME NEW t \in Threads, Command(t) \/ Proceeds(t)
        PROVE  (table' = <<>> /\ heard' = {}) \/ UNCHANGED <<table, heard>>
    BY <2>5 DEF Command, ScanBegin, ScanJoin, Clear, Off, SwitchOff, On, scan, Proceeds,
                ReadPower, TakePower, AskScan, EnableWifi, Prepared, PrepareFails,
                ReadRunning, MarkStarted, NoResults, AlreadyRunning, Accepted,
                RefusedBusy, Refused, MarkStartFailed, Retry, TakeSem, WaitTimesOut, Lower,
                LowerFails
  <2>6. DoneLost \/ WorkItem => UNCHANGED <<table, heard>>
    BY DEF DoneLost, WorkItem, AutoOff, SwitchOff, AutoOffNotNow, scan
  <2>7. WorkerPrepares \/ WorkerGivesUp \/ Associates \/ AssociationLost \/ UNCHANGED vars
        => UNCHANGED <<table, heard>>
    BY DEF WorkerPrepares, WorkerGivesUp, Associates, AssociationLost, vars, scan
  <2> QED BY <2>1, <2>2, <2>3, <2>4, <2>5, <2>6, <2>7 DEF Next, DriverEnds
<1> QED BY <1>2, <1>3, PTL DEF Spec

\* What the other variables are.
RestTyped ==
  /\ associate \in BOOLEAN /\ connected \in BOOLEAN /\ ifUp \in BOOLEAN
  /\ autoOff \in Threads \cup {Idle, Due}

LEMMA RestTypedHolds == Spec => []RestTyped
<1>1. Init => RestTyped
  BY DEF Init, RestTyped
<1>2. RestTyped /\ [Next]_vars => RestTyped'
  <2> SUFFICES ASSUME RestTyped, [Next]_vars PROVE RestTyped'
    OBVIOUS
  <2>1. ASSUME NEW t \in Threads, Command(t) PROVE RestTyped'
    BY <2>1 DEF Command, ScanBegin, ScanJoin, Clear, Off, SwitchOff, On, flags, stack, RestTyped
  <2>2. ASSUME NEW t \in Threads, Proceeds(t) PROVE RestTyped'
    BY <2>2 DEF Proceeds, ReadPower, TakePower, AskScan, EnableWifi, Prepared,
                PrepareFails, ReadRunning, MarkStarted, AlreadyRunning, Accepted,
                RefusedBusy, Refused, MarkStartFailed, ScheduleAutoOff, Retry, TakeSem,
                WaitTimesOut, Lower, LowerFails, flags, stack, RestTyped
  <2>3. ASSUME NEW e \in Results, Hear(e) PROVE RestTyped'
    BY <2>3 DEF Hear, flags, stack, RestTyped
  <2>4. CASE DriverEnds \/ WorkItem
    BY <2>4 DEF DriverEnds, ScanDone, DoneAutoOff, ScheduleAutoOff, DoneLost, WorkItem,
                AutoOff, AutoOffTurn, SwitchOff, AutoOffNotNow, flags, stack, RestTyped
  <2>5. CASE WorkerPrepares \/ WorkerGivesUp \/ Associates \/ AssociationLost
    BY <2>5 DEF WorkerPrepares, WorkerGivesUp, Associates, AssociationLost, flags, stack,
                RestTyped
  <2>6. CASE UNCHANGED vars
    BY <2>6 DEF vars, flags, stack, RestTyped
  <2> QED BY <2>1, <2>2, <2>3, <2>4, <2>5, <2>6 DEF Next
<1> QED BY <1>1, <1>2, PTL DEF Spec

-----------------------------------------------------------------------------
(* The theorems about the table and the types.                             *)

\* wt_wifi_scan_sort_locked only reorders the table, and leaves the strongest
\* result first (wt_wifi.c:316-327).
THEOREM SortIsCorrect ==
  ASSUME NEW E, Numeric(E), NEW s \in Seq(E)
  PROVE  /\ \E p \in Bijection(DOMAIN s, DOMAIN s) :
              Sorted(s) = [k \in DOMAIN s |-> s[p[k]]]
         /\ \A k, l \in DOMAIN s : k <= l => Sorted(s)[k].rssi >= Sorted(s)[l].rssi
<1> DEFINE n == Len(s)
<1>1. n \in Nat /\ DOMAIN s = 1 .. n /\ s \in Tables(n, E)
  BY DEF Tables
<1>2. Reorders(Sorted(s), s, 1, n) /\ Falling(Sorted(s), n)
  BY <1>1, SortSorts
<1> QED BY <1>1, <1>2 DEF Reorders, Falling, Falls

\* A result that is stored in a table of the strongest networks leaves the
\* table of the strongest with that result, full or not (wt_wifi.c:329-381).
THEOREM StoreKeepsStrongest ==
  ASSUME NEW E, Numeric(E), NEW s \in Seq(E), Len(s) <= MaxResults,
         NEW given \in SUBSET E, HoldsStrongest(s, given), NEW e \in E
  PROVE  /\ Store(s, e) \in Seq(E) /\ Len(Store(s, e)) <= MaxResults
         /\ HoldsStrongest(Store(s, e), given \cup {e})
<1> DEFINE n == Len(s)
<1>1. n \in 0 .. MaxResults /\ s \in Tables(n, E)
  BY MaxResultsAssumption DEF Tables
<1>2. Proper(s, n, E, given)
  BY <1>1, HoldsMeans DEF Proper
<1>3. PICK m \in 0 .. MaxResults : Proper(Store(s, e), m, E, given \cup {e})
  BY <1>1, <1>2, StoreCovers
<1>4. Store(s, e) \in Tables(m, E) /\ given \cup {e} \in SUBSET E
  BY <1>3 DEF Proper
<1>5. HoldsStrongest(Store(s, e), given \cup {e})
  BY <1>3, <1>4, HoldsMeans DEF Proper
<1> DEFINE t == Store(s, e)
<1>6. t \in Seq(E) /\ Len(t) <= MaxResults
  <2>1. t \in Tables(m, E) /\ m \in Nat /\ m <= MaxResults
    BY <1>4, MaxResultsAssumption
  <2> HIDE DEF t
  <2> QED BY <2>1 DEF Tables
<1> QED BY <1>5, <1>6

\* The table holds exactly the strongest networks heard since a scan was last
\* marked as started, or the table cleared (wt_wifi.c:329-390).
THEOREM TableHoldsOneScan == Spec => []TableIsOneScan
<1>1. TableInv => TableIsOneScan
  <2> SUFFICES ASSUME TableInv PROVE HoldsStrongest(table, heard)
    BY DEF TableIsOneScan
  <2>1. PICK n \in 0 .. MaxResults : Proper(table, n, Results, heard)
    BY DEF TableInv
  <2>2. heard \in SUBSET Results /\ Numeric(Results) /\ table \in Tables(n, Results)
    BY <2>1, ResultsAssumption DEF TableInv, Numeric, Proper
  <2> QED BY <2>1, <2>2, HoldsMeans DEF Proper
<1> QED BY <1>1, TableInvHolds, PTL

\* Every variable has its type, and the table never outgrows its array
\* (wt_wifi.c:355).
THEOREM TypeCorrect == Spec => []TypeOK
<1>1. IInv /\ TableInv /\ RestTyped => TypeOK
  <2> SUFFICES ASSUME IInv, TableInv, RestTyped PROVE TypeOK
    OBVIOUS
  <2>1. Len(table) <= MaxResults
    <3>1. PICK n \in 0 .. MaxResults : table \in Tables(n, Results)
      BY DEF TableInv, Proper
    <3>2. Len(table) = n
      BY <3>1, MaxResultsAssumption DEF Tables
    <3> QED BY <3>2, MaxResultsAssumption
  <2> QED BY <2>1 DEF IInv, Typed, Jobs, RestTyped, TypeOK
<1> QED BY <1>1, IInvHolds, TableInvHolds, RestTypedHolds, PTL

\* Once a scan is done the indexes a client has read stay valid until the
\* table is cleared, unless a start has crossed another and marked a running
\* scan a second time (wt_wifi.c:396, 410, 820, 1359).
THEOREM IndexesStay == Spec => IndexesHold
<1> DEFINE Holds == ~running' /\ ~past.marked => table' \in {table, <<>>}
<1>1. IInv /\ TableInv /\ [Next]_vars => [Holds]_vars
  <2> SUFFICES ASSUME IInv, TableInv, Next, ~running', ~past.marked
               PROVE  table' \in {table, <<>>}
    OBVIOUS
  <2>1. ASSUME NEW t \in Threads, Command(t) \/ Proceeds(t)
        PROVE  table' = <<>> \/ UNCHANGED table
    BY <2>1 DEF Command, ScanBegin, ScanJoin, Clear, Off, SwitchOff, On, scan, Proceeds,
                ReadPower, TakePower, AskScan, EnableWifi, Prepared, PrepareFails,
                ReadRunning, MarkStarted, NoResults, AlreadyRunning, Accepted,
                RefusedBusy, Refused, MarkStartFailed, Retry, TakeSem, WaitTimesOut, Lower,
                LowerFails
  <2>2. ASSUME NEW e \in Results PROVE ~Hear(e)
    <3>1. driver = "scanning" => running
      BY DEF IInv, OneAsks
    <3> QED BY <3>1 DEF Hear
  <2>3. ScanDone => UNCHANGED table
    BY DoneLeavesTable DEF ScanDone
  <2>4. DoneLost \/ WorkItem => UNCHANGED table
    BY DEF DoneLost, WorkItem, AutoOff, SwitchOff, AutoOffNotNow, scan
  <2>5. WorkerPrepares \/ WorkerGivesUp \/ Associates \/ AssociationLost => UNCHANGED table
    BY DEF WorkerPrepares, WorkerGivesUp, Associates, AssociationLost, scan
  <2> QED BY <2>1, <2>2, <2>3, <2>4, <2>5 DEF Next, DriverEnds
<1> QED BY <1>1, IInvHolds, TableInvHolds, PTL DEF Spec, IndexesHold
=============================================================================
