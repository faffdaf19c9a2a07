--------------------------- MODULE RecursionProofs ----------------------------
(***************************************************************************)
(* What Only returns for every sequence and every set, and what folds over *)
(* sequences obey.                                                         *)
(*                                                                         *)
(* Only is a recursive function, so its equation has to be proved before   *)
(* it can be used: a function that obeys it exists (Recursion), hence the  *)
(* one that is chosen obeys it too.  Induction over numbers is used in the *)
(* form "a set with 0 and every successor contains all of Nat".            *)
(***************************************************************************)
EXTENDS Subsequences, Integers, WellFoundedInduction, TLAPS

-----------------------------------------------------------------------------
(* Induction and recursion, stated for sets *)

\* Every set of natural numbers has a least element.
LEMMA LeastNatural ==
  ASSUME NEW T \in SUBSET Nat, T # {}
  PROVE  \E m \in T : \A k \in T : m <= k
<1>1. PICK m \in T : \A k \in T : ~(<<k, m>> \in OpToRel(<, Nat))
  BY NatLessThanWellFounded, WFMin
<1>2. ASSUME NEW k \in T, ~(m <= k)
      PROVE  FALSE
  <2>1. <<k, m>> \in Nat \X Nat /\ k < m
    BY <1>2
  <2>2. <<k, m>> \in OpToRel(<, Nat)
    BY <2>1 DEF OpToRel
  <2>3. QED
    BY <2>2, <1>1
<1>3. QED
  BY <1>2

\* A set that contains 0 and every successor contains every natural number.
LEMMA Induction ==
  ASSUME NEW S, 0 \in S, \A n \in Nat : n \in S => n + 1 \in S
  PROVE  Nat \subseteq S
<1> SUFFICES ASSUME Nat \ S # {} PROVE FALSE
  OBVIOUS
<1>1. PICK m \in Nat \ S : \A k \in Nat \ S : m <= k
  BY LeastNatural
<1>2. m - 1 \in Nat /\ ~(m <= m - 1)
  BY <1>1
<1>3. m - 1 \in S
  BY <1>1, <1>2
<1>4. QED
  BY <1>1, <1>2, <1>3

\* Steps that depend on the index, and the functions on 0..m that take them.
Steps(V, m) == [1..m -> [V -> V]]
Runs(V, v0, m, step) ==
    {g \in [0..m -> V] : g[0] = v0 /\ \A n \in 1..m : g[n] = step[n][g[n - 1]]}

\* There is a function that starts at v0 and takes the given steps.
LEMMA Recursion ==
  ASSUME NEW V, NEW v0 \in V, NEW m \in Nat, NEW step \in Steps(V, m)
  PROVE  \E g : g \in Runs(V, v0, m, step)
<1> DEFINE Obeys(g, k) == g[0] = v0 /\ \A n \in 1..k : g[n] = step[n][g[n - 1]]
           Reached == {k \in Nat : k <= m => \E g \in [0..k -> V] : Obeys(g, k)}
<1>1. 0 \in Reached
  <2>1. [n \in 0..0 |-> v0] \in [0..0 -> V] /\ Obeys([n \in 0..0 |-> v0], 0)
    OBVIOUS
  <2>2. QED
    BY <2>1
<1>2. ASSUME NEW k \in Nat, k \in Reached
      PROVE  k + 1 \in Reached
  <2> SUFFICES ASSUME k + 1 <= m
               PROVE  \E g \in [0..(k + 1) -> V] : Obeys(g, k + 1)
    OBVIOUS
  <2>1. PICK g \in [0..k -> V] : Obeys(g, k)
    BY <1>2
  <2>2. step[k + 1] \in [V -> V] /\ g[k] \in V
    BY <2>1 DEF Steps
  <2> DEFINE h == [n \in 0..(k + 1) |-> IF n = k + 1 THEN step[k + 1][g[k]] ELSE g[n]]
  <2>3. h \in [0..(k + 1) -> V]
    BY <2>1, <2>2
  <2>4. h[k + 1] = step[k + 1][g[k]] /\ \A n \in 0..k : h[n] = g[n]
    OBVIOUS
  <2> HIDE DEF h
  <2>5. Obeys(h, k + 1)
    <3>1. h[0] = v0
      BY <2>1, <2>4
    <3>2. ASSUME NEW n \in 1..(k + 1)
          PROVE  h[n] = step[n][h[n - 1]]
      <4>1. CASE n = k + 1
        BY <2>4, <4>1
      <4>2. CASE n # k + 1
        <5>1. n \in 1..k /\ n \in 0..k /\ n - 1 \in 0..k
          BY <4>2
        <5>2. h[n] = g[n] /\ h[n - 1] = g[n - 1] /\ g[n] = step[n][g[n - 1]]
          BY <5>1, <2>4, <2>1
        <5>3. QED
          BY <5>2
      <4>3. QED
        BY <4>1, <4>2
    <3>3. QED
      BY <3>1, <3>2
  <2>6. QED
    BY <2>3, <2>5
<1> HIDE DEF Reached
<1>3. m \in Reached
  BY <1>1, <1>2, Induction
<1>4. QED
  BY <1>3 DEF Reached, Runs

-----------------------------------------------------------------------------
(* Folds over sequences, which recur over sets of indices *)

\* The index with which a fold over a set of indices begins.
Largest(s) == CHOOSE x \in s : \A y \in s : x >= y

\* What a fold over 1..m computes for each set of indices.
IndexFolds(V, v0, m, step) ==
    {g \in [SUBSET (1..m) -> V] :
        /\ g[{}] = v0
        /\ \A s \in SUBSET (1..m) : s # {} => g[s] = step[Largest(s)][g[s \ {Largest(s)}]]}

\* A set of numbers up to k has a largest element.
LEMMA LargestExists ==
  ASSUME NEW k \in Nat, NEW s \in SUBSET (1..k), s # {}
  PROVE  Largest(s) \in s /\ \A y \in s : Largest(s) >= y
<1> DEFINE D == {d \in Nat : \E x \in s : d = k - x}
<1>1. \A x \in s : x \in Int /\ k - x \in Nat
  OBVIOUS
<1>2. D \in SUBSET Nat /\ D # {} /\ \A x \in s : k - x \in D
  BY <1>1
<1>3. PICK x \in s : k - x \in D /\ \A e \in D : k - x <= e
  <2>1. PICK d \in D : \A e \in D : d <= e
    <3> HIDE DEF D
    <3>1. QED
      BY <1>2, LeastNatural
  <2>2. QED
    BY <2>1
<1> HIDE DEF D
<1>4. ASSUME NEW y \in s
      PROVE  x >= y
  <2>1. k - x <= k - y
    BY <1>2, <1>3
  <2>2. QED
    BY <1>1, <2>1
<1>5. QED
  BY <1>4 DEF Largest

\* A fold exists, index by index.
LEMMA IndexFoldExists ==
  ASSUME NEW V, NEW v0 \in V, NEW m \in Nat, NEW step \in Steps(V, m)
  PROVE  \E g : g \in IndexFolds(V, v0, m, step)
<1> DEFINE Reached == {k \in Nat : k <= m => \E g : g \in IndexFolds(V, v0, k, step)}
<1>1. 0 \in Reached
  <2>1. SUBSET (1..0) = {{}}
    OBVIOUS
  <2>2. [s \in SUBSET (1..0) |-> v0] \in IndexFolds(V, v0, 0, step)
    BY <2>1 DEF IndexFolds
  <2>3. QED
    BY <2>2
<1>2. ASSUME NEW k \in Nat, k \in Reached
      PROVE  k + 1 \in Reached
  <2> SUFFICES ASSUME k + 1 <= m
               PROVE  \E g : g \in IndexFolds(V, v0, k + 1, step)
    OBVIOUS
  <2>1. PICK g : g \in IndexFolds(V, v0, k, step)
    BY <1>2
  <2>2. step[k + 1] \in [V -> V]
    BY DEF Steps
  <2>3. \A s \in SUBSET (1..(k + 1)) : s \ {k + 1} \in SUBSET (1..k)
    OBVIOUS
  <2>4. \A s \in SUBSET (1..k) : s \in SUBSET (1..(k + 1)) /\ k + 1 \notin s
    OBVIOUS
  <2> DEFINE h == [s \in SUBSET (1..(k + 1)) |->
                     IF k + 1 \in s THEN step[k + 1][g[s \ {k + 1}]] ELSE g[s \ {k + 1}]]
  <2>5. h \in [SUBSET (1..(k + 1)) -> V]
    BY <2>1, <2>2, <2>3 DEF IndexFolds
  <2>6. \A s \in SUBSET (1..k) : h[s] = g[s]
    <3>1. \A s \in SUBSET (1..k) : s \ {k + 1} = s
      OBVIOUS
    <3>2. QED
      BY <2>4, <3>1
  <2>7. \A s \in SUBSET (1..(k + 1)) : k + 1 \in s => h[s] = step[k + 1][h[s \ {k + 1}]]
    BY <2>3, <2>6
  <2> HIDE DEF h
  <2>8. ASSUME NEW s \in SUBSET (1..(k + 1)), s # {}
        PROVE  h[s] = step[Largest(s)][h[s \ {Largest(s)}]]
    <3>1. CASE k + 1 \in s
      <4>1. Largest(s) \in s /\ \A y \in s : Largest(s) >= y
        <5>1. k + 1 \in Nat
          OBVIOUS
        <5>2. QED
          BY <2>8, <5>1, LargestExists
      <4>2. Largest(s) >= k + 1 /\ Largest(s) \in 1..(k + 1)
        BY <3>1, <4>1
      <4>3. QED
        <5>1. Largest(s) = k + 1
          BY <4>2
        <5>2. QED
          BY <2>7, <3>1, <5>1
    <3>2. CASE k + 1 \notin s
      <4>1. s \in SUBSET (1..k)
        BY <3>2
      <4>2. s \ {Largest(s)} \in SUBSET (1..k)
        BY <4>1
      <4>3. g[s] = step[Largest(s)][g[s \ {Largest(s)}]]
        BY <2>1, <2>8, <4>1 DEF IndexFolds
      <4>4. QED
        BY <2>6, <4>1, <4>2, <4>3
    <3>3. QED
      BY <3>1, <3>2
  <2>9. h[{}] = v0
    BY <2>1, <2>6 DEF IndexFolds
  <2>10. h \in IndexFolds(V, v0, k + 1, step)
    BY <2>5, <2>8, <2>9 DEF IndexFolds
  <2>11. QED
    BY <2>10
<1> HIDE DEF Reached
<1>3. m \in Reached
  BY <1>1, <1>2, Induction
<1>4. QED
  BY <1>3 DEF Reached

-----------------------------------------------------------------------------
(* The elements of a sequence that are in a set *)

\* Length and elements of a concatenation.
LEMMA Joined ==
  ASSUME NEW T, NEW a \in Seq(T), NEW b \in Seq(T)
  PROVE  /\ a \o b \in Seq(T) /\ Len(a \o b) = Len(a) + Len(b) /\ Len(a) \in Nat /\ Len(b) \in Nat
         /\ DOMAIN (a \o b) = 1..Len(a \o b)
         /\ \A i \in 1..Len(a) : i \in 1..Len(a \o b) /\ (a \o b)[i] = a[i]
         /\ \A i \in 1..Len(b) : i + Len(a) \in 1..Len(a \o b) /\ (a \o b)[i + Len(a)] = b[i]
         /\ \A i \in 1..Len(a \o b) : i \in 1..Len(a) \/ i > Len(a)
         /\ \A i \in 1..Len(a \o b) : i > Len(a) => i - Len(a) \in 1..Len(b) /\ (a \o b)[i] = b[i - Len(a)]
<1>1. a \o b \in Seq(T) /\ Len(a \o b) = Len(a) + Len(b) /\ Len(a) \in Nat /\ Len(b) \in Nat
  OBVIOUS
<1>2. \A i \in 1..Len(a) : i \in 1..Len(a \o b) /\ (a \o b)[i] = a[i]
  OBVIOUS
<1>3. \A i \in 1..Len(b) : i + Len(a) \in 1..Len(a \o b) /\ (a \o b)[i + Len(a)] = b[i]
  OBVIOUS
<1>4. \A i \in 1..Len(a \o b) : i \in 1..Len(a) \/ i > Len(a)
  OBVIOUS
<1>5. \A i \in 1..Len(a \o b) : i > Len(a) => i - Len(a) \in 1..Len(b) /\ (a \o b)[i] = b[i - Len(a)]
  OBVIOUS
<1>6. QED
  BY <1>1, <1>2, <1>3, <1>4, <1>5

\* Concatenation is associative.
LEMMA Regrouped ==
    ASSUME NEW T, NEW a \in Seq(T), NEW b \in Seq(T), NEW c \in Seq(T)
    PROVE  (a \o b) \o c = a \o (b \o c)
<1> DEFINE l == (a \o b) \o c
           r == a \o (b \o c)
           n == Len(a) + Len(b) + Len(c)
<1>1. Len(a) \in Nat /\ Len(b) \in Nat /\ Len(c) \in Nat /\ a \o b \in Seq(T) /\ b \o c \in Seq(T)
  OBVIOUS
<1>2. /\ l \in Seq(T) /\ Len(l) = n /\ DOMAIN l = 1..Len(l)
      /\ r \in Seq(T) /\ Len(r) = n /\ DOMAIN r = 1..Len(r)
  BY <1>1
<1>3. ASSUME NEW i \in 1..n
      PROVE  l[i] = r[i]
  <2>1. CASE i <= Len(a)
    BY <1>1, <2>1
  <2>2. CASE i > Len(a) /\ i <= Len(a) + Len(b)
    BY <1>1, <2>2
  <2>3. CASE i > Len(a) + Len(b)
    BY <1>1, <2>3
  <2>4. QED
    BY <1>1, <2>1, <2>2, <2>3
<1> HIDE DEF l, r, n
<1>4. l = [i \in 1..n |-> l[i]] /\ r = [i \in 1..n |-> r[i]]
  BY <1>2
<1>5. l = r
  BY <1>3, <1>4
<1>6. QED
  BY <1>5 DEF l, r

\* The function by which Only is defined.
Kept(s, S) ==
    CHOOSE kept : kept = [n \in 0..Len(s) |->
                             IF n = 0 THEN <<>>
                             ELSE IF s[n] \in S THEN Append(kept[n - 1], s[n]) ELSE kept[n - 1]]

\* The recursive function of Only, by its name.
LEMMA OnlyIsKept == ASSUME NEW s, NEW S PROVE Only(s, S) = Kept(s, S)[Len(s)]
  BY DEF Only, Kept

\* The recursive function of Only satisfies its equation.
LEMMA KeptObeys ==
  ASSUME NEW T, NEW s \in Seq(T), NEW S
  PROVE  /\ Kept(s, S)[0] = <<>>
         /\ \A n \in 1..Len(s) :
               Kept(s, S)[n] = IF s[n] \in S THEN Append(Kept(s, S)[n - 1], s[n]) ELSE Kept(s, S)[n - 1]
<1> DEFINE step == [n \in 1..Len(s) |-> [v \in Seq(T) |-> IF s[n] \in S THEN Append(v, s[n]) ELSE v]]
           Next(g) == [n \in 0..Len(s) |->
                          IF n = 0 THEN <<>>
                          ELSE IF s[n] \in S THEN Append(g[n - 1], s[n]) ELSE g[n - 1]]
<1>1. step \in [1..Len(s) -> [Seq(T) -> Seq(T)]] /\ <<>> \in Seq(T) /\ Len(s) \in Nat
  OBVIOUS
<1>2. PICK g \in [0..Len(s) -> Seq(T)] :
            g[0] = <<>> /\ \A n \in 1..Len(s) : g[n] = step[n][g[n - 1]]
  <2> DEFINE V == Seq(T)
             v0 == <<>>
             m == Len(s)
  <2>1. v0 \in V /\ m \in Nat /\ step \in Steps(V, m)
    BY <1>1 DEF Steps
  <2> HIDE DEF step, V, v0, m
  <2>2. \E g : g \in Runs(V, v0, m, step)
    BY <2>1, Recursion
  <2>3. QED
    BY <2>2 DEF Runs, V, v0, m
<1>3. ASSUME NEW n \in 0..Len(s)
      PROVE  g[n] = Next(g)[n]
  <2>1. CASE n = 0
    BY <2>1, <1>2
  <2>2. CASE n # 0
    <3>1. n \in 1..Len(s) /\ n - 1 \in 0..Len(s)
      BY <2>2
    <3>2. g[n - 1] \in Seq(T)
      BY <3>1
    <3>3. g[n] = IF s[n] \in S THEN Append(g[n - 1], s[n]) ELSE g[n - 1]
      BY <3>1, <3>2, <1>2
    <3>4. QED
      BY <2>2, <3>3
  <2>3. QED
    BY <2>1, <2>2
<1>4. g = Next(g)
  BY <1>3
<1>5. Kept(s, S) = Next(Kept(s, S))
  BY <1>4 DEF Kept
<1>6. Kept(s, S)[0] = <<>>
  BY <1>5, <1>1
<1>7. ASSUME NEW n \in 1..Len(s)
      PROVE  Kept(s, S)[n] = IF s[n] \in S THEN Append(Kept(s, S)[n - 1], s[n]) ELSE Kept(s, S)[n - 1]
  <2>1. n \in 0..Len(s) /\ n # 0
    BY <1>1
  <2> DEFINE K == Kept(s, S)
  <2>2. K = Next(K)
    BY <1>5
  <2> HIDE DEF K
  <2>3. K[n] = IF s[n] \in S THEN Append(K[n - 1], s[n]) ELSE K[n - 1]
    BY <2>1, <2>2
  <2>4. QED
    BY <2>3 DEF K
<1>8. QED
  BY <1>6, <1>7

\* f tells where the elements of t come from in the first n elements of s.
Selects(f, t, s, S, n) ==
    /\ f \in [1..Len(t) -> 1..n]
    /\ \A i, j \in 1..Len(t) : i < j => f[i] < f[j]
    /\ \A i \in 1..Len(t) : t[i] = s[f[i]] /\ s[f[i]] \in S
    /\ \A k \in 1..n : s[k] \in S => \E i \in 1..Len(t) : f[i] = k

\* The first n elements of s that are in S.
LEMMA KeptSelects ==
  ASSUME NEW T, NEW s \in Seq(T), NEW S, NEW n \in 0..Len(s)
  PROVE  Kept(s, S)[n] \in Seq(T \cap S) /\ \E f : Selects(f, Kept(s, S)[n], s, S, n)
<1> DEFINE K == Kept(s, S)
           OK(k) == K[k] \in Seq(T \cap S) /\ \E f : Selects(f, K[k], s, S, k)
           Good == {k \in Nat : k <= Len(s) => OK(k)}
<1>1. K[0] = <<>>
  BY KeptObeys
<1>2. \A k \in 1..Len(s) : K[k] = IF s[k] \in S THEN Append(K[k - 1], s[k]) ELSE K[k - 1]
  BY KeptObeys
<1> HIDE DEF K
<1>3. 0 \in Good
  <2>1. K[0] \in Seq(T \cap S) /\ Len(K[0]) = 0
    BY <1>1
  <2>2. Selects([i \in 1..0 |-> i], K[0], s, S, 0)
    BY <2>1 DEF Selects
  <2>3. QED
    BY <2>1, <2>2
<1>4. ASSUME NEW k \in Nat, k \in Good
      PROVE  k + 1 \in Good
  <2> SUFFICES ASSUME k + 1 <= Len(s)
               PROVE  OK(k + 1)
    OBVIOUS
  <2>1. OK(k) /\ k + 1 \in 1..Len(s) /\ s[k + 1] \in T
    BY <1>4
  <2> DEFINE t == K[k]
             u == K[k + 1]
             x == s[k + 1]
  <2>2. t \in Seq(T \cap S) /\ u = IF x \in S THEN Append(t, x) ELSE t
    BY <1>2, <2>1
  <2>3. PICK f : Selects(f, t, s, S, k)
    BY <2>1
  <2> HIDE DEF t, u
  <2>4. CASE x \in S
    <3>1. u \in Seq(T \cap S) /\ Len(u) = Len(t) + 1 /\ u[Len(u)] = x /\ \A i \in 1..Len(t) : u[i] = t[i]
      BY <2>1, <2>2, <2>4
    <3> DEFINE g == [i \in 1..Len(u) |-> IF i = Len(u) THEN k + 1 ELSE f[i]]
    <3>2. Len(t) \in Nat
      BY <2>2
    <3>3. g[Len(u)] = k + 1 /\ \A i \in 1..Len(t) : i \in 1..Len(u) /\ g[i] = f[i] /\ f[i] \in 1..k
      BY <3>1, <3>2, <2>3 DEF Selects
    <3>4. g \in [1..Len(u) -> 1..(k + 1)]
      BY <3>1, <3>2, <2>3 DEF Selects
    <3>5. \A i \in 1..Len(u) : i = Len(u) \/ i \in 1..Len(t)
      BY <3>1, <3>2
    <3> HIDE DEF g
    <3>6. \A i, j \in 1..Len(u) : i < j => g[i] < g[j]
      <4>1. \A i, j \in 1..Len(t) : i < j => f[i] < f[j]
        BY <2>3 DEF Selects
      <4>2. \A i \in 1..Len(t) : g[i] \in 1..k /\ g[i] < k + 1
        BY <2>1, <3>3
      <4>3. \A i, j \in 1..Len(u) : i < j => i \in 1..Len(t) /\ (j = Len(u) \/ j \in 1..Len(t))
        BY <3>1, <3>2
      <4> QED
        BY <3>3, <4>1, <4>2, <4>3
    <3>7. \A i \in 1..Len(u) : u[i] = s[g[i]] /\ s[g[i]] \in S
      BY <3>1, <3>3, <3>5, <2>3, <2>4 DEF Selects
    <3>8. ASSUME NEW j \in 1..(k + 1), s[j] \in S
          PROVE  \E i \in 1..Len(u) : g[i] = j
      <4>1. CASE j = k + 1
        <5>1. Len(u) \in 1..Len(u)
          BY <3>1, <3>2
        <5>2. QED
          BY <4>1, <5>1, <3>3
      <4>2. CASE j # k + 1
        <5>1. j \in 1..k
          BY <4>2
        <5>2. PICK i \in 1..Len(t) : f[i] = j
          BY <5>1, <3>8, <2>3 DEF Selects
        <5>3. QED
          BY <5>2, <3>3
      <4>3. QED
        BY <4>1, <4>2
    <3>9. Selects(g, u, s, S, k + 1)
      BY <3>4, <3>6, <3>7, <3>8 DEF Selects
    <3>10. QED
      BY <3>1, <3>9 DEF u
  <2>5. CASE x \notin S
    <3>1. u = t
      BY <2>2, <2>5
    <3>2. Selects(f, t, s, S, k + 1)
      BY <2>3, <2>5 DEF Selects
    <3>3. QED
      BY <2>2, <3>1, <3>2 DEF u
  <2>6. QED
    BY <2>4, <2>5
<1> HIDE DEF Good
<1>5. n \in Good
  BY <1>3, <1>4, Induction
<1>6. QED
  BY <1>5 DEF Good, K

\* Only(s, S) keeps the elements in S and their order, and loses none.
LEMMA OnlySelects ==
  ASSUME NEW T, NEW s \in Seq(T), NEW S
  PROVE  Only(s, S) \in Seq(T \cap S) /\ \E f : Selects(f, Only(s, S), s, S, Len(s))
<1>1. Len(s) \in 0..Len(s)
  OBVIOUS
<1>2. QED
  BY <1>1, KeptSelects, OnlyIsKept

\* Only of a longer list: the new element stays if it is in S.
LEMMA OnlyAppend ==
  ASSUME NEW T, NEW s \in Seq(T), NEW x \in T, NEW S
  PROVE  Only(Append(s, x), S) = IF x \in S THEN Append(Only(s, S), x) ELSE Only(s, S)
<1> DEFINE a == Append(s, x)
           m == Len(s)
<1>1. /\ a \in Seq(T) /\ m \in Nat /\ Len(a) = m + 1 /\ a[m + 1] = x
      /\ \A i \in 1..m : a[i] = s[i]
  OBVIOUS
<1> HIDE DEF a, m
<1> DEFINE Same == {k \in Nat : k <= m => Kept(a, S)[k] = Kept(s, S)[k]}
<1>2. /\ Kept(a, S)[0] = <<>> /\ Kept(s, S)[0] = <<>>
      /\ \A n \in 1..(m + 1) :
            Kept(a, S)[n] = IF a[n] \in S THEN Append(Kept(a, S)[n - 1], a[n]) ELSE Kept(a, S)[n - 1]
      /\ \A n \in 1..m :
            Kept(s, S)[n] = IF s[n] \in S THEN Append(Kept(s, S)[n - 1], s[n]) ELSE Kept(s, S)[n - 1]
  <2>1. /\ Kept(a, S)[0] = <<>>
        /\ \A n \in 1..Len(a) :
              Kept(a, S)[n] = IF a[n] \in S THEN Append(Kept(a, S)[n - 1], a[n]) ELSE Kept(a, S)[n - 1]
    BY <1>1, KeptObeys
  <2>2. /\ Kept(s, S)[0] = <<>>
        /\ \A n \in 1..Len(s) :
              Kept(s, S)[n] = IF s[n] \in S THEN Append(Kept(s, S)[n - 1], s[n]) ELSE Kept(s, S)[n - 1]
    BY KeptObeys
  <2>3. QED
    BY <1>1, <2>1, <2>2 DEF m
<1>3. 0 \in Same
  BY <1>2
<1>4. ASSUME NEW k \in Nat, k \in Same
      PROVE  k + 1 \in Same
  <2>1. CASE k + 1 <= m
    <3>1. k + 1 \in 1..m /\ k + 1 \in 1..(m + 1) /\ (k + 1) - 1 = k /\ Kept(a, S)[k] = Kept(s, S)[k]
      BY <1>1, <1>4, <2>1
    <3>2. Kept(a, S)[k + 1] = Kept(s, S)[k + 1]
      BY <1>1, <1>2, <3>1
    <3>3. QED
      BY <1>4, <3>2
  <2>2. CASE ~(k + 1 <= m)
    BY <1>4, <2>2
  <2>3. QED
    BY <2>1, <2>2
<1> HIDE DEF Same
<1>5. m \in Same
  BY <1>1, <1>3, <1>4, Induction
<1>6. Kept(a, S)[m] = Kept(s, S)[m]
  BY <1>1, <1>5 DEF Same
<1>7. m + 1 \in 1..(m + 1) /\ (m + 1) - 1 = m
  BY <1>1
<1>8. Kept(a, S)[m + 1] = IF x \in S THEN Append(Kept(s, S)[m], x) ELSE Kept(s, S)[m]
  BY <1>1, <1>2, <1>6, <1>7
<1>9. Only(a, S) = Kept(a, S)[m + 1] /\ Only(s, S) = Kept(s, S)[m]
  BY <1>1, OnlyIsKept DEF m
<1>10. QED
  BY <1>8, <1>9 DEF a

\* Nothing can be selected from an empty list.
LEMMA OnlyEmpty == ASSUME NEW S PROVE Only(<<>>, S) = <<>>
<1> DEFINE e == <<>>
<1>1. e \in Seq({}) /\ Len(e) = 0
  OBVIOUS
<1> HIDE DEF e
<1> DEFINE T == {}
<1>2. e \in Seq(T)
  BY <1>1
<1> HIDE DEF T
<1>3. Kept(e, S)[0] = <<>>
  BY <1>2, KeptObeys
<1>4. Only(e, S) = <<>>
  BY <1>1, <1>3, OnlyIsKept
<1>5. QED
  BY <1>4 DEF e
=============================================================================
