---------------------------- MODULE AgentLoop_proofs ----------------------------
(***************************************************************************)
(* What AgentLoop promises, for every bound, every cap and every set of    *)
(* notes: the types, that the two lists stay in step and rounds whole,     *)
(* that notes and the task survive, and the order in which a turn ends.    *)
(*                                                                         *)
(* The lists are built by recursion, so the first part proves what a       *)
(* selection by position returns; induction is by the least number that    *)
(* has a property.                                                         *)
(***************************************************************************)
EXTENDS AgentLoop, SequenceTheorems, FiniteSetTheorems, WellFoundedInduction, TLAPS

-------------------------------------------------------------------------------
(* Induction, and At as a recursive function of the positions seen so far. *)

\* Every set of numbers that is not empty has a least one.
LEMMA Least == ASSUME NEW B \in SUBSET Nat, B # {}
               PROVE  \E m \in B : \A k \in B : m <= k
<1> DEFINE Below == {p \in Nat \X Nat : p[1] < p[2]}
<1>1. IsWellFoundedOn(Below, Nat)
  <2>1. Below = OpToRel(<, Nat)
    BY Zenon DEF OpToRel
  <2> QED BY Zenon, <2>1, NatLessThanWellFounded
<1>2. PICK m \in B : \A k \in B : <<k, m>> \notin Below
  <2> HIDE DEF Below
  <2> QED BY <1>1, WFMin
<1>3. ASSUME NEW k \in B PROVE m <= k
  <2>1. <<k, m>> \in Nat \X Nat OBVIOUS
  <2>2. ~ (k < m) BY <1>2, <2>1
  <2> QED BY <2>2
<1> QED BY <1>3

\* Step number n of At, given the steps u before it.
Step(s, K, u, n) ==
  IF n = 0 THEN <<>> ELSE IF n \in K THEN Append(u[n-1], s[n]) ELSE u[n-1]

Fits(s, K, u, m) == u = [n \in 0..m |-> Step(s, K, u, n)]

\* There is a function that the recursion describes.
LEMMA FitsExist == ASSUME NEW s, NEW K, NEW m \in Nat PROVE \E u : Fits(s, K, u, m)
<1> SUFFICES ASSUME ~ \E u : Fits(s, K, u, m) PROVE FALSE
  OBVIOUS
<1> DEFINE B == {k \in Nat : ~ \E u : Fits(s, K, u, k)}
<1>1. PICK l \in B : \A k \in B : l <= k
  <2>1. B \in SUBSET Nat /\ B # {} OBVIOUS
  <2> HIDE DEF B
  <2> QED BY <2>1, Least
<1>2. CASE l = 0
  <2> DEFINE u == [n \in 0..0 |-> <<>>]
  <2>1. u = [n \in 0..0 |-> Step(s, K, u, n)]
    BY DEF Step
  <2>2. Fits(s, K, u, 0)
    BY Zenon, <2>1 DEF Fits
  <2> QED BY <1>1, <1>2, <2>2
<1>3. CASE l # 0
  <2>1. l - 1 \in Nat /\ l - 1 \notin B /\ l \in Nat
    BY <1>1, <1>3
  <2>2. PICK u : Fits(s, K, u, l - 1)
    BY <2>1
  <2> DEFINE v == [n \in 0..l |-> IF n = l THEN Step(s, K, u, l) ELSE u[n]]
  <2>3. ASSUME NEW n \in 0..l PROVE v[n] = Step(s, K, v, n)
    <3>1. n # 0 => v[n-1] = u[n-1]
      BY <2>1, <2>3
    <3>2. Step(s, K, v, n) = Step(s, K, u, n)
      BY <3>1 DEF Step
    <3>3. n # l => u[n] = Step(s, K, u, n)
      BY <2>1, <2>2, <2>3 DEF Fits
    <3> QED BY <3>2, <3>3
  <2>4. Fits(s, K, v, l)
    <3>1. v = [n \in 0..l |-> v[n]] OBVIOUS
    <3>2. v = [n \in 0..l |-> Step(s, K, v, n)]
      <4> HIDE DEF v
      <4> QED BY <2>3, <3>1
    <3> HIDE DEF v
    <3> QED BY <3>2 DEF Fits
  <2> QED BY <2>4, <1>1
<1> QED BY <1>2, <1>3

Upto(s, K) == CHOOSE u : Fits(s, K, u, Len(s))

LEMMA AtUpto == ASSUME NEW s, NEW K PROVE At(s, K) = Upto(s, K)[Len(s)]
  BY Zenon DEF At, Upto, Fits, Step

LEMMA UptoFits == ASSUME NEW S, NEW s \in Seq(S), NEW K
  PROVE /\ Upto(s, K)[0] = <<>>
        /\ \A n \in 1..Len(s) :
             Upto(s, K)[n] = IF n \in K THEN Append(Upto(s, K)[n-1], s[n])
                                        ELSE Upto(s, K)[n-1]
<1>0. Len(s) \in Nat OBVIOUS
<1>1. Fits(s, K, Upto(s, K), Len(s))
  BY <1>0, FitsExist DEF Upto
<1>2. \A n \in 0..Len(s) : Upto(s,K)[n] = Step(s, K, Upto(s,K), n)
  BY <1>1 DEF Fits
<1>3. Upto(s, K)[0] = <<>>
  BY <1>0, <1>2 DEF Step
<1>4. ASSUME NEW n \in 1..Len(s) PROVE 
             Upto(s, K)[n] = IF n \in K THEN Append(Upto(s, K)[n-1], s[n])
                                        ELSE Upto(s, K)[n-1]
  BY <1>0, <1>2, n # 0, n \in 0..Len(s) DEF Step
<1> QED BY <1>3, <1>4

\* The first n entries do not look at what is behind them.
LEMMA UptoLocal ==
  ASSUME NEW S, NEW s \in Seq(S), NEW t \in Seq(S), NEW K, NEW L, NEW n \in Nat,
         n <= Len(s), n <= Len(t),
         \A i \in 1..n : s[i] = t[i] /\ (i \in K <=> i \in L)
  PROVE  Upto(s, K)[n] = Upto(t, L)[n]
<1> SUFFICES ASSUME Upto(s, K)[n] # Upto(t, L)[n] PROVE FALSE
  OBVIOUS
<1> DEFINE B == {k \in Nat : k <= n /\ Upto(s, K)[k] # Upto(t, L)[k]}
<1>1. PICK l \in B : \A k \in B : l <= k
  <2>1. B \in SUBSET Nat /\ B # {} OBVIOUS
  <2> HIDE DEF B
  <2> QED BY <2>1, Least
<1>2. l # 0
  BY <1>1, UptoFits
<1>3. l \in 1..n /\ l - 1 \in Nat /\ l - 1 \notin B
  BY <1>1, <1>2
<1>4. Upto(s, K)[l-1] = Upto(t, L)[l-1]
  BY <1>3
<1>5. l \in 1..Len(s) /\ l \in 1..Len(t)
  BY <1>3
<1>6. /\ Upto(s, K)[l] = IF l \in K THEN Append(Upto(s, K)[l-1], s[l]) ELSE Upto(s, K)[l-1]
      /\ Upto(t, L)[l] = IF l \in L THEN Append(Upto(t, L)[l-1], t[l]) ELSE Upto(t, L)[l-1]
  BY <1>5, UptoFits
<1>7. Upto(s, K)[l] = Upto(t, L)[l]
  BY <1>3, <1>4, <1>6
<1> QED BY <1>1, <1>7

\* How At grows with its list.
LEMMA AtEmpty == ASSUME NEW K PROVE At(<<>>, K) = <<>>
<1>1. <<>> \in Seq({}) /\ Len(<<>>) = 0 OBVIOUS
<1> QED BY <1>1, AtUpto, UptoFits

LEMMA AtAppend ==
  ASSUME NEW S, NEW s \in Seq(S), NEW e \in S, NEW K
  PROVE  At(Append(s, e), K) = IF Len(s) + 1 \in K THEN Append(At(s, K), e) ELSE At(s, K)
<1>1. PICK t \in Seq(S) : t = Append(s, e)
  BY AppendProperties
<1>2. /\ Len(s) \in Nat /\ Len(t) = Len(s) + 1 /\ t[Len(s) + 1] = e
      /\ \A i \in 1..Len(s) : t[i] = s[i]
  BY <1>1, AppendProperties
<1>3. Upto(t, K)[Len(s)] = Upto(s, K)[Len(s)]
  <2>1. Len(s) <= Len(t) /\ Len(s) <= Len(s) BY <1>2
  <2> QED BY <1>2, <2>1, UptoLocal
<1>4. Len(t) \in 1..Len(t) /\ Len(t) - 1 = Len(s) BY <1>2
<1>5. Upto(t, K)[Len(t)] = IF Len(t) \in K THEN Append(Upto(t, K)[Len(t)-1], t[Len(t)])
                                        ELSE Upto(t, K)[Len(t)-1]
  BY <1>4, UptoFits
<1> QED BY <1>1, <1>2, <1>3, <1>4, <1>5, AtUpto

\* Only positions in the list matter.
LEMMA AtSame ==
  ASSUME NEW S, NEW s \in Seq(S), NEW K, NEW L, \A i \in 1..Len(s) : i \in K <=> i \in L
  PROVE  At(s, K) = At(s, L)
<1>1. Upto(s, K)[Len(s)] = Upto(s, L)[Len(s)]
  BY UptoLocal, Len(s) \in Nat
<1> QED BY <1>1, AtUpto

-------------------------------------------------------------------------------
(* What a selection by position holds: its entries are those of the list at an
   increasing sequence of positions, all of K that the list has. *)

Picks(s, K, t, n, f) ==
  /\ f \in [1..Len(t) -> 1..n]
  /\ \A k \in 1..Len(t) : f[k] \in K /\ t[k] = s[f[k]]
  /\ \A j, k \in 1..Len(t) : j < k => f[j] < f[k]
  /\ \A i \in 1..n : i \in K => \E k \in 1..Len(t) : f[k] = i

LEMMA UptoPicks ==
  ASSUME NEW S, NEW s \in Seq(S), NEW K, NEW n \in Nat, n <= Len(s)
  PROVE  Upto(s, K)[n] \in Seq(S) /\ \E f : Picks(s, K, Upto(s, K)[n], n, f)
<1> DEFINE Good(k) == /\ Upto(s, K)[k] \in Seq(S)
                      /\ \E f : Picks(s, K, Upto(s, K)[k], k, f)
           B == {k \in Nat : k <= n /\ ~Good(k)}
<1>1. SUFFICES ASSUME ~Good(n) PROVE FALSE
  OBVIOUS
<1>2. PICK l \in B : \A k \in B : l <= k
  <2>1. n \in B BY <1>1
  <2>2. B \in SUBSET Nat /\ B # {} BY <2>1
  <2> HIDE DEF B
  <2> QED BY <2>2, Least
<1>3. l \in Nat /\ l <= Len(s) /\ Len(s) \in Nat
  BY <1>2
<1>4. CASE l = 0
  <2>1. Upto(s, K)[l] = <<>>
    BY <1>4, UptoFits
  <2>2. Upto(s, K)[l] \in Seq(S) /\ Len(Upto(s, K)[l]) = 0
    BY <2>1
  <2>3. PICK f : f = [k \in 1..0 |-> 0]
    OBVIOUS
  <2>4. Picks(s, K, Upto(s, K)[l], l, f)
    BY <1>4, <2>2, <2>3 DEF Picks
  <2> QED BY <1>2, <2>2, <2>4
<1>5. CASE l # 0
  <2>1. l \in 1..Len(s) /\ l - 1 \in Nat /\ l - 1 < l
    BY <1>3, <1>5
  <2>2. Good(l - 1)
    <3>1. l - 1 \notin B /\ l - 1 <= n
      BY <1>2, <2>1
    <3> QED BY <2>1, <3>1
  <2> HIDE DEF B
  <2>3. PICK u : u = Upto(s, K)[l - 1]
    OBVIOUS
  <2>4. PICK f : u \in Seq(S) /\ Picks(s, K, u, l - 1, f)
    BY <2>2, <2>3
  <2>5. s[l] \in S
    BY <2>1
  <2>6. CASE l \in K
    <3>1. PICK t \in Seq(S) : t = Append(u, s[l])
      BY <2>4, <2>5, AppendProperties
    <3>2. Upto(s, K)[l] = t
      BY ZenonT(30), <2>1, <2>3, <2>6, <3>1, UptoFits
    <3>3. /\ Len(u) \in Nat /\ Len(t) = Len(u) + 1 /\ t[Len(u) + 1] = s[l]
          /\ \A i \in 1..Len(u) : t[i] = u[i]
      BY <2>4, <2>5, <3>1, AppendProperties
    <3>4. PICK g : g = [k \in 1..Len(t) |-> IF k = Len(t) THEN l ELSE f[k]]
      OBVIOUS
    <3>5. \A k \in 1..Len(u) : k \in 1..Len(t) /\ g[k] = f[k] /\ f[k] \in 1..(l-1)
      BY <2>4, <3>3, <3>4 DEF Picks
    <3>6. g[Len(t)] = l /\ Len(t) \in 1..Len(t)
      BY <3>3, <3>4
    <3>7. \A k \in 1..Len(t) : k = Len(t) \/ k \in 1..Len(u)
      BY <3>3
    <3>8. g \in [1..Len(t) -> 1..l]
      <4>1. \A k \in 1..Len(t) : g[k] \in 1..l
        BY <2>1, <3>5, <3>6, <3>7
      <4> QED BY <3>4, <4>1
    <3>9. \A k \in 1..Len(t) : g[k] \in K /\ t[k] = s[g[k]]
      BY <2>4, <2>6, <3>3, <3>5, <3>6, <3>7 DEF Picks
    <3>10. ASSUME NEW j \in 1..Len(t), NEW k \in 1..Len(t), j < k PROVE g[j] < g[k]
      <4>1. j \in 1..Len(u)
        BY <3>3, <3>10
      <4>2. CASE k = Len(t)
        BY <2>1, <3>5, <3>6, <4>1, <4>2
      <4>3. CASE k \in 1..Len(u)
        BY <2>4, <3>5, <3>10, <4>1, <4>3 DEF Picks
      <4> QED BY <3>7, <4>2, <4>3
    <3>11. ASSUME NEW i \in 1..l, i \in K PROVE \E k \in 1..Len(t) : g[k] = i
      <4>1. CASE i = l
        BY <3>6, <4>1
      <4>2. CASE i # l
        <5>1. i \in 1..(l-1)
          BY <2>1, <4>2
        <5>2. PICK k \in 1..Len(u) : f[k] = i
          BY <2>4, <3>11, <5>1 DEF Picks
        <5> QED BY <3>5, <5>2
      <4> QED BY <4>1, <4>2
    <3>12. Picks(s, K, t, l, g)
      BY <3>8, <3>9, <3>10, <3>11 DEF Picks
    <3> QED BY <1>2, <3>2, <3>12 DEF B
  <2>7. CASE l \notin K
    <3>1. Upto(s, K)[l] = u
      BY <2>1, <2>3, <2>7, UptoFits
    <3>2. f \in [1..Len(u) -> 1..l]
      BY <2>1, <2>4 DEF Picks
    <3>3. ASSUME NEW i \in 1..l, i \in K PROVE \E k \in 1..Len(u) : f[k] = i
      <4>1. i \in 1..(l-1)
        BY <2>1, <2>7, <3>3
      <4> QED BY <2>4, <3>3, <4>1 DEF Picks
    <3>4. Picks(s, K, u, l, f)
      BY <2>4, <3>2, <3>3 DEF Picks
    <3> QED BY <1>2, <2>4, <3>1, <3>4 DEF B
  <2> QED BY <2>6, <2>7
<1> QED BY <1>4, <1>5

LEMMA AtPicks ==
  ASSUME NEW S, NEW s \in Seq(S), NEW K
  PROVE  At(s, K) \in Seq(S) /\ \E f : Picks(s, K, At(s, K), Len(s), f)
<1>1. Len(s) \in Nat /\ Len(s) <= Len(s) OBVIOUS
<1> QED BY <1>1, UptoPicks, AtUpto

\* The entries of a selection.
LEMMA AtEntries ==
  ASSUME NEW S, NEW s \in Seq(S), NEW K
  PROVE  ToSet(At(s, K)) = {s[i] : i \in {j \in 1..Len(s) : j \in K}}
<1>1. PICK t \in Seq(S) : t = At(s, K)
  BY AtPicks
<1>2. PICK f : Picks(s, K, t, Len(s), f)
  BY <1>1, AtPicks
<1>3. ToSet(t) = {t[k] : k \in 1..Len(t)}
  BY DEF ToSet
<1>4. ASSUME NEW k \in 1..Len(t) PROVE f[k] \in 1..Len(s) /\ f[k] \in K /\ t[k] = s[f[k]]
  BY <1>2 DEF Picks
<1>5. ASSUME NEW i \in 1..Len(s), i \in K PROVE \E k \in 1..Len(t) : t[k] = s[i]
  BY <1>2, <1>5 DEF Picks
<1>6. ToSet(t) \subseteq {s[i] : i \in {j \in 1..Len(s) : j \in K}}
  BY <1>3, <1>4
<1>7. {s[i] : i \in {j \in 1..Len(s) : j \in K}} \subseteq ToSet(t)
  BY <1>3, <1>5
<1> QED BY <1>1, <1>6, <1>7

\* Neighbours of the list that are both selected stay neighbours.
LEMMA PicksNext ==
  ASSUME NEW S, NEW s \in Seq(S), NEW K, NEW t \in Seq(S), NEW f, Picks(s, K, t, Len(s), f),
         NEW k \in 1..Len(t), NEW j \in 1..Len(s), j \in K, f[k] = j + 1
  PROVE  k - 1 \in 1..Len(t) /\ f[k-1] = j
<1>1. f[k] \in 1..Len(s) /\ Len(s) \in Nat /\ Len(t) \in Nat
  BY DEF Picks
<1>3. PICK l \in 1..Len(t) : f[l] = j
  BY DEF Picks
<1>4. l < k
  <2>1. ~ (k < l)
    <3> SUFFICES ASSUME k < l PROVE FALSE
      OBVIOUS
    <3>1. f[k] < f[l] BY DEF Picks
    <3> QED BY <1>1, <1>3, <3>1
  <2>2. k # l BY <1>1, <1>3
  <2> QED BY <2>1, <2>2
<1>5. l = k - 1
  <2> SUFFICES ASSUME l # k - 1 PROVE FALSE
    OBVIOUS
  <2>1. l + 1 \in 1..Len(t) /\ l < l + 1 /\ l + 1 < k
    BY <1>1, <1>4
  <2>2. f[l] < f[l + 1] /\ f[l + 1] < f[k] /\ f[l + 1] \in 1..Len(s)
    BY <2>1 DEF Picks
  <2> QED BY <1>1, <1>3, <2>2
<1> QED BY <1>3, <1>5, <1>1, <1>4

\* What is selected as a whole from the front stays where it is.
LEMMA PicksFront ==
  ASSUME NEW S, NEW s \in Seq(S), NEW K, NEW t \in Seq(S), NEW f, Picks(s, K, t, Len(s), f),
         NEW p \in Nat, p <= Len(s), \A i \in 1..p : i \in K, NEW i \in 1..p
  PROVE  i \in 1..Len(t) /\ f[i] = i
<1> SUFFICES ASSUME ~(i \in 1..Len(t) /\ f[i] = i) PROVE FALSE
  OBVIOUS
<1> DEFINE B == {k \in Nat : k \in 1..p /\ ~(k \in 1..Len(t) /\ f[k] = k)}
<1>1. PICK k \in B : \A j \in B : k <= j
  <2>1. i \in B OBVIOUS
  <2>2. B \in SUBSET Nat /\ B # {} BY <2>1
  <2> HIDE DEF B
  <2> QED BY <2>2, Least
<1>2. k \in 1..p /\ k \in 1..Len(s) /\ k \in K
  BY <1>1
<1>3. PICK l \in 1..Len(t) : f[l] = k
  BY <1>2 DEF Picks
<1>4. \A j \in 1..(k-1) : j \in 1..Len(t) /\ f[j] = j
  <2> TAKE j \in 1..(k-1)
  <2>1. j \in Nat /\ j \in 1..p /\ ~ (k <= j) BY <1>2
  <2>2. j \notin B BY <1>1, <2>1
  <2> QED BY <2>1, <2>2
<1>5. ~ (l < k)
  <2> SUFFICES ASSUME l < k PROVE FALSE
    OBVIOUS
  <2>1. l \in 1..(k-1) BY <1>2
  <2> QED BY <1>3, <1>4, <2>1
<1>6. l # k
  BY <1>1, <1>3
<1>7. k < l
  BY <1>2, <1>5, <1>6
<1>8. k \in 1..Len(t)
  BY <1>2, <1>7
<1>9. f[k] < k /\ f[k] \in 1..Len(s)
  <2>1. f[k] < f[l] BY <1>7, <1>8 DEF Picks
  <2> QED BY <1>3, <1>8, <2>1 DEF Picks
<1>10. f[k] \in 1..(k-1)
  BY <1>2, <1>9
<1>11. f[f[k]] = f[k] /\ f[k] \in 1..Len(t) /\ f[k] < k
  BY <1>4, <1>9, <1>10
<1>12. f[f[k]] < f[k]
  BY <1>8, <1>11 DEF Picks
<1> QED BY <1>2, <1>9, <1>11, <1>12

-------------------------------------------------------------------------------
(* Selection by content. *)

\* The entries of s that are in the set T.
Within(s, T) == At(s, {i \in DOMAIN s : s[i] \in T})

LEMMA WithinEmpty == ASSUME NEW T PROVE Within(<<>>, T) = <<>>
  BY AtEmpty DEF Within

LEMMA WithinAppend ==
  ASSUME NEW S, NEW s \in Seq(S), NEW e \in S, NEW T
  PROVE  Within(Append(s, e), T) = IF e \in T THEN Append(Within(s, T), e) ELSE Within(s, T)
<1>1. PICK t \in Seq(S) : t = Append(s, e)
  BY AppendProperties
<1>2. /\ Len(s) \in Nat /\ Len(t) = Len(s) + 1 /\ t[Len(s) + 1] = e
      /\ \A i \in 1..Len(s) : t[i] = s[i]
  BY <1>1, AppendProperties
<1>3. PICK K : K = {i \in DOMAIN t : t[i] \in T}
  OBVIOUS
<1>4. Within(t, T) = At(t, K) /\ Within(s, T) = At(s, {i \in DOMAIN s : s[i] \in T})
  BY <1>3 DEF Within
<1>5. At(s, K) = Within(s, T)
  <2>1. \A i \in 1..Len(s) : i \in K <=> i \in {j \in DOMAIN s : s[j] \in T}
    BY <1>2, <1>3
  <2> QED BY <1>4, <2>1, AtSame
<1>6. Len(s) + 1 \in K <=> e \in T
  BY <1>2, <1>3
<1>7. At(t, K) = IF Len(s) + 1 \in K THEN Append(At(s, K), e) ELSE At(s, K)
  BY <1>1, AtAppend
<1> QED BY <1>1, <1>4, <1>5, <1>6, <1>7

LEMMA WithinType ==
  ASSUME NEW S, NEW s \in Seq(S), NEW T PROVE Within(s, T) \in Seq(S)
  BY AtPicks DEF Within

\* A list is its prefixes, one entry more each time.
LEMMA PrefixGrows ==
  ASSUME NEW S, NEW s \in Seq(S), NEW n \in 1..Len(s)
  PROVE  /\ SubSeq(s, 1, n - 1) \in Seq(S) /\ SubSeq(s, 1, n) \in Seq(S)
         /\ SubSeq(s, 1, n) = Append(SubSeq(s, 1, n - 1), s[n])
         /\ s[n] \in S
<1>1. Len(s) \in Nat /\ s[n] \in S
  OBVIOUS
<1>2. /\ SubSeq(s, 1, n - 1) \in Seq(S) /\ Len(SubSeq(s, 1, n - 1)) = n - 1
      /\ \A i \in 1..(n-1) : SubSeq(s, 1, n - 1)[i] = s[i]
  BY <1>1, SubSeqProperties
<1>3. /\ SubSeq(s, 1, n) \in Seq(S) /\ Len(SubSeq(s, 1, n)) = n
      /\ \A i \in 1..n : SubSeq(s, 1, n)[i] = s[i]
  BY <1>1, SubSeqProperties
<1>4. PICK u \in Seq(S) : u = Append(SubSeq(s, 1, n - 1), s[n])
  BY <1>1, <1>2, AppendProperties
<1>5. Len(u) = n /\ u[n] = s[n] /\ \A i \in 1..(n-1) : u[i] = s[i]
  BY <1>1, <1>2, <1>4, AppendProperties
<1>6. \A i \in 1..n : u[i] = SubSeq(s, 1, n)[i]
  BY <1>3, <1>5
<1>7. u = SubSeq(s, 1, n)
  BY <1>3, <1>4, <1>5, <1>6, SeqEqual
<1> QED BY <1>1, <1>2, <1>3, <1>4, <1>7

\* What holds of the empty list and of every list with one entry more holds of
\* all lists.
LEMMA ListInduction ==
  ASSUME NEW S, NEW G, <<>> \in G,
         \A s \in Seq(S) : s \in G => \A e \in S : Append(s, e) \in G
  PROVE  Seq(S) \subseteq G
<1> SUFFICES ASSUME NEW s \in Seq(S) PROVE s \in G
  OBVIOUS
<1> DEFINE B == {n \in Nat : n <= Len(s) /\ SubSeq(s, 1, n) \notin G}
<1>1. Len(s) \in Nat /\ SubSeq(s, 1, Len(s)) = s
  BY SubSeqFull
<1>2. SUFFICES ASSUME s \notin G PROVE FALSE
  OBVIOUS
<1>3. B # {}
  <2>1. PICK n \in Nat : n = Len(s) BY <1>1
  <2>2. SubSeq(s, 1, n) \notin G
    BY Zenon, <1>1, <1>2, <2>1
  <2>3. n <= Len(s)
    BY <2>1
  <2>4. n \in B BY <2>2, <2>3
  <2> QED BY <2>4
<1>4. PICK n \in B : \A k \in B : n <= k
  <2>1. B \in SUBSET Nat OBVIOUS
  <2> HIDE DEF B
  <2> QED BY <1>3, <2>1, Least
<1>5. n # 0
  <2>1. SubSeq(s, 1, 0) = <<>> BY SubSeqEmpty
  <2> QED BY <1>4, <2>1
<1>6. n \in 1..Len(s) /\ n - 1 \in Nat /\ n - 1 <= Len(s) /\ ~ (n <= n - 1)
  BY <1>1, <1>4, <1>5
<1>7. SubSeq(s, 1, n - 1) \in G
  <2>1. n - 1 \notin B BY <1>4, <1>6
  <2> QED BY <1>6, <2>1
<1>8. SubSeq(s, 1, n) \in G
  <2> HIDE DEF B
  <2>1. /\ SubSeq(s, 1, n - 1) \in Seq(S) /\ s[n] \in S
        /\ SubSeq(s, 1, n) = Append(SubSeq(s, 1, n - 1), s[n])
    BY <1>6, PrefixGrows
  <2> QED BY <1>7, <2>1
<1> QED BY <1>4, <1>8

LEMMA AppendOfConcat ==
  ASSUME NEW S, NEW s \in Seq(S), NEW t \in Seq(S), NEW e \in S
  PROVE  s \o Append(t, e) = Append(s \o t, e)
<1>1. s \o t \in Seq(S) /\ <<e>> \in Seq(S)
  BY ConcatProperties
<1>2. Append(t, e) = t \o <<e>> /\ Append(s \o t, e) = (s \o t) \o <<e>>
  BY <1>1, AppendIsConcat
<1> QED BY <1>1, <1>2, ConcatAssociative

\* Selection and concatenation.
LEMMA WithinCat ==
  ASSUME NEW S, NEW s \in Seq(S), NEW T
  PROVE  \A t \in Seq(S) : Within(s \o t, T) = Within(s, T) \o Within(t, T)
<1> DEFINE G == {t \in Seq(S) : Within(s \o t, T) = Within(s, T) \o Within(t, T)}
<1>0. Within(s, T) \in Seq(S)
  BY WithinType
<1>1. <<>> \in G
  <2>1. <<>> \in Seq(S) /\ s \o <<>> = s /\ Within(s, T) \o <<>> = Within(s, T)
    BY <1>0, ConcatEmptySeq
  <2> QED BY <2>1, WithinEmpty
<1>2. ASSUME NEW t \in Seq(S), t \in G, NEW e \in S PROVE Append(t, e) \in G
  <2>1. /\ Append(t, e) \in Seq(S) /\ s \o t \in Seq(S)
        /\ s \o Append(t, e) = Append(s \o t, e)
    BY AppendProperties, ConcatProperties, AppendOfConcat
  <2>2. /\ Within(Append(s \o t, e), T)
             = IF e \in T THEN Append(Within(s \o t, T), e) ELSE Within(s \o t, T)
        /\ Within(Append(t, e), T)
             = IF e \in T THEN Append(Within(t, T), e) ELSE Within(t, T)
    BY <2>1, WithinAppend
  <2>3. Within(t, T) \in Seq(S)
    BY WithinType
  <2>4. Within(s, T) \o Append(Within(t, T), e) = Append(Within(s, T) \o Within(t, T), e)
    BY <1>0, <2>3, AppendOfConcat
  <2>5. Within(s \o t, T) = Within(s, T) \o Within(t, T)
    BY <1>2
  <2> QED BY <2>1, <2>2, <2>4, <2>5
<1>3. Seq(S) \subseteq G
  <2> HIDE DEF G
  <2> QED BY <1>1, <1>2, ListInduction
<1> QED BY <1>3

\* A piece that has nothing to select.
LEMMA WithinPast ==
  ASSUME NEW S, NEW u \in Seq(S), NEW x \in Seq(S), NEW v \in Seq(S), NEW T
  PROVE  Within(x, T) = <<>> => Within((u \o x) \o v, T) = Within(u \o v, T)
<1>1. PICK w \in Seq(S) : w = u \o x
  BY ConcatProperties
<1>2. Within(u \o v, T) = Within(u, T) \o Within(v, T)
  BY SMTT(30), WithinCat
<1>3. Within(w \o v, T) = Within(w, T) \o Within(v, T)
  BY SMTT(30), WithinCat
<1>4. Within(u \o x, T) = Within(u, T) \o Within(x, T)
  BY SMTT(30), WithinCat
<1>5. Within(u, T) \in Seq(S)
  BY WithinType
<1>6. Within(u, T) \o <<>> = Within(u, T)
  BY <1>5, ConcatEmptySeq
<1>7. Within(x, T) = <<>> => Within(w, T) = Within(u, T)
  BY Zenon, <1>1, <1>4, <1>6
<1> QED BY Zenon, <1>1, <1>2, <1>3, <1>7

\* All of it, none of it, and a selection from a selection by position.
LEMMA WithinAll ==
  ASSUME NEW S, NEW T
  PROVE  \A s \in Seq(S) : ToSet(s) \subseteq T => Within(s, T) = s
<1> DEFINE G == {s \in Seq(S) : ToSet(s) \subseteq T => Within(s, T) = s}
<1>1. <<>> \in G
  BY WithinEmpty
<1>2. ASSUME NEW s \in Seq(S), s \in G, NEW e \in S PROVE Append(s, e) \in G
  <2>1. Append(s, e) \in Seq(S)
    BY AppendProperties
  <2>2. ToSet(s) \subseteq ToSet(Append(s, e)) /\ e \in ToSet(Append(s, e))
    BY AppendProperties, LenProperties DEF ToSet
  <2>3. Within(Append(s, e), T) = IF e \in T THEN Append(Within(s, T), e) ELSE Within(s, T)
    BY WithinAppend
  <2> QED BY <1>2, <2>1, <2>2, <2>3
<1>3. Seq(S) \subseteq G
  <2> HIDE DEF G
  <2> QED BY <1>1, <1>2, ListInduction
<1> QED BY <1>3

LEMMA WithinNone ==
  ASSUME NEW S, NEW T
  PROVE  \A s \in Seq(S) : ToSet(s) \cap T = {} => Within(s, T) = <<>>
<1> DEFINE G == {s \in Seq(S) : ToSet(s) \cap T = {} => Within(s, T) = <<>>}
<1>1. <<>> \in G
  BY WithinEmpty
<1>2. ASSUME NEW s \in Seq(S), s \in G, NEW e \in S PROVE Append(s, e) \in G
  <2>1. Append(s, e) \in Seq(S)
    BY AppendProperties
  <2>2. ToSet(s) \subseteq ToSet(Append(s, e)) /\ e \in ToSet(Append(s, e))
    BY AppendProperties, LenProperties DEF ToSet
  <2>3. Within(Append(s, e), T) = IF e \in T THEN Append(Within(s, T), e) ELSE Within(s, T)
    BY WithinAppend
  <2> QED BY <1>2, <2>1, <2>2, <2>3
<1>3. Seq(S) \subseteq G
  <2> HIDE DEF G
  <2> QED BY <1>1, <1>2, ListInduction
<1> QED BY <1>3

LEMMA WithinAt ==
  ASSUME NEW S, NEW K, NEW T
  PROVE  \A s \in Seq(S) :
           Within(At(s, K), T) = At(s, {i \in DOMAIN s : i \in K /\ s[i] \in T})
<1> DEFINE Both(s) == {i \in DOMAIN s : i \in K /\ s[i] \in T}
           G == {s \in Seq(S) : Within(At(s, K), T) = At(s, Both(s))}
<1>1. <<>> \in G
  BY AtEmpty, WithinEmpty
<1>2. ASSUME NEW s \in Seq(S), s \in G, NEW e \in S PROVE Append(s, e) \in G
  <2>1. PICK t \in Seq(S) : t = Append(s, e)
    BY AppendProperties
  <2>2. /\ Len(s) \in Nat /\ Len(t) = Len(s) + 1 /\ t[Len(s) + 1] = e
        /\ \A i \in 1..Len(s) : t[i] = s[i]
    BY <2>1, AppendProperties
  <2>3. At(s, K) \in Seq(S)
    BY AtPicks
  <2>4. At(t, K) = IF Len(s) + 1 \in K THEN Append(At(s, K), e) ELSE At(s, K)
    BY <2>1, AtAppend
  <2>5. Within(Append(At(s, K), e), T)
          = IF e \in T THEN Append(Within(At(s, K), T), e) ELSE Within(At(s, K), T)
    BY <2>3, WithinAppend
  <2>6. PICK L : L = Both(t)
    OBVIOUS
  <2>7. At(t, L) = IF Len(s) + 1 \in L THEN Append(At(s, L), e) ELSE At(s, L)
    BY <2>1, AtAppend
  <2>8. At(s, L) = At(s, Both(s))
    <3>1. \A i \in 1..Len(s) : i \in L <=> i \in Both(s)
      BY <2>2, <2>6
    <3> HIDE DEF Both
    <3> QED BY <3>1, AtSame
  <2>9. Len(s) + 1 \in L <=> Len(s) + 1 \in K /\ e \in T
    BY <2>2, <2>6
  <2>10. Within(At(s, K), T) = At(s, Both(s))
    BY <1>2
  <2>11. Within(At(t, K), T) = At(t, Both(t))
    <3> HIDE DEF Both, G
    <3> QED BY <2>4, <2>5, <2>6, <2>7, <2>8, <2>9, <2>10
  <2> QED BY <2>1, <2>11
<1>3. Seq(S) \subseteq G
  <2> HIDE DEF G
  <2> QED BY <1>1, <1>2, ListInduction
<1> QED BY <1>3

-------------------------------------------------------------------------------
(* Lists in pieces. *)

LEMMA CatSet ==
  ASSUME NEW S, NEW u \in Seq(S), NEW v \in Seq(S)
  PROVE  ToSet(u \o v) = ToSet(u) \cup ToSet(v)
<1>1. PICK t \in Seq(S) : t = u \o v
  BY ConcatProperties
<1>2. /\ Len(u) \in Nat /\ Len(v) \in Nat /\ Len(t) = Len(u) + Len(v)
      /\ \A i \in 1..Len(u) + Len(v) : t[i] = IF i <= Len(u) THEN u[i] ELSE v[i - Len(u)]
  BY <1>1, ConcatProperties
<1>3. ToSet(t) = {t[i] : i \in 1..Len(t)} /\ ToSet(u) = {u[i] : i \in 1..Len(u)}
      /\ ToSet(v) = {v[i] : i \in 1..Len(v)}
  BY DEF ToSet
<1>4. ASSUME NEW i \in 1..Len(t) PROVE t[i] \in ToSet(u) \cup ToSet(v)
  BY <1>2, <1>3
<1>5. ASSUME NEW i \in 1..Len(u) PROVE u[i] \in ToSet(t)
  <2>1. i \in 1..Len(t) /\ t[i] = u[i] BY <1>2
  <2> QED BY <1>3, <2>1
<1>6. ASSUME NEW i \in 1..Len(v) PROVE v[i] \in ToSet(t)
  <2>1. /\ Len(u) + i \in 1..Len(u) + Len(v) /\ ~ (Len(u) + i <= Len(u))
        /\ Len(u) + i - Len(u) = i
    BY <1>2
  <2>2. Len(u) + i \in 1..Len(t) /\ t[Len(u) + i] = v[i]
    BY <1>2, <2>1
  <2> QED BY <1>3, <2>2
<1>7. ToSet(t) \subseteq ToSet(u) \cup ToSet(v)
  BY <1>3, <1>4
<1>8. ToSet(u) \subseteq ToSet(t) /\ ToSet(v) \subseteq ToSet(t)
  BY <1>3, <1>5, <1>6
<1> QED BY <1>1, <1>7, <1>8

LEMMA OneSet == ASSUME NEW S, NEW e \in S
  PROVE  <<e>> \in Seq(S) /\ Len(<<e>>) = 1 /\ <<e>>[1] = e /\ ToSet(<<e>>) = {e}
<1>1. <<e>> \in Seq(S) /\ Len(<<e>>) = 1 /\ <<e>>[1] = e
  OBVIOUS
<1>2. ToSet(<<e>>) = {e}
  BY DEF ToSet
<1> QED BY <1>1, <1>2

LEMMA EmptySet == ToSet(<<>>) = {}
  BY DEF ToSet

LEMMA SetType == ASSUME NEW S, NEW s \in Seq(S)
  PROVE  ToSet(s) = {s[i] : i \in 1..Len(s)} /\ ToSet(s) \subseteq S /\ DOMAIN s = 1..Len(s)
  BY DEF ToSet

LEMMA AppendSet == ASSUME NEW S, NEW s \in Seq(S), NEW e \in S
  PROVE  ToSet(Append(s, e)) = ToSet(s) \cup {e}
<1>1. Append(s, e) = s \o <<e>> /\ <<e>> \in Seq(S)
  BY AppendIsConcat
<1>2. ToSet(s \o <<e>>) = ToSet(s) \cup ToSet(<<e>>)
  BY ZenonT(40), <1>1, CatSet
<1>3. ToSet(<<e>>) = {e}
  BY OneSet
<1> QED BY <1>1, <1>2, <1>3

LEMMA WithinSet ==
  ASSUME NEW S, NEW s \in Seq(S), NEW T PROVE ToSet(Within(s, T)) = ToSet(s) \cap T
<1>1. ToSet(Within(s, T)) = {s[i] : i \in {j \in 1..Len(s) : j \in {k \in DOMAIN s : s[k] \in T}}}
  BY AtEntries DEF Within
<1> QED BY <1>1, SetType

LEMMA WithinOne == ASSUME NEW S, NEW e \in S, NEW T
  PROVE  Within(<<e>>, T) = IF e \in T THEN <<e>> ELSE <<>>
<1>1. <<e>> \in Seq(S) /\ ToSet(<<e>>) = {e}
  BY OneSet
<1>2. e \in T => Within(<<e>>, T) = <<e>>
  BY ZenonT(30), <1>1, WithinAll
<1>3. e \notin T => Within(<<e>>, T) = <<>>
  BY <1>1, WithinNone
<1> QED BY <1>2, <1>3

\* A selection from a selection.
LEMMA WithinWithin ==
  ASSUME NEW S, NEW s \in Seq(S), NEW T, NEW U, U \subseteq T
  PROVE  Within(Within(s, T), U) = Within(s, U)
<1> DEFINE K == {i \in DOMAIN s : s[i] \in T}
<1>1. Within(At(s, K), U) = At(s, {i \in DOMAIN s : i \in K /\ s[i] \in U})
  BY WithinAt
<1>2. {i \in DOMAIN s : i \in K /\ s[i] \in U} = {i \in DOMAIN s : s[i] \in U}
  OBVIOUS
<1> QED BY <1>1, <1>2 DEF Within

\* A list cut before position i, and what is put there.
Before(s, i) == SubSeq(s, 1, i - 1)
Behind(s, i) == SubSeq(s, i, Len(s))

LEMMA Cut ==
  ASSUME NEW S, NEW s \in Seq(S), NEW i \in 1..Len(s)+1
  PROVE  /\ Before(s, i) \in Seq(S) /\ Len(Before(s, i)) = i - 1
         /\ Behind(s, i) \in Seq(S) /\ Len(Behind(s, i)) = Len(s) - i + 1
         /\ s = Before(s, i) \o Behind(s, i)
<1>1. Len(s) \in Nat OBVIOUS
<1>2. Before(s, i) \in Seq(S) /\ Len(Before(s, i)) = i - 1
  <2>1. i - 1 \in Int /\ \A j \in 1..(i-1) : s[j] \in S BY <1>1
  <2>2. /\ SubSeq(s, 1, i - 1) \in Seq(S)
        /\ Len(SubSeq(s, 1, i - 1)) = IF 1 <= i - 1 THEN i - 1 - 1 + 1 ELSE 0
    BY <2>1, SubSeqProperties
  <2> QED BY <1>1, <2>2 DEF Before
<1>3. Behind(s, i) \in Seq(S) /\ Len(Behind(s, i)) = Len(s) - i + 1
  <2>1. Len(s) \in Int /\ i \in Int /\ \A j \in i..Len(s) : s[j] \in S BY <1>1
  <2>2. /\ SubSeq(s, i, Len(s)) \in Seq(S)
        /\ Len(SubSeq(s, i, Len(s))) = IF i <= Len(s) THEN Len(s) - i + 1 ELSE 0
    BY <2>1, SubSeqProperties
  <2> QED BY <1>1, <2>2 DEF Behind
<1>4. s = Before(s, i) \o Behind(s, i)
  <2>1. 1 \in 1..Len(s)+1 /\ i - 1 \in 1-1..Len(s) /\ Len(s) \in i-1..Len(s)
    BY <1>1
  <2>2. SubSeq(s, 1, i - 1) \o SubSeq(s, i - 1 + 1, Len(s)) = SubSeq(s, 1, Len(s))
    BY <2>1, ConcatAdjacentSubSeq
  <2>3. i - 1 + 1 = i BY <1>1
  <2> QED BY <2>2, <2>3, SubSeqFull DEF Before, Behind
<1> QED BY <1>2, <1>3, <1>4

LEMMA InsertIs ==
  ASSUME NEW s, NEW i, NEW e
  PROVE  InsertAt(s, i, e) = (Before(s, i) \o <<e>>) \o Behind(s, i)
  BY DEF InsertAt, Before, Behind

\* A list around its entry at position i, and without it.
LEMMA CutOut ==
  ASSUME NEW S, NEW s \in Seq(S), NEW i \in 1..Len(s)
  PROVE  /\ Before(s, i) \in Seq(S) /\ Len(Before(s, i)) = i - 1
         /\ Behind(s, i + 1) \in Seq(S) /\ Len(Behind(s, i + 1)) = Len(s) - i
         /\ s[i] \in S /\ s = (Before(s, i) \o <<s[i]>>) \o Behind(s, i + 1)
<1>1. Len(s) \in Nat /\ i \in 1..Len(s)+1 /\ i + 1 \in 1..Len(s)+1 /\ s[i] \in S
  OBVIOUS
<1>2. Before(s, i) \in Seq(S) /\ Len(Before(s, i)) = i - 1
  BY <1>1, Cut
<1>3. /\ Before(s, i + 1) \in Seq(S)
      /\ Behind(s, i + 1) \in Seq(S) /\ Len(Behind(s, i + 1)) = Len(s) - (i + 1) + 1
      /\ s = Before(s, i + 1) \o Behind(s, i + 1)
  BY <1>1, Cut
<1>4. Before(s, i + 1) = Before(s, i) \o <<s[i]>>
  <2>1. 1 \in 1..Len(s) /\ i \in 1..Len(s) BY <1>1
  <2>2. SubSeq(s, 1, i) = SubSeq(s, 1, i - 1) \o <<s[i]>>
    BY <2>1, SubSeqRecursiveSecond
  <2>3. i + 1 - 1 = i BY <1>1
  <2> QED BY <2>2, <2>3 DEF Before
<1>5. Len(s) - (i + 1) + 1 = Len(s) - i
  BY <1>1
<1> QED BY <1>1, <1>2, <1>3, <1>4, <1>5

LEMMA RemoveIs ==
  ASSUME NEW s, NEW i PROVE RemoveAt(s, i) = Before(s, i) \o Behind(s, i + 1)
  BY DEF RemoveAt, Before, Behind

-------------------------------------------------------------------------------
(* Rounds. Every result stands right behind its call or another of its
   results, and no two calls share their number. *)

Chained(s) ==
  \A j \in 1..Len(s) : IsResult(s[j]) =>
    j # 1 /\ s[j-1].id = s[j].id /\ (IsCall(s[j-1]) \/ IsResult(s[j-1]))

Unique(s) ==
  \A i, j \in 1..Len(s) : IsCall(s[i]) /\ IsCall(s[j]) /\ s[i].id = s[j].id => i = j

\* What the results numbered id answer.
Answered(R, id) == {m.has : m \in {x \in R : IsResult(x) /\ x.id = id}}

LEMMA NotBoth == ASSUME NEW m PROVE ~ (IsCall(m) /\ IsResult(m))
  BY DEF IsCall, IsResult

LEMMA ChainedCat ==
  ASSUME NEW S, NEW u \in Seq(S), NEW v \in Seq(S), Chained(u), Chained(v)
  PROVE  Chained(u \o v)
<1>1. PICK t \in Seq(S) : t = u \o v
  BY ConcatProperties
<1>2. /\ Len(u) \in Nat /\ Len(v) \in Nat /\ Len(t) = Len(u) + Len(v)
      /\ \A i \in 1..Len(u) + Len(v) : t[i] = IF i <= Len(u) THEN u[i] ELSE v[i - Len(u)]
  BY <1>1, ConcatProperties
<1>3. ASSUME NEW j \in 1..Len(t), IsResult(t[j])
      PROVE  j # 1 /\ t[j-1].id = t[j].id /\ (IsCall(t[j-1]) \/ IsResult(t[j-1]))
  <2>1. CASE j <= Len(u)
    <3>1. t[j] = u[j] /\ j \in 1..Len(u) BY <1>2, <2>1
    <3>2. j # 1 /\ u[j-1].id = u[j].id /\ (IsCall(u[j-1]) \/ IsResult(u[j-1]))
      BY <1>3, <3>1 DEF Chained
    <3>3. t[j-1] = u[j-1] BY <1>2, <2>1, <3>2
    <3> QED BY <3>1, <3>2, <3>3
  <2>2. CASE ~ (j <= Len(u))
    <3>1. j - Len(u) \in 1..Len(v) /\ t[j] = v[j - Len(u)] BY <1>2, <2>2
    <3>2. PICK i : i = j - Len(u) /\ i \in 1..Len(v) /\ t[j] = v[i]
      BY <3>1
    <3>3. i # 1 /\ v[i-1].id = v[i].id /\ (IsCall(v[i-1]) \/ IsResult(v[i-1]))
      BY <1>3, <3>2 DEF Chained
    <3>4. j # 1 /\ j - 1 \in 1..Len(u) + Len(v) /\ ~ (j - 1 <= Len(u)) /\ j - 1 - Len(u) = i - 1
      BY <1>2, <2>2, <3>2, <3>3
    <3>5. t[j-1] = v[i-1] BY <1>2, <3>4
    <3> QED BY <3>2, <3>3, <3>4, <3>5
  <2> QED BY <2>1, <2>2
<1> QED BY <1>1, <1>3 DEF Chained

LEMMA ChainedParts ==
  ASSUME NEW S, NEW u \in Seq(S), NEW v \in Seq(S), Chained(u \o v)
  PROVE  Chained(u) /\ (Len(v) = 0 \/ ~ IsResult(v[1]) => Chained(v))
<1>1. PICK t \in Seq(S) : t = u \o v
  BY ConcatProperties
<1>2. /\ Len(u) \in Nat /\ Len(v) \in Nat /\ Len(t) = Len(u) + Len(v)
      /\ \A i \in 1..Len(u) + Len(v) : t[i] = IF i <= Len(u) THEN u[i] ELSE v[i - Len(u)]
  BY <1>1, ConcatProperties
<1>3. \A j \in 1..Len(t) : IsResult(t[j]) =>
        j # 1 /\ t[j-1].id = t[j].id /\ (IsCall(t[j-1]) \/ IsResult(t[j-1]))
  BY <1>1 DEF Chained
<1>4. ASSUME NEW j \in 1..Len(u), IsResult(u[j])
      PROVE  j # 1 /\ u[j-1].id = u[j].id /\ (IsCall(u[j-1]) \/ IsResult(u[j-1]))
  <2>1. j \in 1..Len(t) /\ t[j] = u[j] BY <1>2
  <2>2. j # 1 /\ t[j-1].id = t[j].id /\ (IsCall(t[j-1]) \/ IsResult(t[j-1]))
    BY <1>3, <1>4, <2>1
  <2>3. t[j-1] = u[j-1] BY <1>2, <2>2
  <2> QED BY <2>1, <2>2, <2>3
<1>5. ASSUME Len(v) = 0 \/ ~ IsResult(v[1]), NEW i \in 1..Len(v), IsResult(v[i])
      PROVE  i # 1 /\ v[i-1].id = v[i].id /\ (IsCall(v[i-1]) \/ IsResult(v[i-1]))
  <2>1. i # 1
    BY <1>2, <1>5
  <2>2. PICK j : j = Len(u) + i
    OBVIOUS
  <2>3. /\ j \in 1..Len(t) /\ j - 1 \in 1..Len(t) /\ ~ (j <= Len(u)) /\ ~ (j - 1 <= Len(u))
        /\ j - Len(u) = i /\ j - 1 - Len(u) = i - 1
    BY <1>2, <2>1, <2>2
  <2>4. t[j] = v[i] /\ t[j-1] = v[i-1]
    BY <1>2, <2>3
  <2>5. t[j-1].id = t[j].id /\ (IsCall(t[j-1]) \/ IsResult(t[j-1]))
    BY <1>3, <1>5, <2>3, <2>4
  <2> QED BY <2>1, <2>4, <2>5
<1>6. Chained(u)
  BY <1>4 DEF Chained
<1>7. ASSUME Len(v) = 0 \/ ~ IsResult(v[1]) PROVE Chained(v)
  BY <1>5, <1>7 DEF Chained
<1> QED BY <1>6, <1>7

LEMMA ChainedOne == ASSUME NEW S, NEW e \in S, ~ IsResult(e) PROVE Chained(<<e>>)
  BY OneSet DEF Chained

\* A selection that takes with a result what is right before it.
LEMMA ChainedAt ==
  ASSUME NEW S, NEW s \in Seq(S), NEW K, Chained(s),
         \A j \in 1..Len(s) : j \in K /\ IsResult(s[j]) => j - 1 \in K
  PROVE  Chained(At(s, K))
<1>1. PICK t \in Seq(S) : t = At(s, K)
  BY AtPicks
<1>2. PICK f : Picks(s, K, t, Len(s), f)
  BY <1>1, AtPicks
<1>3. ASSUME NEW k \in 1..Len(t), IsResult(t[k])
      PROVE  k # 1 /\ t[k-1].id = t[k].id /\ (IsCall(t[k-1]) \/ IsResult(t[k-1]))
  <2>1. f[k] \in 1..Len(s) /\ f[k] \in K /\ t[k] = s[f[k]]
    BY <1>2 DEF Picks
  <2>2. /\ f[k] # 1 /\ f[k] - 1 \in K
        /\ s[f[k]-1].id = s[f[k]].id /\ (IsCall(s[f[k]-1]) \/ IsResult(s[f[k]-1]))
    BY <1>3, <2>1 DEF Chained
  <2>3. PICK j \in 1..Len(s) : f[k] = j + 1 /\ j \in K
    BY <2>1, <2>2
  <2>4. k - 1 \in 1..Len(t) /\ f[k-1] = j
    BY <1>2, <2>3, PicksNext
  <2>5. t[k-1] = s[f[k]-1] /\ k # 1
    <3>1. t[k-1] = s[j] BY <1>2, <2>4 DEF Picks
    <3> QED BY <2>3, <2>4, <3>1
  <2> QED BY <2>1, <2>2, <2>5
<1> QED BY <1>1, <1>3 DEF Chained

LEMMA UniqueAt ==
  ASSUME NEW S, NEW s \in Seq(S), NEW K, Unique(s) PROVE Unique(At(s, K))
<1>1. PICK t \in Seq(S) : t = At(s, K)
  BY AtPicks
<1>2. PICK f : Picks(s, K, t, Len(s), f)
  BY <1>1, AtPicks
<1>3. ASSUME NEW i \in 1..Len(t), NEW j \in 1..Len(t),
             IsCall(t[i]), IsCall(t[j]), t[i].id = t[j].id
      PROVE  i = j
  <2>1. /\ f[i] \in 1..Len(s) /\ t[i] = s[f[i]] /\ f[j] \in 1..Len(s) /\ t[j] = s[f[j]]
        /\ (i < j => f[i] < f[j]) /\ (j < i => f[j] < f[i])
    BY <1>2 DEF Picks
  <2>2. f[i] = f[j]
    BY <1>3, <2>1 DEF Unique
  <2>3. ~ (i < j) /\ ~ (j < i)
    BY <2>1, <2>2
  <2> QED BY <2>3
<1> QED BY <1>1, <1>3 DEF Unique

\* Only the calls matter.
LEMMA UniqueWithin ==
  ASSUME NEW S, NEW s \in Seq(S), NEW T, \A m \in S : IsCall(m) => m \in T
  PROVE  Unique(s) <=> Unique(Within(s, T))
<1> DEFINE K == {i \in DOMAIN s : s[i] \in T}
<1>1. PICK t \in Seq(S) : t = At(s, K)
  BY AtPicks
<1>2. PICK f : Picks(s, K, t, Len(s), f)
  BY <1>1, AtPicks
<1>3. Within(s, T) = t
  BY <1>1 DEF Within
<1>4. Unique(s) => Unique(t)
  BY <1>1, UniqueAt
<1>5. ASSUME Unique(t), NEW i \in 1..Len(s), NEW j \in 1..Len(s),
             IsCall(s[i]), IsCall(s[j]), s[i].id = s[j].id
      PROVE  i = j
  <2>1. i \in K /\ j \in K
    BY <1>5
  <2>2. PICK k \in 1..Len(t) : f[k] = i
    BY <1>2, <2>1 DEF Picks
  <2>3. PICK l \in 1..Len(t) : f[l] = j
    BY <1>2, <2>1 DEF Picks
  <2>4. t[k] = s[i] /\ t[l] = s[j]
    BY <1>2, <2>2, <2>3 DEF Picks
  <2>5. k = l
    BY <1>5, <2>4 DEF Unique
  <2> QED BY <2>2, <2>3, <2>5
<1>6. Unique(t) => Unique(s)
  BY <1>5 DEF Unique
<1> QED BY <1>3, <1>4, <1>6

LEMMA UniqueAppend ==
  ASSUME NEW S, NEW s \in Seq(S), NEW e \in S, Unique(s),
         IsCall(e) => \A m \in ToSet(s) : IsCall(m) => m.id # e.id
  PROVE  Unique(Append(s, e))
<1>1. PICK t \in Seq(S) : t = Append(s, e)
  BY AppendProperties
<1>2. /\ Len(s) \in Nat /\ Len(t) = Len(s) + 1 /\ t[Len(s) + 1] = e
      /\ \A i \in 1..Len(s) : t[i] = s[i] /\ t[i] \in ToSet(s)
  BY <1>1, AppendProperties, SetType
<1>3. ASSUME NEW i \in 1..Len(t), NEW j \in 1..Len(t),
             IsCall(t[i]), IsCall(t[j]), t[i].id = t[j].id
      PROVE  i = j
  <2>1. CASE i \in 1..Len(s) /\ j \in 1..Len(s)
    <3>1. IsCall(s[i]) /\ IsCall(s[j]) /\ s[i].id = s[j].id
      BY <1>2, <1>3, <2>1
    <3> QED BY <2>1, <3>1 DEF Unique
  <2>2. CASE i = Len(s) + 1 /\ j \in 1..Len(s)
    BY <1>2, <1>3, <2>2
  <2>3. CASE j = Len(s) + 1 /\ i \in 1..Len(s)
    BY <1>2, <1>3, <2>3
  <2>4. CASE i = Len(s) + 1 /\ j = Len(s) + 1
    BY <2>4
  <2>5. (i \in 1..Len(s) \/ i = Len(s) + 1) /\ (j \in 1..Len(s) \/ j = Len(s) + 1)
    BY <1>2
  <2> QED BY <2>1, <2>2, <2>3, <2>4, <2>5
<1> QED BY <1>1, <1>3 DEF Unique

\* A result belongs to a call before it, with only results between them.
LEMMA CallOf ==
  ASSUME NEW S, NEW s \in Seq(S), Chained(s), NEW j \in 1..Len(s), IsResult(s[j])
  PROVE  \E i \in 1..j-1 : /\ IsCall(s[i]) /\ s[i].id = s[j].id
                           /\ \A k \in i+1..j : IsResult(s[k])
<1> DEFINE Found(l) == \E i \in 1..l-1 : /\ IsCall(s[i]) /\ s[i].id = s[l].id
                                         /\ \A k \in i+1..l : IsResult(s[k])
           B == {l \in Nat : l \in 1..Len(s) /\ IsResult(s[l]) /\ ~ Found(l)}
<1>1. SUFFICES ASSUME ~ Found(j) PROVE FALSE
  OBVIOUS
<1>2. PICK l \in B : \A k \in B : l <= k
  <2>1. j \in B BY <1>1
  <2>2. B \in SUBSET Nat /\ B # {} BY <2>1
  <2> HIDE DEF B
  <2> QED BY <2>2, Least
<1>3. l \in 1..Len(s) /\ IsResult(s[l]) /\ ~ Found(l)
  BY <1>2
<1>4. l # 1 /\ s[l-1].id = s[l].id /\ (IsCall(s[l-1]) \/ IsResult(s[l-1]))
  BY <1>3 DEF Chained
<1>5. l - 1 \in 1..Len(s) /\ ~ (l <= l - 1) /\ l - 1 \in Nat
  BY <1>3, <1>4
<1>6. CASE IsCall(s[l-1])
  <2>1. l - 1 \in 1..l-1 /\ \A k \in (l-1)+1..l : k = l
    BY <1>3, <1>5
  <2>2. Found(l)
    BY <1>3, <1>4, <1>6, <2>1
  <2> QED BY <1>3, <2>2
<1>7. CASE IsResult(s[l-1])
  <2>1. Found(l - 1)
    <3>1. l - 1 \notin B BY <1>2, <1>5
    <3> QED BY <1>5, <1>7, <3>1
  <2>2. PICK i \in 1..(l-1)-1 : /\ IsCall(s[i]) /\ s[i].id = s[l-1].id
                                /\ \A k \in i+1..l-1 : IsResult(s[k])
    BY <2>1
  <2>3. i \in 1..l-1 /\ \A k \in i+1..l : k = l \/ k \in i+1..l-1
    BY <1>3, <2>2
  <2>4. Found(l)
    BY <1>3, <1>4, <2>2, <2>3
  <2> QED BY <1>3, <2>4
<1> QED BY <1>4, <1>6, <1>7

\* All results of a round are its call's.
LEMMA RoundSame ==
  ASSUME NEW S, NEW s \in Seq(S), Chained(s), NEW i \in 1..Len(s), IsCall(s[i]),
         NEW j \in i+1..Len(s), \A k \in i+1..j : IsResult(s[k])
  PROVE  s[j].id = s[i].id
<1>0. j \in 1..Len(s) /\ j \in i+1..j /\ IsResult(s[j])
  OBVIOUS
<1>1. PICK h \in 1..j-1 : /\ IsCall(s[h]) /\ s[h].id = s[j].id
                          /\ \A k \in h+1..j : IsResult(s[k])
  BY <1>0, CallOf
<1>2. ~ (h < i)
  <2> SUFFICES ASSUME h < i PROVE FALSE
    OBVIOUS
  <2>1. i \in h+1..j BY <1>0
  <2>2. IsResult(s[i]) BY <1>1, <2>1
  <2> QED BY <2>2, NotBoth
<1>3. ~ (i < h)
  <2> SUFFICES ASSUME i < h PROVE FALSE
    OBVIOUS
  <2>1. h \in i+1..j BY <1>0
  <2>2. IsResult(s[h]) BY <2>1
  <2> QED BY <1>1, <2>2, NotBoth
<1>4. h = i BY <1>2, <1>3
<1> QED BY <1>1, <1>4

-------------------------------------------------------------------------------
(* An entry put in, an entry taken out. *)

LEMMA Inserted ==
  ASSUME NEW S, NEW s \in Seq(S), NEW i \in 1..Len(s)+1, NEW e \in S
  PROVE  /\ InsertAt(s, i, e) \in Seq(S) /\ Len(InsertAt(s, i, e)) = Len(s) + 1
         /\ InsertAt(s, i, e)[i] = e
         /\ \A j \in 1..i-1 : InsertAt(s, i, e)[j] = s[j]
         /\ \A j \in i+1..Len(s)+1 : InsertAt(s, i, e)[j] = s[j-1]
         /\ ToSet(InsertAt(s, i, e)) = ToSet(s) \cup {e}
<1>1. PICK u \in Seq(S) : u = Before(s, i)
  BY Cut
<1>2. PICK v \in Seq(S) : v = Behind(s, i)
  BY Cut
<1>3. /\ Len(u) = i - 1 /\ Len(v) = Len(s) - i + 1 /\ s = u \o v /\ Len(s) \in Nat
      /\ InsertAt(s, i, e) = (u \o <<e>>) \o v
  <2>1. InsertAt(s, i, e) = (u \o <<e>>) \o v BY <1>1, <1>2, InsertIs
  <2>2. Len(u) = i - 1 /\ Len(v) = Len(s) - i + 1 BY <1>1, <1>2, Cut
  <2>3. s = Before(s, i) \o Behind(s, i) BY Cut
  <2>4. s = u \o v BY Zenon, <1>1, <1>2, <2>3
  <2> QED BY <2>1, <2>2, <2>4
<1>4. <<e>> \in Seq(S) /\ Len(<<e>>) = 1 /\ <<e>>[1] = e /\ ToSet(<<e>>) = {e}
  BY OneSet
<1>5. PICK w \in Seq(S) : w = u \o <<e>>
  BY <1>4, ConcatProperties
<1>6. /\ Len(w) = i
      /\ \A j \in 1..i : w[j] = IF j <= i - 1 THEN u[j] ELSE e
  <2>1. /\ Len(w) = Len(u) + Len(<<e>>)
        /\ \A j \in 1..Len(u)+Len(<<e>>) :
             w[j] = IF j <= Len(u) THEN u[j] ELSE <<e>>[j - Len(u)]
    BY <1>4, <1>5, ConcatProperties
  <2>2. Len(u) + Len(<<e>>) = i BY <1>3, <1>4
  <2>3. \A j \in 1..i : ~ (j <= i - 1) => j - Len(u) = 1 BY <1>3
  <2> QED BY <1>3, <1>4, <2>1, <2>2, <2>3
<1>7. PICK t \in Seq(S) : t = w \o v
  BY ConcatProperties
<1>8. /\ Len(t) = Len(s) + 1
      /\ \A j \in 1..Len(s)+1 : t[j] = IF j <= i THEN w[j] ELSE v[j - i]
  <2>1. /\ Len(t) = Len(w) + Len(v)
        /\ \A j \in 1..Len(w)+Len(v) : t[j] = IF j <= Len(w) THEN w[j] ELSE v[j - Len(w)]
    BY <1>7, ConcatProperties
  <2>2. Len(w) + Len(v) = Len(s) + 1 BY <1>3, <1>6
  <2> QED BY <1>6, <2>1, <2>2
<1>9. \A j \in 1..Len(s) : s[j] = IF j <= i - 1 THEN u[j] ELSE v[j - (i - 1)]
  <2>1. \A j \in 1..Len(u)+Len(v) : s[j] = IF j <= Len(u) THEN u[j] ELSE v[j - Len(u)]
    BY <1>3, ConcatProperties
  <2>2. Len(u) + Len(v) = Len(s) BY <1>3
  <2> QED BY <1>3, <2>1, <2>2
<1>10. InsertAt(s, i, e) = t
  BY <1>3, <1>5, <1>7
<1>11. t[i] = e
  BY <1>3, <1>6, <1>8
<1>12. ASSUME NEW j \in 1..i-1 PROVE t[j] = s[j]
  BY <1>3, <1>6, <1>8, <1>9
<1>13. ASSUME NEW j \in i+1..Len(s)+1 PROVE t[j] = s[j-1]
  <2>1. /\ j \in 1..Len(s)+1 /\ ~ (j <= i) /\ j - 1 \in 1..Len(s) /\ ~ (j - 1 <= i - 1)
        /\ j - 1 - (i - 1) = j - i
    BY <1>3
  <2> QED BY <1>8, <1>9, <2>1
<1>14. ToSet(t) = ToSet(s) \cup {e}
  <2>1. ToSet(t) = ToSet(w) \cup ToSet(v) BY <1>7, CatSet
  <2>2. ToSet(w) = ToSet(u) \cup ToSet(<<e>>)
    <3>1. PICK x \in Seq(S) : x = <<e>> BY OneSet
    <3>2. w = u \o x BY <1>5, <3>1
    <3>3. ToSet(w) = ToSet(u) \cup ToSet(x) BY <3>2, CatSet
    <3> QED BY Zenon, <3>1, <3>3
  <2>3. ToSet(s) = ToSet(u) \cup ToSet(v) BY <1>3, CatSet
  <2> QED BY <1>4, <2>1, <2>2, <2>3
<1> QED BY <1>8, <1>10, <1>11, <1>12, <1>13, <1>14

\* What does not look at the new entry.
LEMMA InsertedWithin ==
  ASSUME NEW S, NEW s \in Seq(S), NEW i \in 1..Len(s)+1, NEW e \in S, NEW T, e \notin T
  PROVE  Within(InsertAt(s, i, e), T) = Within(s, T)
<1>1. PICK u \in Seq(S) : u = Before(s, i)
  BY Cut
<1>2. PICK v \in Seq(S) : v = Behind(s, i)
  BY Cut
<1>3. s = u \o v /\ InsertAt(s, i, e) = (u \o <<e>>) \o v
  <2>1. InsertAt(s, i, e) = (u \o <<e>>) \o v BY <1>1, <1>2, InsertIs
  <2>2. s = Before(s, i) \o Behind(s, i) BY Cut
  <2>3. s = u \o v BY Zenon, <1>1, <1>2, <2>2
  <2> QED BY <2>1, <2>3
<1>4. PICK x \in Seq(S) : x = <<e>>
  BY <1>3, OneSet
<1>5. Within(x, T) = <<>>
  BY <1>3, <1>4, WithinOne
<1>6. Within((u \o x) \o v, T) = Within(u \o v, T)
  BY <1>5, WithinPast
<1> QED BY Zenon, <1>3, <1>4, <1>6

LEMMA InsertedChained ==
  ASSUME NEW S, NEW s \in Seq(S), NEW i \in 1..Len(s)+1, NEW e \in S, Chained(s),
         ~ IsResult(e), i = Len(s) + 1 \/ ~ IsResult(s[i])
  PROVE  Chained(InsertAt(s, i, e))
<1>1. PICK u \in Seq(S) : u = Before(s, i)
  BY Cut
<1>2. PICK v \in Seq(S) : v = Behind(s, i)
  BY Cut
<1>3. /\ Len(u) = i - 1 /\ Len(v) = Len(s) - i + 1 /\ s = u \o v /\ Len(s) \in Nat
      /\ InsertAt(s, i, e) = (u \o <<e>>) \o v
  <2>1. InsertAt(s, i, e) = (u \o <<e>>) \o v BY <1>1, <1>2, InsertIs
  <2>2. Len(u) = i - 1 /\ Len(v) = Len(s) - i + 1 BY <1>1, <1>2, Cut
  <2>3. s = Before(s, i) \o Behind(s, i) BY Cut
  <2>4. s = u \o v BY Zenon, <1>1, <1>2, <2>3
  <2> QED BY <2>1, <2>2, <2>4
<1>4. Len(v) = 0 \/ ~ IsResult(v[1])
  <2>1. CASE i = Len(s) + 1
    BY <1>3, <2>1
  <2>2. CASE i # Len(s) + 1
    <3>1. i \in 1..Len(u)+Len(v) /\ ~ (i <= Len(u)) /\ i - Len(u) = 1
      BY <1>3, <2>2
    <3>2. s[i] = v[1]
      BY <1>3, <3>1, ConcatProperties
    <3> QED BY <2>2, <3>2
  <2> QED BY <2>1, <2>2
<1>5. Chained(u) /\ Chained(v)
  BY <1>3, <1>4, ChainedParts
<1>6. Chained(<<e>>) /\ <<e>> \in Seq(S)
  BY ChainedOne, OneSet
<1>7. Chained(u \o <<e>>) /\ u \o <<e>> \in Seq(S)
  BY <1>5, <1>6, ChainedCat, ConcatProperties
<1>8. Chained((u \o <<e>>) \o v)
  BY <1>5, <1>7, ChainedCat
<1> QED BY <1>3, <1>8

LEMMA Removed ==
  ASSUME NEW S, NEW s \in Seq(S), NEW i \in 1..Len(s)
  PROVE  /\ RemoveAt(s, i) \in Seq(S) /\ Len(RemoveAt(s, i)) = Len(s) - 1
         /\ \A j \in 1..i-1 : RemoveAt(s, i)[j] = s[j]
         /\ \A j \in i..Len(s)-1 : RemoveAt(s, i)[j] = s[j+1]
         /\ ToSet(s) = ToSet(RemoveAt(s, i)) \cup {s[i]}
<1>1. PICK u \in Seq(S) : u = Before(s, i)
  BY CutOut
<1>2. PICK v \in Seq(S) : v = Behind(s, i + 1)
  BY CutOut
<1>3. /\ Len(u) = i - 1 /\ Len(v) = Len(s) - i /\ Len(s) \in Nat
      /\ s[i] \in S /\ s = (u \o <<s[i]>>) \o v /\ RemoveAt(s, i) = u \o v
  <2>1. RemoveAt(s, i) = u \o v BY <1>1, <1>2, RemoveIs
  <2>2. Len(u) = i - 1 /\ Len(v) = Len(s) - i /\ s[i] \in S BY <1>1, <1>2, CutOut
  <2>3. s = (Before(s, i) \o <<s[i]>>) \o Behind(s, i + 1) BY CutOut
  <2>4. s = (u \o <<s[i]>>) \o v BY Zenon, <1>1, <1>2, <2>3
  <2> QED BY <2>1, <2>2, <2>4
<1>4. PICK e \in S : e = s[i]
  BY <1>3
<1>5. <<e>> \in Seq(S) /\ Len(<<e>>) = 1 /\ ToSet(<<e>>) = {e}
  BY OneSet
<1>6. PICK w \in Seq(S) : w = u \o <<e>>
  BY <1>5, ConcatProperties
<1>7. /\ Len(w) = i
      /\ \A j \in 1..i : j <= i - 1 => w[j] = u[j]
  <2>1. /\ Len(w) = Len(u) + Len(<<e>>)
        /\ \A j \in 1..Len(u)+Len(<<e>>) :
             w[j] = IF j <= Len(u) THEN u[j] ELSE <<e>>[j - Len(u)]
    BY <1>5, <1>6, ConcatProperties
  <2>2. Len(u) + Len(<<e>>) = i BY <1>3, <1>5
  <2> QED BY <1>3, <2>1, <2>2
<1>8. s = w \o v
  BY <1>3, <1>4, <1>6
<1>9. \A j \in 1..Len(s) : s[j] = IF j <= i THEN w[j] ELSE v[j - i]
  <2>1. \A j \in 1..Len(w)+Len(v) : s[j] = IF j <= Len(w) THEN w[j] ELSE v[j - Len(w)]
    BY <1>8, ConcatProperties
  <2>2. Len(w) + Len(v) = Len(s) BY <1>3, <1>7
  <2> QED BY <1>7, <2>1, <2>2
<1>10. PICK t \in Seq(S) : t = u \o v
  BY ConcatProperties
<1>11. /\ Len(t) = Len(s) - 1
       /\ \A j \in 1..Len(s)-1 : t[j] = IF j <= i - 1 THEN u[j] ELSE v[j - (i - 1)]
  <2>1. /\ Len(t) = Len(u) + Len(v)
        /\ \A j \in 1..Len(u)+Len(v) : t[j] = IF j <= Len(u) THEN u[j] ELSE v[j - Len(u)]
    BY <1>10, ConcatProperties
  <2>2. Len(u) + Len(v) = Len(s) - 1 BY <1>3
  <2> QED BY <1>3, <2>1, <2>2
<1>12. ASSUME NEW j \in 1..i-1 PROVE t[j] = s[j]
  <2>1. j \in 1..Len(s)-1 /\ j \in 1..Len(s) /\ j <= i - 1 /\ j <= i /\ j \in 1..i
    BY <1>3
  <2> QED BY <1>7, <1>9, <1>11, <2>1
<1>13. ASSUME NEW j \in i..Len(s)-1 PROVE t[j] = s[j+1]
  <2>1. /\ j \in 1..Len(s)-1 /\ ~ (j <= i - 1) /\ j + 1 \in 1..Len(s) /\ ~ (j + 1 <= i)
        /\ j + 1 - i = j - (i - 1)
    BY <1>3
  <2> QED BY <1>9, <1>11, <2>1
<1>14. ToSet(s) = ToSet(t) \cup {s[i]}
  <2>1. ToSet(s) = ToSet(w) \cup ToSet(v) BY <1>8, CatSet
  <2>2. ToSet(w) = ToSet(u) \cup ToSet(<<e>>)
    <3>1. PICK x \in Seq(S) : x = <<e>> BY OneSet
    <3>2. w = u \o x BY <1>6, <3>1
    <3>3. ToSet(w) = ToSet(u) \cup ToSet(x) BY <3>2, CatSet
    <3> QED BY Zenon, <3>1, <3>3
  <2>3. ToSet(t) = ToSet(u) \cup ToSet(v) BY <1>10, CatSet
  <2> QED BY <1>4, <1>5, <2>1, <2>2, <2>3
<1> QED BY <1>3, <1>10, <1>11, <1>12, <1>13, <1>14

LEMMA RemovedWithin ==
  ASSUME NEW S, NEW s \in Seq(S), NEW i \in 1..Len(s), NEW T, s[i] \notin T
  PROVE  Within(RemoveAt(s, i), T) = Within(s, T)
<1>1. PICK u \in Seq(S) : u = Before(s, i)
  BY CutOut
<1>2. PICK v \in Seq(S) : v = Behind(s, i + 1)
  BY CutOut
<1>3. s[i] \in S /\ s = (u \o <<s[i]>>) \o v /\ RemoveAt(s, i) = u \o v
  <2>1. RemoveAt(s, i) = u \o v BY <1>1, <1>2, RemoveIs
  <2>2. s[i] \in S OBVIOUS
  <2>3. s = (Before(s, i) \o <<s[i]>>) \o Behind(s, i + 1) BY CutOut
  <2>4. s = (u \o <<s[i]>>) \o v BY Zenon, <1>1, <1>2, <2>3
  <2> QED BY <2>1, <2>2, <2>4
<1>4. PICK x \in Seq(S) : x = <<s[i]>>
  BY <1>3, OneSet
<1>5. Within(x, T) = <<>>
  BY <1>3, <1>4, WithinOne
<1>6. Within((u \o x) \o v, T) = Within(u \o v, T)
  BY <1>5, WithinPast
<1> QED BY Zenon, <1>3, <1>4, <1>6

LEMMA RemovedChained ==
  ASSUME NEW S, NEW s \in Seq(S), NEW i \in 1..Len(s), Chained(s),
         ~ IsResult(s[i]), ~ IsCall(s[i])
  PROVE  Chained(RemoveAt(s, i))
<1>1. PICK u \in Seq(S) : u = Before(s, i)
  BY CutOut
<1>2. PICK v \in Seq(S) : v = Behind(s, i + 1)
  BY CutOut
<1>3. /\ Len(u) = i - 1 /\ Len(v) = Len(s) - i /\ Len(s) \in Nat
      /\ s[i] \in S /\ s = (u \o <<s[i]>>) \o v /\ RemoveAt(s, i) = u \o v
  <2>1. RemoveAt(s, i) = u \o v BY <1>1, <1>2, RemoveIs
  <2>2. Len(u) = i - 1 /\ Len(v) = Len(s) - i /\ s[i] \in S BY <1>1, <1>2, CutOut
  <2>3. s = (Before(s, i) \o <<s[i]>>) \o Behind(s, i + 1) BY CutOut
  <2>4. s = (u \o <<s[i]>>) \o v BY Zenon, <1>1, <1>2, <2>3
  <2> QED BY <2>1, <2>2, <2>4
<1>4. PICK w \in Seq(S) : w = u \o <<s[i]>>
  BY <1>3, OneSet, ConcatProperties
<1>5. Len(w) = i
  <2>1. <<s[i]>> \in Seq(S) /\ Len(<<s[i]>>) = 1 BY <1>3, OneSet
  <2>2. Len(w) = Len(u) + Len(<<s[i]>>) BY <1>4, <2>1, ConcatProperties
  <2> QED BY <1>3, <2>1, <2>2
<1>6. s = w \o v
  BY <1>3, <1>4
<1>7. Len(v) = 0 \/ ~ IsResult(v[1])
  <2>1. CASE i = Len(s)
    BY <1>3, <2>1
  <2>2. CASE i # Len(s)
    <3>1. i + 1 \in 1..Len(s) /\ i + 1 - 1 = i
      BY <1>3, <2>2
    <3>2. i + 1 \in 1..Len(w)+Len(v) /\ ~ (i + 1 <= Len(w)) /\ i + 1 - Len(w) = 1
      BY <1>3, <1>5, <2>2
    <3>3. s[i+1] = v[1]
      BY <1>6, <3>2, ConcatProperties
    <3>4. ~ IsResult(s[i+1])
      BY <3>1 DEF Chained
    <3> QED BY <3>3, <3>4
  <2> QED BY <2>1, <2>2
<1>8. Chained(w) /\ Chained(v)
  BY <1>6, <1>7, ChainedParts
<1>9. Chained(u)
  BY <1>3, <1>4, <1>8, OneSet, ChainedParts
<1>10. Chained(u \o v)
  BY <1>8, <1>9, ChainedCat
<1> QED BY <1>3, <1>10

-------------------------------------------------------------------------------
(* First and last. *)

LEMMA MinIs == ASSUME NEW B \in SUBSET Nat, B # {}
               PROVE  Min(B) \in B /\ \A k \in B : Min(B) <= k
BY Least DEF Min

LEMMA MaxIs == ASSUME NEW n \in Nat, NEW B \in SUBSET (1..n), B # {}
               PROVE  Max(B) \in B /\ \A k \in B : k <= Max(B)
<1> DEFINE C == {n - k : k \in B}
<1>1. PICK m \in C : \A k \in C : m <= k
  <2>1. \A k \in B : n - k \in Nat
    OBVIOUS
  <2>2. C \in SUBSET Nat /\ C # {}
    BY <2>1
  <2> HIDE DEF C
  <2> QED BY <2>2, Least
<1>2. PICK b \in B : m = n - b
  BY <1>1
<1>3. \A k \in B : b >= k
  <2>1. \A k \in B : n - k \in C OBVIOUS
  <2>2. \A k \in B : m <= n - k BY <1>1, <2>1
  <2> QED BY <1>2, <2>2
<1>4. \E x \in B : \A y \in B : x >= y
  BY <1>3
<1>5. Max(B) \in B /\ \A y \in B : Max(B) >= y
  BY Zenon, <1>4 DEF Max
<1> QED BY <1>5

LEMMA FirstOf ==
  ASSUME NEW S, NEW s \in Seq(S), NEW B, B = {i \in 1..Len(s) : IsTask(s[i])}
  PROVE  FirstTask(s) = IF B # {} THEN Min(B) ELSE 0
BY DEF FirstTask, SelectInSeq

\* Where a selection by kind finds what it looks for, if anything.
LEMMA BriefIs ==
  ASSUME NEW S, NEW s \in Seq(S)
  PROVE  \/ SelectInSeq(s, IsBrief) = 0 /\ \A i \in 1..Len(s) : ~ IsBrief(s[i])
         \/ /\ SelectInSeq(s, IsBrief) \in 1..Len(s)
            /\ IsBrief(s[SelectInSeq(s, IsBrief)])
<1> DEFINE B == {i \in 1..Len(s) : IsBrief(s[i])}
<1>1. SelectInSeq(s, IsBrief) = IF B # {} THEN Min(B) ELSE 0
  BY DEF SelectInSeq
<1>2. B \in SUBSET Nat
  OBVIOUS
<1>3. B # {} => Min(B) \in B
  <2> HIDE DEF B
  <2> QED BY <1>2, MinIs
<1> QED BY <1>1, <1>3

LEMMA NoteIs ==
  ASSUME NEW S, NEW s \in Seq(S), NEW i \in 1..Len(s), IsNote(s[i]),
         \A j \in 1..i-1 : ~ IsNote(s[j])
  PROVE  SelectInSeq(s, IsNote) = i
<1> DEFINE B == {j \in 1..Len(s) : IsNote(s[j])}
<1>1. SelectInSeq(s, IsNote) = IF B # {} THEN Min(B) ELSE 0
  BY DEF SelectInSeq
<1>2. B \in SUBSET Nat /\ i \in B
  OBVIOUS
<1>3. Min(B) \in B /\ Min(B) <= i
  <2> HIDE DEF B
  <2> QED BY <1>2, MinIs
<1>4. ~ (Min(B) < i)
  <2>1. Min(B) \in 1..Len(s) /\ IsNote(s[Min(B)]) BY <1>3
  <2> HIDE DEF B
  <2> QED BY <2>1
<1>5. Min(B) = i
  <2>1. Min(B) \in Nat BY <1>3
  <2> HIDE DEF B
  <2> QED BY <1>3, <1>4, <2>1
<1> QED BY <1>1, <1>2, <1>5

LEMMA LastCallIs ==
  ASSUME NEW S, NEW s \in Seq(S), NEW i \in 1..Len(s), IsCall(s[i]),
         \A j \in i+1..Len(s) : ~ IsCall(s[j])
  PROVE  SelectLastInSeq(s, IsCall) = i
<1> DEFINE B == {j \in 1..Len(s) : IsCall(s[j])}
<1>1. SelectLastInSeq(s, IsCall) = IF B # {} THEN Max(B) ELSE 0
  BY DEF SelectLastInSeq
<1>2. B \in SUBSET (1..Len(s)) /\ i \in B /\ Len(s) \in Nat
  OBVIOUS
<1>3. Max(B) \in B /\ i <= Max(B)
  <2> HIDE DEF B
  <2> QED BY <1>2, MaxIs
<1>4. ~ (i < Max(B))
  <2>1. Max(B) \in 1..Len(s) /\ IsCall(s[Max(B)]) BY <1>3
  <2> HIDE DEF B
  <2> QED BY <2>1
<1>5. Max(B) = i
  <2>1. Max(B) \in Nat BY <1>3
  <2> HIDE DEF B
  <2> QED BY <1>3, <1>4, <2>1
<1> QED BY <1>1, <1>2, <1>5

\* The tail begins in the list or behind it.
LEMMA TailIn ==
  ASSUME NEW S, NEW s \in Seq(S)
  PROVE  TailStart(s) \in 1..Len(s)+1
<1> DEFINE B == {j \in 1..Len(s) : IsCall(s[j])}
           C == {j \in 1..Len(s) : IsUser(s[j])}
           t == {SelectLastInSeq(s, IsUser), SelectLastInSeq(s, IsCall)} \ {0}
<1>0. Len(s) \in Nat OBVIOUS
<1>1. SelectLastInSeq(s, IsCall) = IF B # {} THEN Max(B) ELSE 0
  BY DEF SelectLastInSeq
<1>2. SelectLastInSeq(s, IsUser) = IF C # {} THEN Max(C) ELSE 0
  BY DEF SelectLastInSeq
<1>3. B \in SUBSET (1..Len(s)) /\ C \in SUBSET (1..Len(s))
  OBVIOUS
<1>4. SelectLastInSeq(s, IsCall) \in 0..Len(s) /\ SelectLastInSeq(s, IsUser) \in 0..Len(s)
  <2>1. B # {} => Max(B) \in B
    <3> HIDE DEF B
    <3> QED BY <1>0, <1>3, MaxIs
  <2>2. C # {} => Max(C) \in C
    <3> HIDE DEF C
    <3> QED BY <1>0, <1>3, MaxIs
  <2>3. B # {} => Max(B) \in 1..Len(s) BY <1>3, <2>1
  <2>4. C # {} => Max(C) \in 1..Len(s) BY <1>3, <2>2
  <2> HIDE DEF B, C
  <2> QED BY <1>0, <1>1, <1>2, <2>3, <2>4
<1>5. t \in SUBSET (1..Len(s))
  BY <1>0, <1>4
<1>6. TailStart(s) = IF t = {} THEN Len(s) + 1 ELSE CHOOSE i \in t : \A j \in t : j <= i
  BY DEF TailStart
<1>7. t # {} => (CHOOSE i \in t : \A j \in t : j <= i) \in t
  <2>1. t # {} => Max(t) \in t /\ \A j \in t : j <= Max(t)
    <3> HIDE DEF t
    <3> QED BY <1>0, <1>5, MaxIs
  <2>2. ASSUME t # {} PROVE \E i \in t : \A j \in t : j <= i
    <3> HIDE DEF t
    <3> QED BY <2>1, <2>2
  <2> HIDE DEF t
  <2> QED BY Zenon, <2>2
<1>8. Len(s) + 1 \in 1..Len(s)+1 /\ \A x \in 1..Len(s) : x \in 1..Len(s)+1
  BY <1>0
<1> HIDE DEF t
<1> QED BY Zenon, <1>5, <1>6, <1>7, <1>8

-------------------------------------------------------------------------------
(* How a list opens: notes, then the task; a request has its system prompt
   before them. *)

\* What a set of messages must hold for the operations to stay in it.
Pool(M) ==
  /\ \A m \in M : IsNote(m) => m.id \in Notes
  /\ \A m \in M : IsBrief(m) => m.has \subseteq Notes
  /\ \A n \in Notes : Msg("note", n, {}) \in M
  /\ \A h \in SUBSET Notes : Msg("brief", 0, h) \in M
  /\ Msg("system", 0, {}) \in M /\ Msg("memory", 0, {}) \in M /\ Msg("nudge", 0, {}) \in M

Opened(m) == m.kind \in {"user", "marker"}

\* From position b on there are notes, and behind them, at k, the task.
Opens(s, b, k) ==
  /\ k \in b..Len(s) /\ Opened(s[k])
  /\ \A j \in b..k-1 : IsNote(s[j])

Framed(s, k) == s[1].kind = "system" /\ Opens(s, 2, k)

\* All notes are in the run before the task.
Tidy(s, k) == \A j \in 1..Len(s) : IsNote(s[j]) => j < k

LEMMA KindsApart ==
  ASSUME NEW m
  PROVE  /\ Opened(m) => /\ IsTask(m) /\ IsUser(m) /\ Storable(m)
                         /\ ~ IsNote(m) /\ ~ IsBrief(m) /\ ~ IsResult(m) /\ ~ IsCall(m)
         /\ m.kind = "system" => /\ ~ IsTask(m) /\ ~ IsUser(m) /\ ~ Storable(m) /\ ~ IsNote(m)
                                 /\ ~ IsBrief(m) /\ ~ IsResult(m) /\ ~ IsCall(m)
         /\ IsNote(m) => /\ IsUser(m) /\ Storable(m) /\ ~ IsTask(m)
                         /\ ~ IsBrief(m) /\ ~ IsResult(m) /\ ~ IsCall(m)
         /\ IsBrief(m) => /\ IsUser(m) /\ Storable(m) /\ ~ IsTask(m) /\ ~ IsResult(m) /\ ~ IsCall(m)
         /\ IsResult(m) \/ IsCall(m) => Storable(m) /\ ~ IsUser(m)
BY DEF Opened, IsTask, IsUser, Storable, IsNote, IsBrief, IsResult, IsCall

LEMMA MsgIs ==
  ASSUME NEW kind, NEW id, NEW has
  PROVE  /\ Msg(kind, id, has).kind = kind /\ Msg(kind, id, has).id = id
         /\ Msg(kind, id, has).has = has
         /\ Msg(kind, id, has) = [kind |-> kind, id |-> id, has |-> has]
BY DEF Msg

LEMMA OpensFirst ==
  ASSUME NEW S, NEW s \in Seq(S), NEW b \in Nat \ {0}, NEW k, Opens(s, b, k),
         \A j \in 1..b-1 : ~ IsTask(s[j])
  PROVE  FirstTask(s) = k
<1> DEFINE B == {i \in 1..Len(s) : IsTask(s[i])}
<1>0. k \in b..Len(s) /\ k \in 1..Len(s) /\ k \in Nat
  BY DEF Opens
<1>1. FirstTask(s) = IF B # {} THEN Min(B) ELSE 0
  BY FirstOf
<1>2. B \in SUBSET Nat /\ k \in B
  BY <1>0, KindsApart DEF Opens
<1>3. Min(B) \in B /\ Min(B) <= k
  <2> HIDE DEF B
  <2> QED BY <1>2, MinIs
<1>4. ~ (Min(B) < k)
  <2>1. Min(B) \in 1..Len(s) /\ IsTask(s[Min(B)]) BY <1>3
  <2> HIDE DEF B
  <2> SUFFICES ASSUME Min(B) < k PROVE FALSE
    OBVIOUS
  <2>2. Min(B) \in 1..b-1 \/ Min(B) \in b..k-1 BY <1>0, <2>1
  <2> QED BY <2>1, <2>2, KindsApart DEF Opens
<1>5. Min(B) = k
  <2>1. Min(B) \in Nat BY <1>3
  <2> HIDE DEF B
  <2> QED BY <1>0, <1>3, <1>4, <2>1
<1> QED BY <1>1, <1>2, <1>5

LEMMA FramedFirst ==
  ASSUME NEW S, NEW s \in Seq(S), NEW k, Framed(s, k)
  PROVE  FirstTask(s) = k /\ k \in 2..Len(s)
<1>1. \A j \in 1..2-1 : ~ IsTask(s[j])
  BY KindsApart DEF Framed
<1>2. Opens(s, 2, k) /\ 2 \in Nat \ {0}
  BY DEF Framed
<1>3. FirstTask(s) = k
  BY <1>1, <1>2, OpensFirst
<1> QED BY <1>2, <1>3 DEF Opens

LEMMA FramedSlot ==
  ASSUME NEW S, NEW s \in Seq(S), NEW k, Framed(s, k)
  PROVE  NoteSlot(s) = k
<1>1. k \in 2..Len(s) /\ ~ IsNote(s[k]) /\ \A j \in 2..k-1 : IsNote(s[j])
  BY KindsApart DEF Framed, Opens
<1>2. {i \in 2..Len(s) : \A j \in 2..i : IsNote(s[j])} = 2..(k-1)
  <2>1. ASSUME NEW i \in 2..(k-1) PROVE i \in 2..Len(s) /\ \A j \in 2..i : IsNote(s[j])
    BY <1>1
  <2>2. ASSUME NEW i \in 2..Len(s), \A j \in 2..i : IsNote(s[j]) PROVE i \in 2..(k-1)
    <3>1. ~ (k \in 2..i) BY <1>1, <2>2
    <3> QED BY <1>1, <3>1
  <2> QED BY <2>1, <2>2
<1>3. 2 \in Int /\ k - 1 \in Int
  BY <1>1
<1>4. Cardinality(2..(k-1)) = IF 2 > k - 1 THEN 0 ELSE (k-1)-2+1
  BY <1>3, FS_Interval
<1>5. Cardinality(2..(k-1)) = k - 2
  BY <1>1, <1>4
<1>6. NoteSlot(s) = 2 + Cardinality(2..(k-1))
  BY Zenon, <1>2 DEF NoteSlot
<1> QED BY <1>1, <1>5, <1>6

\* What begins the same way is framed the same way.
LEMMA SameFrame ==
  ASSUME NEW s, NEW t, NEW k, Framed(s, k), k <= Len(t), Len(t) \in Nat, Len(s) \in Nat,
         \A j \in 1..k : t[j] = s[j]
  PROVE  Framed(t, k)
BY DEF Framed, Opens

-------------------------------------------------------------------------------
(* The brief and the notes. *)

\* What the store and the request hold in common, whatever becomes of the notes.
Lasting(M) == {m \in M : Storable(m) /\ ~ IsNote(m) /\ ~ IsBrief(m)}

LEMMA NoteIdsOf ==
  ASSUME NEW s, NEW t, NEW e, ToSet(t) = ToSet(s) \cup {e}
  PROVE  /\ NoteIds(t) = IF IsNote(e) THEN NoteIds(s) \cup {e.id} ELSE NoteIds(s)
         /\ BriefNotes(t) = IF IsBrief(e) THEN BriefNotes(s) \cup e.has ELSE BriefNotes(s)
<1>1. CASE IsNote(e)
  <2>1. NoteIds(t) = NoteIds(s) \cup {e.id} BY <1>1 DEF NoteIds
  <2>2. ~ IsBrief(e) BY <1>1, KindsApart
  <2>3. {x \in ToSet(t) : IsBrief(x)} = {x \in ToSet(s) : IsBrief(x)} BY <2>2
  <2> QED BY <1>1, <2>1, <2>2, <2>3 DEF BriefNotes
<1>2. CASE IsBrief(e)
  <2>1. BriefNotes(t) = BriefNotes(s) \cup e.has BY <1>2 DEF BriefNotes
  <2>2. ~ IsNote(e) BY <1>2, KindsApart
  <2>3. {x \in ToSet(t) : IsNote(x)} = {x \in ToSet(s) : IsNote(x)} BY <2>2
  <2> QED BY <1>2, <2>1, <2>2, <2>3 DEF NoteIds
<1>3. CASE ~ IsNote(e) /\ ~ IsBrief(e)
  <2>1. {x \in ToSet(t) : IsNote(x)} = {x \in ToSet(s) : IsNote(x)} BY <1>3
  <2>2. {x \in ToSet(t) : IsBrief(x)} = {x \in ToSet(s) : IsBrief(x)} BY <1>3
  <2> QED BY <1>3, <2>1, <2>2 DEF NoteIds, BriefNotes
<1> QED BY <1>1, <1>2, <1>3

\* What stays the same when an entry goes that is behind the task and neither
\* call nor result.
LEMMA TakenBehind ==
  ASSUME NEW M, NEW s \in Seq(M), NEW k, Framed(s, k), Chained(s),
         NEW i \in 1..Len(s), k < i, IsBrief(s[i])
  PROVE  /\ RemoveAt(s, i) \in Seq(M)
         /\ \A j \in 1..k : RemoveAt(s, i)[j] = s[j]
         /\ Framed(RemoveAt(s, i), k) /\ Chained(RemoveAt(s, i))
         /\ Within(RemoveAt(s, i), Lasting(M)) = Within(s, Lasting(M))
         /\ NoteIds(RemoveAt(s, i)) = NoteIds(s)
         /\ Tidy(s, k) => Tidy(RemoveAt(s, i), k)
<1>1. PICK t \in Seq(M) : t = RemoveAt(s, i)
  BY Removed
<1>2. /\ Len(t) = Len(s) - 1 /\ \A j \in 1..i-1 : t[j] = s[j]
      /\ \A j \in i..Len(s)-1 : t[j] = s[j+1]
      /\ ToSet(s) = ToSet(t) \cup {s[i]}
  <2>1. /\ Len(t) = Len(s) - 1 /\ \A j \in 1..i-1 : t[j] = s[j]
        /\ \A j \in i..Len(s)-1 : t[j] = s[j+1]
    BY <1>1, Removed
  <2>2. ToSet(s) = ToSet(RemoveAt(s, i)) \cup {s[i]}
    BY Removed
  <2> QED BY <1>1, <2>1, <2>2
<1>3. k \in 2..Len(s) /\ Len(s) \in Nat
  BY DEF Framed, Opens
<1>4. \A j \in 1..k : t[j] = s[j]
  BY <1>2, <1>3
<1>5. k <= Len(t) /\ Len(t) \in Nat
  BY <1>2, <1>3
<1>6. Framed(t, k)
  BY <1>3, <1>4, <1>5, SameFrame
<1>7. ~ IsNote(s[i]) /\ ~ IsResult(s[i]) /\ ~ IsCall(s[i]) /\ s[i] \notin Lasting(M)
  BY KindsApart DEF Lasting
<1>8. Chained(t)
  BY <1>1, <1>7, RemovedChained
<1>9. Within(t, Lasting(M)) = Within(s, Lasting(M))
  BY <1>1, <1>7, RemovedWithin
<1>10. NoteIds(s) = NoteIds(t)
  BY <1>2, <1>7, NoteIdsOf
<1>11. ASSUME Tidy(s, k), NEW j \in 1..Len(t), IsNote(t[j]) PROVE j < k
  <2>1. CASE j < i
    BY <1>2, <1>3, <1>11, <2>1 DEF Tidy
  <2>2. CASE ~ (j < i)
    <3>1. t[j] = s[j+1] /\ j + 1 \in 1..Len(s) BY <1>2, <1>3, <2>2
    <3>2. j + 1 < k BY <1>11, <3>1 DEF Tidy
    <3> QED BY <1>3, <2>2, <3>2
  <2> QED BY <2>1, <2>2
<1>12. Tidy(s, k) => Tidy(t, k)
  BY <1>11 DEF Tidy
<1> QED BY <1>1, <1>4, <1>6, <1>8, <1>9, <1>10, <1>12

\* The same when an entry comes right behind the task.
LEMMA PutBehind ==
  ASSUME NEW M, NEW s \in Seq(M), NEW k, Framed(s, k), Chained(s),
         NEW e \in M, IsBrief(e)
  PROVE  /\ InsertAt(s, k + 1, e) \in Seq(M)
         /\ \A j \in 1..k : InsertAt(s, k + 1, e)[j] = s[j]
         /\ Framed(InsertAt(s, k + 1, e), k) /\ Chained(InsertAt(s, k + 1, e))
         /\ Within(InsertAt(s, k + 1, e), Lasting(M)) = Within(s, Lasting(M))
         /\ NoteIds(InsertAt(s, k + 1, e)) = NoteIds(s)
         /\ e.has \subseteq BriefNotes(InsertAt(s, k + 1, e))
         /\ Tidy(s, k) => Tidy(InsertAt(s, k + 1, e), k)
<1>0. k \in 2..Len(s) /\ Len(s) \in Nat /\ k + 1 \in 1..Len(s)+1 /\ Opened(s[k])
  BY DEF Framed, Opens
<1>1. PICK t \in Seq(M) : t = InsertAt(s, k + 1, e)
  BY <1>0, Inserted
<1>2. /\ Len(t) = Len(s) + 1 /\ \A j \in 1..k : t[j] = s[j]
      /\ t[k+1] = e /\ \A j \in k+2..Len(s)+1 : t[j] = s[j-1]
      /\ ToSet(t) = ToSet(s) \cup {e}
  <2> DEFINE i == k + 1
  <2>0. i \in 1..Len(s)+1
    BY <1>0
  <2> HIDE DEF i
  <2>1. /\ Len(InsertAt(s, i, e)) = Len(s) + 1
        /\ InsertAt(s, i, e)[i] = e
        /\ \A j \in 1..i-1 : InsertAt(s, i, e)[j] = s[j]
        /\ \A j \in i+1..Len(s)+1 : InsertAt(s, i, e)[j] = s[j-1]
    BY <2>0, Inserted
  <2>2. ToSet(InsertAt(s, i, e)) = ToSet(s) \cup {e}
    BY <2>0, Inserted
  <2>3. t = InsertAt(s, i, e)
    BY <1>1 DEF i
  <2>4. /\ Len(t) = Len(s) + 1 /\ t[i] = e
        /\ \A j \in 1..i-1 : t[j] = s[j]
        /\ \A j \in i+1..Len(s)+1 : t[j] = s[j-1]
    BY <2>1, <2>3
  <2>5. ToSet(t) = ToSet(s) \cup {e}
    BY <2>2, <2>3
  <2>6. i = k + 1
    BY DEF i
  <2>7. Len(t) = Len(s) + 1 /\ t[k+1] = e
    BY <2>4, <2>6
  <2>8. \A j \in 1..k : t[j] = s[j]
    BY <1>0, <2>4, <2>6
  <2>9. \A j \in k+2..Len(s)+1 : t[j] = s[j-1]
    BY <1>0, <2>4, <2>6
  <2> QED BY <2>5, <2>7, <2>8, <2>9
<1>4. \A j \in 1..k : t[j] = s[j]
  BY <1>0, <1>2
<1>5. k <= Len(t) /\ Len(t) \in Nat
  BY <1>0, <1>2
<1>6. Framed(t, k)
  BY <1>0, <1>4, <1>5, SameFrame
<1>7. ~ IsNote(e) /\ ~ IsResult(e) /\ ~ IsCall(e) /\ e \notin Lasting(M)
  BY KindsApart DEF Lasting
<1>8. Chained(t)
  <2>1. k + 1 = Len(s) + 1 \/ ~ IsResult(s[k+1])
    <3> SUFFICES ASSUME k + 1 # Len(s) + 1, IsResult(s[k+1]) PROVE FALSE
      OBVIOUS
    <3>0. PICK j \in 1..Len(s) : j = k + 1 BY <1>0
    <3>1. IsResult(s[j]) /\ j - 1 = k BY <1>0, <3>0
    <3>2. IsCall(s[k]) \/ IsResult(s[k]) BY <3>1 DEF Chained
    <3> QED BY <1>0, <3>2, KindsApart
  <2> QED BY <1>0, <1>1, <1>7, <2>1, InsertedChained
<1>9. Within(t, Lasting(M)) = Within(s, Lasting(M))
  BY <1>0, <1>1, <1>7, InsertedWithin
<1>10. NoteIds(t) = NoteIds(s) /\ e.has \subseteq BriefNotes(t)
  BY <1>2, <1>7, NoteIdsOf
<1>11. ASSUME Tidy(s, k), NEW j \in 1..Len(t), IsNote(t[j]) PROVE j < k
  <2>1. CASE j <= k
    BY <1>0, <1>4, <1>11, <2>1 DEF Tidy
  <2>2. CASE j = k + 1
    BY <1>2, <1>7, <1>11, <2>2
  <2>3. CASE k + 1 < j
    <3>1. t[j] = s[j-1] /\ j - 1 \in 1..Len(s) BY <1>0, <1>2, <2>3
    <3>2. j - 1 < k BY <1>11, <3>1 DEF Tidy
    <3> QED BY <1>0, <2>3, <3>2
  <2> QED BY <1>0, <1>2, <2>1, <2>2, <2>3
<1>12. Tidy(s, k) => Tidy(t, k)
  BY <1>11 DEF Tidy
<1> QED BY <1>1, <1>4, <1>6, <1>8, <1>9, <1>10, <1>12

\* A new brief: nothing else changes, and it holds what it is given.
LEMMA BriefApplied ==
  ASSUME NEW M, Pool(M), NEW s \in Seq(M), NEW k, Framed(s, k), Chained(s),
         NEW notes \in SUBSET Notes
  PROVE  /\ ApplyBrief(s, notes) \in Seq(M)
         /\ \A j \in 1..k : ApplyBrief(s, notes)[j] = s[j]
         /\ Framed(ApplyBrief(s, notes), k) /\ Chained(ApplyBrief(s, notes))
         /\ Within(ApplyBrief(s, notes), Lasting(M)) = Within(s, Lasting(M))
         /\ NoteIds(ApplyBrief(s, notes)) = NoteIds(s)
         /\ notes \subseteq BriefNotes(ApplyBrief(s, notes))
         /\ Tidy(s, k) => Tidy(ApplyBrief(s, notes), k)
<1> DEFINE old == SelectInSeq(s, IsBrief)
           r0  == IF old = 0 THEN s ELSE RemoveAt(s, old)
<1>1. PICK e \in M : e = Msg("brief", 0, notes) /\ IsBrief(e) /\ e.has = notes
  BY MsgIs DEF Pool, IsBrief
<1>2. k \in 2..Len(s) /\ Len(s) \in Nat /\ IsUser(s[k]) /\ NoteSlot(s) = k
  BY FramedSlot, KindsApart DEF Framed, Opens
<1>3. \A j \in 1..k : ~ IsBrief(s[j])
  <2>1. ~ IsBrief(s[1]) /\ ~ IsBrief(s[k]) /\ \A j \in 2..k-1 : ~ IsBrief(s[j])
    BY KindsApart DEF Framed, Opens
  <2>2. \A j \in 1..k : j = 1 \/ j = k \/ j \in 2..k-1
    BY <1>2
  <2> QED BY <2>1, <2>2
<1>4. old = 0 \/ (old \in 1..Len(s) /\ k < old /\ IsBrief(s[old]))
  <2>1. old = 0 \/ (old \in 1..Len(s) /\ IsBrief(s[old]))
    BY BriefIs
  <2> HIDE DEF old
  <2> QED BY <1>2, <1>3, <2>1
<1>5. ApplyBrief(s, notes) = InsertAt(r0, k + 1, e)
  BY <1>1, <1>2 DEF ApplyBrief
<1> HIDE DEF old
<1>6. /\ r0 \in Seq(M) /\ \A j \in 1..k : r0[j] = s[j]
      /\ Framed(r0, k) /\ Chained(r0)
      /\ Within(r0, Lasting(M)) = Within(s, Lasting(M))
      /\ NoteIds(r0) = NoteIds(s)
      /\ Tidy(s, k) => Tidy(r0, k)
  <2>1. CASE old = 0
    BY <2>1
  <2>2. CASE old \in 1..Len(s) /\ k < old /\ IsBrief(s[old])
    <3>1. r0 = RemoveAt(s, old) BY <2>2
    <3> HIDE DEF r0
    <3> QED BY <2>2, <3>1, TakenBehind
  <2> QED BY <1>4, <2>1, <2>2
<1> HIDE DEF r0
<1>7. PICK r \in Seq(M) : r = r0
  BY <1>6
<1>8. PICK t : t = InsertAt(r, k + 1, e)
  OBVIOUS
<1>9. /\ \A j \in 1..k : r[j] = s[j]
      /\ Framed(r, k) /\ Chained(r)
      /\ Within(r, Lasting(M)) = Within(s, Lasting(M))
      /\ NoteIds(r) = NoteIds(s)
      /\ Tidy(s, k) => Tidy(r, k)
  BY <1>6, <1>7
<1>10. /\ t \in Seq(M) /\ \A j \in 1..k : t[j] = r[j]
       /\ Framed(t, k) /\ Chained(t)
       /\ Within(t, Lasting(M)) = Within(r, Lasting(M))
       /\ NoteIds(t) = NoteIds(r) /\ e.has \subseteq BriefNotes(t)
       /\ Tidy(r, k) => Tidy(t, k)
  BY <1>1, <1>8, <1>9, PutBehind
<1>11. ApplyBrief(s, notes) = t
  BY <1>5, <1>7, <1>8
<1>12. \A j \in 1..k : t[j] = s[j]
  BY <1>9, <1>10
<1> QED BY <1>1, <1>9, <1>10, <1>11, <1>12

\* A note goes right before the task, behind the others.
LEMMA NotePut ==
  ASSUME NEW M, Pool(M), NEW s \in Seq(M), NEW k, Framed(s, k), Chained(s),
         NEW e \in M, IsNote(e)
  PROVE  /\ InsertAt(s, k, e) \in Seq(M)
         /\ Framed(InsertAt(s, k, e), k + 1) /\ InsertAt(s, k, e)[k+1] = s[k]
         /\ Chained(InsertAt(s, k, e))
         /\ Within(InsertAt(s, k, e), Lasting(M)) = Within(s, Lasting(M))
         /\ NoteIds(InsertAt(s, k, e)) = NoteIds(s) \cup {e.id}
         /\ BriefNotes(InsertAt(s, k, e)) = BriefNotes(s)
         /\ Tidy(s, k) => Tidy(InsertAt(s, k, e), k + 1)
<1>0. k \in 2..Len(s) /\ Len(s) \in Nat /\ k \in 1..Len(s)+1 /\ Opened(s[k])
  BY DEF Framed, Opens
<1>1. PICK t \in Seq(M) : t = InsertAt(s, k, e)
  BY <1>0, Inserted
<1>2. /\ Len(t) = Len(s) + 1 /\ t[k] = e
      /\ \A j \in 1..k-1 : t[j] = s[j]
      /\ \A j \in k+1..Len(s)+1 : t[j] = s[j-1]
  <2>1. /\ Len(InsertAt(s, k, e)) = Len(s) + 1 /\ InsertAt(s, k, e)[k] = e
        /\ \A j \in 1..k-1 : InsertAt(s, k, e)[j] = s[j]
        /\ \A j \in k+1..Len(s)+1 : InsertAt(s, k, e)[j] = s[j-1]
    BY <1>0, Inserted
  <2> QED BY <1>1, <2>1
<1>3. ToSet(t) = ToSet(s) \cup {e}
  <2>1. ToSet(InsertAt(s, k, e)) = ToSet(s) \cup {e} BY <1>0, Inserted
  <2> QED BY <1>1, <2>1
<1>4. t[k+1] = s[k]
  BY <1>0, <1>2
<1>5. Framed(t, k + 1)
  <2>1. t[1].kind = "system" BY <1>0, <1>2 DEF Framed
  <2>2. ASSUME NEW j \in 2..k PROVE IsNote(t[j])
    <3>1. CASE j = k BY <1>2, <3>1
    <3>2. CASE j # k
      <4>1. j \in 2..k-1 /\ j \in 1..k-1 BY <1>0, <3>2
      <4> QED BY <1>2, <4>1 DEF Framed, Opens
    <3> QED BY <3>1, <3>2
  <2>3. k + 1 \in 2..Len(t) /\ k + 1 - 1 = k BY <1>0, <1>2
  <2> QED BY <1>0, <1>4, <2>1, <2>2, <2>3 DEF Framed, Opens
<1>6. ~ IsBrief(e) /\ ~ IsResult(e) /\ ~ IsCall(e) /\ e \notin Lasting(M)
  BY KindsApart DEF Lasting
<1>7. Chained(t)
  <2>1. ~ IsResult(s[k]) BY <1>0, KindsApart
  <2> QED BY <1>0, <1>1, <1>6, <2>1, InsertedChained
<1>8. Within(t, Lasting(M)) = Within(s, Lasting(M))
  BY <1>0, <1>1, <1>6, InsertedWithin
<1>9. NoteIds(t) = NoteIds(s) \cup {e.id} /\ BriefNotes(t) = BriefNotes(s)
  BY <1>3, <1>6, NoteIdsOf
<1>10. ASSUME Tidy(s, k), NEW j \in 1..Len(t), IsNote(t[j]) PROVE j < k + 1
  <2>1. CASE j <= k
    BY <1>0, <2>1
  <2>2. CASE k < j
    <3>1. t[j] = s[j-1] /\ j - 1 \in 1..Len(s) BY <1>0, <1>2, <2>2
    <3>2. j - 1 < k BY <1>10, <3>1 DEF Tidy
    <3> QED BY <1>0, <2>2, <3>2
  <2> QED BY <1>0, <1>2, <2>1, <2>2
<1>11. Tidy(s, k) => Tidy(t, k + 1)
  BY <1>10 DEF Tidy
<1> QED BY <1>1, <1>4, <1>5, <1>7, <1>8, <1>9, <1>11

\* The oldest note is at 2; it goes once the brief holds it.
LEMMA Folded ==
  ASSUME NEW M, Pool(M), NEW s \in Seq(M), NEW k, Framed(s, k), Chained(s), Tidy(s, k),
         NotesAt(s) # {}
  PROVE  /\ FoldOldest(s) \in Seq(M)
         /\ Framed(FoldOldest(s), k - 1) /\ FoldOldest(s)[k-1] = s[k]
         /\ Chained(FoldOldest(s)) /\ Tidy(FoldOldest(s), k - 1)
         /\ Within(FoldOldest(s), Lasting(M)) = Within(s, Lasting(M))
         /\ NoteIds(s) \cup BriefNotes(s)
              \subseteq NoteIds(FoldOldest(s)) \cup BriefNotes(FoldOldest(s))
<1>0. k \in 2..Len(s) /\ Len(s) \in Nat /\ Opened(s[k]) /\ s[1].kind = "system"
  BY DEF Framed, Opens
<1>1. k > 2 /\ IsNote(s[2]) /\ 2 \in 1..Len(s)
  <2>1. PICK i \in 1..Len(s) : IsNote(s[i])
    BY DEF NotesAt
  <2>2. i < k /\ i # 1 BY <1>0, <2>1, KindsApart DEF Tidy
  <2>3. 2 \in 2..k-1 BY <1>0, <2>2
  <2> QED BY <1>0, <2>3 DEF Framed, Opens
<1>2. SelectInSeq(s, IsNote) = 2
  <2>1. \A j \in 1..2-1 : ~ IsNote(s[j]) BY <1>0, KindsApart
  <2> QED BY <1>1, <2>1, NoteIs
<1>3. PICK notes \in SUBSET Notes : notes = BriefNotes(s) \cup {s[2].id}
  <2>1. s[2].id \in Notes BY <1>1 DEF Pool
  <2>2. BriefNotes(s) \in SUBSET Notes BY SetType DEF BriefNotes, Pool
  <2> QED BY <2>1, <2>2
<1>4. PICK u : u = ApplyBrief(s, notes)
  OBVIOUS
<1>5. /\ u \in Seq(M) /\ \A j \in 1..k : u[j] = s[j]
      /\ Framed(u, k) /\ Chained(u)
      /\ Within(u, Lasting(M)) = Within(s, Lasting(M))
      /\ NoteIds(u) = NoteIds(s) /\ notes \subseteq BriefNotes(u) /\ Tidy(u, k)
  BY <1>4, BriefApplied
<1>6. k \in 2..Len(u) /\ Len(u) \in Nat /\ u[2] = s[2] /\ u[k] = s[k] /\ u[1] = s[1]
      /\ 2 \in 1..Len(u)
  BY <1>0, <1>1, <1>5 DEF Framed, Opens
<1>7. FoldOldest(s) = RemoveAt(u, 2)
  BY <1>2, <1>3, <1>4 DEF FoldOldest
<1>8. PICK t \in Seq(M) : t = RemoveAt(u, 2)
  BY <1>5, <1>6, Removed
<1>9. /\ Len(t) = Len(u) - 1 /\ \A j \in 1..2-1 : t[j] = u[j]
      /\ \A j \in 2..Len(u)-1 : t[j] = u[j+1]
  BY ZenonT(30), <1>5, <1>6, <1>8, Removed
<1>10. ToSet(u) = ToSet(t) \cup {u[2]}
  <2>1. ToSet(u) = ToSet(RemoveAt(u, 2)) \cup {u[2]} BY <1>5, <1>6, Removed
  <2> QED BY <1>8, <2>1
<1>11. t[k-1] = u[k]
  BY <1>0, <1>1, <1>6, <1>9
<1>12. Framed(t, k - 1)
  <2>1. t[1].kind = "system" BY <1>0, <1>6, <1>9
  <2>2. ASSUME NEW j \in 2..(k-1)-1 PROVE IsNote(t[j])
    <3>1. j + 1 \in 2..k-1 /\ j \in 2..Len(u)-1 BY <1>0, <1>6
    <3>2. IsNote(u[j+1]) BY <1>5, <3>1 DEF Framed, Opens
    <3> QED BY <1>9, <3>1, <3>2
  <2>3. k - 1 \in 2..Len(t) BY <1>1, <1>6, <1>9
  <2> QED BY <1>0, <1>6, <1>11, <2>1, <2>2, <2>3 DEF Framed, Opens
<1>13. ~ IsBrief(u[2]) /\ ~ IsResult(u[2]) /\ ~ IsCall(u[2]) /\ u[2] \notin Lasting(M) /\ IsNote(u[2])
  BY <1>1, <1>6, KindsApart DEF Lasting
<1>14. Chained(t)
  BY <1>5, <1>6, <1>8, <1>13, RemovedChained
<1>15. Within(t, Lasting(M)) = Within(u, Lasting(M))
  BY <1>5, <1>6, <1>8, <1>13, RemovedWithin
<1>16. NoteIds(u) = NoteIds(t) \cup {u[2].id} /\ BriefNotes(u) = BriefNotes(t)
  BY <1>10, <1>13, NoteIdsOf
<1>17. NoteIds(s) \cup BriefNotes(s) \subseteq NoteIds(t) \cup BriefNotes(t)
  BY <1>3, <1>5, <1>6, <1>16
<1>18. ASSUME NEW j \in 1..Len(t), IsNote(t[j]) PROVE j < k - 1
  <2>1. CASE j = 1
    BY <1>0, <1>1, <2>1
  <2>2. CASE j # 1
    <3>1. t[j] = u[j+1] /\ j + 1 \in 1..Len(u) BY <1>6, <1>9, <2>2
    <3>2. j + 1 < k BY <1>5, <1>18, <3>1 DEF Tidy
    <3> QED BY <1>0, <3>2
  <2> QED BY <2>1, <2>2
<1>19. Tidy(t, k - 1)
  BY <1>18 DEF Tidy
<1>20. t[k-1] = s[k] /\ Within(t, Lasting(M)) = Within(s, Lasting(M))
  BY <1>5, <1>6, <1>11, <1>15
<1> QED BY <1>7, <1>8, <1>12, <1>14, <1>17, <1>19, <1>20

\* A note applied is in the list or in its brief, with all that were before.
LEMMA NoteApplied ==
  ASSUME NEW M, Pool(M), NEW s \in Seq(M), NEW k, Framed(s, k), Chained(s), Tidy(s, k),
         NEW n \in Notes,
         NEW t, t = ApplyNote(s, n, NoteCap)
  PROVE  /\ t \in Seq(M)
         /\ Framed(t, FirstTask(t)) /\ t[FirstTask(t)] = s[k]
         /\ Chained(t) /\ Tidy(t, FirstTask(t))
         /\ Within(t, Lasting(M)) = Within(s, Lasting(M))
         /\ NoteIds(s) \cup BriefNotes(s) \cup {n} \subseteq NoteIds(t) \cup BriefNotes(t)
<1>1. CASE n \in NoteIds(s)
  <2>1. t = s BY <1>1 DEF ApplyNote
  <2>2. FirstTask(s) = k BY FramedFirst
  <2> QED BY <1>1, <2>1, <2>2
<1>2. CASE n \notin NoteIds(s)
  <2>1. PICK u : u = IF Cardinality(NotesAt(s)) >= NoteCap THEN FoldOldest(s) ELSE s
    OBVIOUS
  <2>2. t = InsertAt(u, NoteSlot(u), Msg("note", n, {}))
    BY <1>2, <2>1 DEF ApplyNote
  <2>3. Cardinality(NotesAt(s)) >= NoteCap => NotesAt(s) # {}
    <3>1. Cardinality({}) = 0 /\ NoteCap \in Nat /\ NoteCap > 0 BY FS_EmptySet, CapAssumption
    <3>2. ~ (0 >= NoteCap) BY <3>1
    <3> QED BY <3>1, <3>2
  <2>4. PICK l : /\ u \in Seq(M) /\ Framed(u, l) /\ u[l] = s[k] /\ Chained(u) /\ Tidy(u, l)
                 /\ Within(u, Lasting(M)) = Within(s, Lasting(M))
                 /\ NoteIds(s) \cup BriefNotes(s) \subseteq NoteIds(u) \cup BriefNotes(u)
    <3>1. CASE Cardinality(NotesAt(s)) >= NoteCap
      <4>1. u = FoldOldest(s) BY <2>1, <3>1
      <4>2. /\ u \in Seq(M) /\ Framed(u, k - 1) /\ u[k-1] = s[k] /\ Chained(u) /\ Tidy(u, k - 1)
            /\ Within(u, Lasting(M)) = Within(s, Lasting(M))
            /\ NoteIds(s) \cup BriefNotes(s) \subseteq NoteIds(u) \cup BriefNotes(u)
        BY <2>3, <3>1, <4>1, Folded
      <4> QED BY <4>2
    <3>2. CASE ~ (Cardinality(NotesAt(s)) >= NoteCap)
      <4>1. u = s BY <2>1, <3>2
      <4> QED BY <4>1
    <3> QED BY <3>1, <3>2
  <2>5. PICK e \in M : e = Msg("note", n, {}) /\ IsNote(e) /\ e.id = n
    BY MsgIs DEF Pool, IsNote
  <2>6. NoteSlot(u) = l
    BY <2>4, FramedSlot
  <2>7. t = InsertAt(u, l, e)
    BY <2>2, <2>5, <2>6
  <2>8. /\ t \in Seq(M) /\ Framed(t, l + 1) /\ t[l+1] = u[l] /\ Chained(t)
        /\ Within(t, Lasting(M)) = Within(u, Lasting(M))
        /\ NoteIds(t) = NoteIds(u) \cup {e.id} /\ BriefNotes(t) = BriefNotes(u)
        /\ Tidy(t, l + 1)
    BY <2>4, <2>5, <2>7, NotePut
  <2>9. FirstTask(t) = l + 1
    BY <2>8, FramedFirst
  <2>10. NoteIds(s) \cup BriefNotes(s) \cup {n} \subseteq NoteIds(t) \cup BriefNotes(t)
    BY <2>4, <2>5, <2>8
  <2> QED BY <2>4, <2>8, <2>9, <2>10
<1> QED BY <1>1, <1>2

\* A front with nothing to select, and a part with all there is to select.
LEMMA WithinSkip ==
  ASSUME NEW S, NEW q \in Seq(S), NEW r \in Seq(S), NEW T
  PROVE  Within(q, T) = <<>> => Within(q \o r, T) = Within(r, T)
<1>1. Within(q \o r, T) = Within(q, T) \o Within(r, T)
  BY WithinCat
<1>2. Within(r, T) \in Seq(S)
  BY WithinType
<1>3. <<>> \o Within(r, T) = Within(r, T)
  BY <1>2, ConcatEmptySeq
<1> QED BY Zenon, <1>1, <1>3

LEMMA WithinPart ==
  ASSUME NEW S, NEW s \in Seq(S), NEW K, NEW T
  PROVE  (\A i \in 1..Len(s) : s[i] \in T => i \in K) => Within(At(s, K), T) = Within(s, T)
<1>1. Within(At(s, K), T) = At(s, {i \in DOMAIN s : i \in K /\ s[i] \in T})
  BY WithinAt
<1>2. ASSUME \A i \in 1..Len(s) : s[i] \in T => i \in K
      PROVE  {i \in DOMAIN s : i \in K /\ s[i] \in T} = {i \in DOMAIN s : s[i] \in T}
  BY <1>2
<1> QED BY Zenon, <1>1, <1>2 DEF Within

\* Whatever the positions taken, the first taken stands first.
LEMMA AtFirst ==
  ASSUME NEW S, NEW s \in Seq(S), NEW K, NEW k \in 1..Len(s), k \in K,
         \A j \in 1..k-1 : j \notin K
  PROVE  1 \in 1..Len(At(s, K)) /\ At(s, K)[1] = s[k]
<1>1. PICK t \in Seq(S) : t = At(s, K)
  BY AtPicks
<1>2. PICK f : Picks(s, K, t, Len(s), f)
  BY <1>1, AtPicks
<1>3. PICK l \in 1..Len(t) : f[l] = k
  BY <1>2 DEF Picks
<1>4. 1 \in 1..Len(t) /\ f[1] \in 1..Len(s) /\ f[1] \in K
  BY <1>2, <1>3 DEF Picks
<1>5. ~ (f[1] < k)
  BY <1>4
<1>6. ~ (1 < l)
  BY <1>2, <1>3, <1>4, <1>5 DEF Picks
<1>7. l = 1
  BY <1>3, <1>6
<1>8. t[1] = s[k]
  BY <1>2, <1>3, <1>4, <1>7 DEF Picks
<1> QED BY <1>1, <1>4, <1>8

LEMMA AtOnly ==
  ASSUME NEW S, NEW s \in Seq(S), 1 \in 1..Len(s)
  PROVE  Len(At(s, {1})) = 1 /\ At(s, {1})[1] = s[1]
<1>1. PICK t \in Seq(S) : t = At(s, {1})
  BY AtPicks
<1>2. PICK f : Picks(s, {1}, t, Len(s), f)
  BY <1>1, AtPicks
<1>3. PICK l \in 1..Len(t) : f[l] = 1
  BY <1>2 DEF Picks
<1>4. \A j \in 1..Len(t) : f[j] = 1 /\ t[j] = s[1]
  BY <1>2 DEF Picks
<1>5. \A j \in 1..Len(t) : ~ (1 < j)
  BY <1>2, <1>3, <1>4 DEF Picks
<1>6. Len(t) = 1
  <2>1. Len(t) \in Nat /\ 1 <= Len(t) BY <1>3
  <2>2. ~ (2 <= Len(t)) BY <1>5, <2>1
  <2> QED BY SMTT(30), <2>1, <2>2
<1> QED BY <1>1, <1>4, <1>6

\* The notes come back before the task; everything else keeps its order.
LEMMA Reanchored ==
  ASSUME NEW M, NEW s \in Seq(M), NEW k, Framed(s, k), Chained(s),
         NEW t, t = ReanchorNotes(s)
  PROVE  /\ t \in Seq(M)
         /\ Framed(t, FirstTask(t)) /\ t[FirstTask(t)] = s[k]
         /\ Chained(t) /\ Tidy(t, FirstTask(t))
         /\ Within(t, Lasting(M)) = Within(s, Lasting(M))
         /\ ToSet(t) = ToSet(s)
<1> DEFINE K2 == NotesAt(s) \ {1}
           K3 == DOMAIN s \ (NotesAt(s) \cup {1})
<1>0. /\ k \in 2..Len(s) /\ Len(s) \in Nat /\ Opened(s[k]) /\ s[1].kind = "system"
      /\ 1 \in 1..Len(s) /\ DOMAIN s = 1..Len(s)
  BY SetType DEF Framed, Opens
<1>1. PICK p \in Seq(M) : p = At(s, {1})
  BY AtPicks
<1>2. PICK n \in Seq(M) : n = At(s, K2)
  BY AtPicks
<1>3. PICK r \in Seq(M) : r = At(s, K3)
  BY AtPicks
<1>4. t = (p \o n) \o r
  BY <1>1, <1>2, <1>3 DEF ReanchorNotes
<1>5. Len(p) = 1 /\ p[1] = s[1] /\ Len(n) \in Nat /\ Len(r) \in Nat
  BY <1>0, <1>1, AtOnly
<1>6. NotesAt(s) = {i \in 1..Len(s) : IsNote(s[i])} /\ ~ IsNote(s[1])
  BY <1>0, KindsApart DEF NotesAt
<1>7. \A j \in 1..Len(n) : IsNote(n[j])
  <2>1. ToSet(n) = {s[i] : i \in {j \in 1..Len(s) : j \in K2}}
    BY <1>2, AtEntries
  <2>2. \A m \in ToSet(n) : IsNote(m)
    BY <1>6, <2>1
  <2>3. ToSet(n) = {n[i] : i \in 1..Len(n)}
    BY SetType
  <2> QED BY <2>2, <2>3
<1>8. \A j \in 1..Len(r) : ~ IsNote(r[j])
  <2>1. ToSet(r) = {s[i] : i \in {j \in 1..Len(s) : j \in K3}}
    BY <1>3, AtEntries
  <2>2. \A m \in ToSet(r) : ~ IsNote(m)
    BY <1>6, <2>1
  <2>3. ToSet(r) = {r[i] : i \in 1..Len(r)}
    BY SetType
  <2> QED BY <2>2, <2>3
<1>9. 1 \in 1..Len(r) /\ r[1] = s[k]
  <2>1. k \in 1..Len(s) /\ k \in K3
    BY <1>0, <1>6, KindsApart
  <2>2. \A j \in 1..k-1 : j = 1 \/ j \in 2..k-1
    BY <1>0
  <2>3. \A j \in 1..k-1 : j \notin K3
    BY <1>0, <1>6, <2>2 DEF Framed, Opens
  <2> HIDE DEF K3
  <2> QED BY <1>3, <2>1, <2>3, AtFirst
<1>10. PICK q \in Seq(M) : q = p \o n
  BY ConcatProperties
<1>11. /\ Len(q) = Len(n) + 1 /\ q[1] = s[1]
       /\ \A j \in 2..Len(n)+1 : IsNote(q[j])
  <2>1. /\ Len(q) = Len(p) + Len(n)
        /\ \A j \in 1..Len(p)+Len(n) : q[j] = IF j <= Len(p) THEN p[j] ELSE n[j - Len(p)]
    BY <1>10, ConcatProperties
  <2>2. Len(q) = Len(n) + 1 /\ q[1] = s[1]
    BY <1>5, <2>1
  <2>3. ASSUME NEW j \in 2..Len(n)+1 PROVE IsNote(q[j])
    <3>1. j \in 1..Len(p)+Len(n) /\ ~ (j <= Len(p)) /\ j - Len(p) \in 1..Len(n)
      BY <1>5
    <3> QED BY <1>7, <2>1, <3>1
  <2> QED BY <2>2, <2>3
<1>12. t = q \o r
  BY <1>4, <1>10
<1>13. t \in Seq(M) /\ Len(t) = Len(n) + 1 + Len(r)
       /\ \A j \in 1..Len(t) : t[j] = IF j <= Len(n) + 1 THEN q[j] ELSE r[j - (Len(n) + 1)]
  <2>1. /\ t \in Seq(M) /\ Len(t) = Len(q) + Len(r)
        /\ \A j \in 1..Len(q)+Len(r) : t[j] = IF j <= Len(q) THEN q[j] ELSE r[j - Len(q)]
    BY <1>12, ConcatProperties
  <2> QED BY <1>5, <1>11, <2>1
<1>14. PICK l \in Nat : l = Len(n) + 2
  BY <1>5
<1>15. t[l] = s[k] /\ l \in 2..Len(t)
  <2>1. l \in 1..Len(t) /\ ~ (l <= Len(n) + 1) /\ l - (Len(n) + 1) = 1 /\ l \in 2..Len(t)
    BY <1>5, <1>9, <1>13, <1>14
  <2> QED BY <1>9, <1>13, <2>1
<1>16. Framed(t, l)
  <2>1. t[1] = s[1]
    BY <1>5, <1>11, <1>13, <1>15
  <2>2. ASSUME NEW j \in 2..l-1 PROVE IsNote(t[j])
    <3>1. j \in 2..Len(n)+1 /\ j \in 1..Len(t) /\ j <= Len(n) + 1 BY <1>5, <1>14, <1>15
    <3> QED BY <1>11, <1>13, <3>1
  <2> QED BY <1>0, <1>15, <2>1, <2>2 DEF Framed, Opens
<1>17. Tidy(t, l)
  <2>1. ASSUME NEW j \in 1..Len(t), IsNote(t[j]) PROVE j < l
    <3> SUFFICES ASSUME ~ (j < l) PROVE FALSE
      OBVIOUS
    <3>1. ~ (j <= Len(n) + 1) /\ j - (Len(n) + 1) \in 1..Len(r)
      BY <1>5, <1>13, <1>14
    <3> QED BY <1>8, <1>13, <2>1, <3>1
  <2> QED BY <2>1 DEF Tidy
<1>18. Chained(t)
  <2>1. Chained(q)
    <3>1. \A j \in 1..Len(q) : ~ IsResult(q[j])
      <4>1. \A j \in 1..Len(q) : j = 1 \/ j \in 2..Len(n)+1 BY <1>5, <1>11
      <4> QED BY <1>0, <1>11, <4>1, KindsApart
    <3> QED BY <3>1 DEF Chained
  <2>2. Chained(r)
    <3>1. ASSUME NEW j \in 1..Len(s), j \in K3, IsResult(s[j]) PROVE j - 1 \in K3
      <4>1. j # 1 /\ (IsCall(s[j-1]) \/ IsResult(s[j-1]))
        BY <3>1 DEF Chained
      <4>2. j - 1 \in 1..Len(s) /\ ~ IsNote(s[j-1]) /\ s[j-1].kind # "system"
        BY <4>1, KindsApart
      <4> QED BY <1>0, <1>6, <4>2
    <3> HIDE DEF K3
    <3> QED BY <1>3, <3>1, ChainedAt
  <2> QED BY <1>12, <2>1, <2>2, ChainedCat
<1>19. Within(t, Lasting(M)) = Within(s, Lasting(M))
  <2>1. Within(q, Lasting(M)) = <<>>
    <3>1. ToSet(q) = {q[i] : i \in 1..Len(q)} BY SetType
    <3>2. \A j \in 1..Len(q) : j = 1 \/ j \in 2..Len(n)+1 BY <1>5, <1>11
    <3>3. \A j \in 1..Len(q) : q[j] \notin Lasting(M) 
      BY <1>0, <1>11, <3>2, KindsApart DEF Lasting
    <3>4. ToSet(q) \cap Lasting(M) = {} BY <3>1, <3>3
    <3> QED BY <3>4, WithinNone
  <2>2. \A i \in 1..Len(s) : s[i] \in Lasting(M) => i \in K3
    BY <1>0, <1>6, KindsApart DEF Lasting
  <2> HIDE DEF K3
  <2>3. Within(At(s, K3), Lasting(M)) = Within(s, Lasting(M))
    BY <2>2, WithinPart
  <2>4. Within(q \o r, Lasting(M)) = Within(r, Lasting(M))
    BY <2>1, WithinSkip
  <2> QED BY Zenon, <1>3, <1>12, <2>3, <2>4
<1>20. ToSet(t) = ToSet(s)
  <2>1. ToSet(t) = ToSet(q) \cup ToSet(r) BY <1>12, CatSet
  <2>2. ToSet(q) = ToSet(p) \cup ToSet(n) BY <1>10, CatSet
  <2>3. /\ ToSet(p) = {s[i] : i \in {j \in 1..Len(s) : j \in {1}}}
        /\ ToSet(n) = {s[i] : i \in {j \in 1..Len(s) : j \in K2}}
        /\ ToSet(r) = {s[i] : i \in {j \in 1..Len(s) : j \in K3}}
    BY <1>1, <1>2, <1>3, AtEntries
  <2>4. ToSet(s) = {s[i] : i \in 1..Len(s)}
    BY SetType
  <2>5. \A i \in 1..Len(s) : i \in {1} \/ i \in K2 \/ i \in K3
    BY <1>0
  <2> HIDE DEF K2, K3
  <2> QED BY <2>1, <2>2, <2>3, <2>4, <2>5
<1>21. FirstTask(t) = l
  BY <1>13, <1>16, FramedFirst
<1> QED BY <1>13, <1>15, <1>16, <1>17, <1>18, <1>19, <1>20, <1>21

-------------------------------------------------------------------------------
(* Calls and their answers, and what a trim leaves of them. *)

\* Every call from number from on has all its answers, but those due of call id.
Complete(R, from, id, due) ==
  \A m \in R : IsCall(m) /\ m.id >= from =>
    Answered(R, m.id) = {{c} : c \in m.has \ (IF m.id = id THEN due ELSE {})}

\* Lists that hold the same lasting entries hold the same rounds.
LEMMA SameRounds ==
  ASSUME NEW M, NEW s \in Seq(M), NEW t \in Seq(M), NEW from, NEW id, NEW due,
         Within(t, Lasting(M)) = Within(s, Lasting(M))
  PROVE  /\ Unique(s) => Unique(t)
         /\ Complete(ToSet(s), from, id, due) => Complete(ToSet(t), from, id, due)
<1>1. \A m \in M : IsCall(m) \/ IsResult(m) => m \in Lasting(M)
  BY KindsApart DEF Lasting
<1>2. Unique(s) <=> Unique(t)
  <2>1. Unique(s) <=> Unique(Within(s, Lasting(M)))
    BY <1>1, UniqueWithin
  <2>2. Unique(t) <=> Unique(Within(t, Lasting(M)))
    BY <1>1, UniqueWithin
  <2> QED BY <2>1, <2>2
<1>3. ToSet(s) \cap Lasting(M) = ToSet(t) \cap Lasting(M)
  <2>1. ToSet(Within(s, Lasting(M))) = ToSet(s) \cap Lasting(M)
    BY WithinSet
  <2>2. ToSet(Within(t, Lasting(M))) = ToSet(t) \cap Lasting(M)
    BY WithinSet
  <2> QED BY <2>1, <2>2
<1>4. \A m \in M : IsCall(m) \/ IsResult(m) => (m \in ToSet(s) <=> m \in ToSet(t))
  BY <1>1, <1>3
<1>5. ToSet(s) \subseteq M /\ ToSet(t) \subseteq M
  BY SetType
<1>6. ASSUME NEW i PROVE Answered(ToSet(s), i) = Answered(ToSet(t), i)
  <2>1. {x \in ToSet(s) : IsResult(x) /\ x.id = i} = {x \in ToSet(t) : IsResult(x) /\ x.id = i}
    BY <1>4, <1>5
  <2> QED BY <2>1 DEF Answered
<1>7. ASSUME Complete(ToSet(s), from, id, due) PROVE Complete(ToSet(t), from, id, due)
  <2> SUFFICES ASSUME NEW m \in ToSet(t), IsCall(m), m.id >= from
               PROVE  Answered(ToSet(t), m.id)
                        = {{c} : c \in m.has \ (IF m.id = id THEN due ELSE {})}
    BY DEF Complete
  <2>1. m \in ToSet(s)
    BY <1>4, <1>5
  <2>2. Answered(ToSet(s), m.id) = {{c} : c \in m.has \ (IF m.id = id THEN due ELSE {})}
    BY <1>7, <2>1 DEF Complete
  <2> QED BY <1>6, <2>2
<1> QED BY <1>2, <1>7

\* What a sweep leaves: system prompt, notes, brief and task, results only
\* behind what they stand behind, and all results of the calls it leaves.
Leaves(s, k, K) ==
  /\ 1 \in K /\ k \in K
  /\ \A i \in 1..Len(s) : IsNote(s[i]) \/ IsBrief(s[i]) => i \in K
  /\ \A j \in 1..Len(s) : j \in K /\ IsResult(s[j]) => j - 1 \in K
  /\ \A i \in 1..Len(s) : \A j \in i+1..Len(s) :
       i \in K /\ IsCall(s[i]) /\ (\A l \in i+1..j : IsResult(s[l])) => j \in K

LEMMA SweptIs ==
  ASSUME NEW s, NEW t \in Swept(s)
  PROVE  \E plain \in Oldest(Plain(s)) : \E rounds \in SUBSET Consumed(s) :
           t = Without(s, plain \cup RoundsAt(s, rounds))
BY SMTT(30) DEF Swept

LEMMA SweepLeaves ==
  ASSUME NEW S, NEW s \in Seq(S), NEW k, Framed(s, k), Chained(s), Unique(s),
         NEW t \in Swept(s)
  PROVE  \E K : Leaves(s, k, K) /\ t = At(s, K)
<1>0. /\ k \in 2..Len(s) /\ Len(s) \in Nat /\ Opened(s[k]) /\ s[1].kind = "system"
      /\ 1 \in 1..Len(s) /\ DOMAIN s = 1..Len(s) /\ FirstTask(s) = k
  BY SetType, FramedFirst DEF Framed, Opens
<1>1. PICK plain \in Oldest(Plain(s)), rounds \in SUBSET Consumed(s) :
        t = Without(s, plain \cup RoundsAt(s, rounds))
  BY SweptIs
<1> DEFINE G == plain \cup RoundsAt(s, rounds)
           K == DOMAIN s \ G
<1>2. t = At(s, K)
  BY <1>1 DEF Without
<1>3. \A i \in rounds : i \in 1..Len(s) /\ IsCall(s[i])
  <2>1. TailStart(s) \in 1..Len(s)+1 BY TailIn
  <2>2. \A i \in 1..TailStart(s)-1 : i \in 1..Len(s) BY <1>0, <2>1
  <2> QED BY <1>1, <2>2 DEF Consumed
<1>4. \A g \in plain : g \notin Kept(s) /\ ~ IsResult(s[g]) /\ ~ IsCall(s[g])
  BY <1>1 DEF Oldest, Plain, IsResult
<1>5. ASSUME NEW g \in RoundsAt(s, rounds) PROVE IsResult(s[g]) \/ IsCall(s[g])
  <2>1. PICK i \in rounds : g \in Round(s, i) BY <1>5 DEF RoundsAt
  <2>2. g = i \/ (g \in i+1..Len(s) /\ \A l \in i+1..g : IsResult(s[l]))
    BY <2>1 DEF Round
  <2>3. CASE g = i BY <1>3, <2>3
  <2>4. CASE g \in i+1..Len(s) /\ \A l \in i+1..g : IsResult(s[l])
    <3>1. i \in Int /\ g \in i+1..g BY <1>3, <2>4
    <3> QED BY <2>4, <3>1
  <2> QED BY <2>2, <2>3, <2>4
<1>6. ASSUME NEW i \in 1..Len(s), i \in Kept(s), ~ IsResult(s[i]), ~ IsCall(s[i]) PROVE i \in K
  <2>1. i \notin plain BY <1>4, <1>6
  <2>2. i \notin RoundsAt(s, rounds) BY <1>5, <1>6
  <2> QED BY <1>0, <2>1, <2>2
<1>7. 1 \in K /\ k \in K
  <2>1. 1 \in Kept(s) /\ k \in Kept(s) BY <1>0 DEF Kept
  <2>2. k \in 1..Len(s) BY <1>0
  <2> HIDE DEF K
  <2> QED BY <1>0, <1>6, <2>1, <2>2, KindsApart
<1>8. ASSUME NEW i \in 1..Len(s), IsNote(s[i]) \/ IsBrief(s[i]) PROVE i \in K
  <2>1. i \in Kept(s) BY <1>0, <1>8 DEF Kept
  <2> HIDE DEF K
  <2> QED BY <1>6, <1>8, <2>1, KindsApart
<1>9. ASSUME NEW j \in 1..Len(s), j \in K, IsResult(s[j]) PROVE j - 1 \in K
  <2>1. j # 1 /\ (IsCall(s[j-1]) \/ IsResult(s[j-1])) /\ j - 1 \in 1..Len(s)
    BY <1>9 DEF Chained
  <2>2. SUFFICES ASSUME j - 1 \in G PROVE FALSE
    BY <1>0, <2>1
  <2>3. j - 1 \notin plain BY <1>4, <2>1
  <2>4. PICK i \in rounds : j - 1 \in Round(s, i) BY <2>2, <2>3 DEF RoundsAt
  <2>5. i \in 1..Len(s) BY <1>3
  <2>6. j \in i+1..Len(s) /\ \A l \in i+1..j : IsResult(s[l])
    <3>1. CASE j - 1 = i
      <4>1. j \in i+1..Len(s) /\ \A l \in i+1..j : l = j BY <2>5, <3>1
      <4> QED BY <1>9, <4>1
    <3>2. CASE j - 1 \in i+1..Len(s) /\ \A l \in i+1..j-1 : IsResult(s[l])
      <4>1. j \in i+1..Len(s) /\ \A l \in i+1..j : l = j \/ l \in i+1..j-1 BY <2>5, <3>2
      <4> QED BY <1>9, <3>2, <4>1
    <3> QED BY <2>4, <3>1, <3>2 DEF Round
  <2>7. j \in Round(s, i) BY <2>6 DEF Round
  <2> QED BY <1>9, <2>4, <2>7 DEF RoundsAt
<1>10. ASSUME NEW i \in 1..Len(s), NEW j \in i+1..Len(s), i \in K, IsCall(s[i]),
              \A l \in i+1..j : IsResult(s[l])
       PROVE  j \in K
  <2>1. j \in 1..Len(s) /\ j \in i+1..j BY <1>0
  <2>2. IsResult(s[j]) BY <1>10, <2>1
  <2>3. SUFFICES ASSUME j \in G PROVE FALSE
    BY <1>0, <2>1
  <2>4. PICK h \in rounds : j \in Round(s, h) BY <1>4, <2>2, <2>3 DEF RoundsAt
  <2>5. h \in 1..Len(s) /\ IsCall(s[h]) /\ j # h BY <1>3, <2>2, NotBoth
  <2>6. j \in h+1..Len(s) /\ \A l \in h+1..j : IsResult(s[l]) BY <2>4, <2>5 DEF Round
  <2>7. s[j].id = s[h].id BY <2>5, <2>6, RoundSame
  <2>8. s[j].id = s[i].id BY <1>10, RoundSame
  <2>9. h = i BY <1>10, <2>5, <2>7, <2>8 DEF Unique
  <2>10. i \in Round(s, i) BY DEF Round
  <2> QED BY <1>10, <2>4, <2>9, <2>10 DEF RoundsAt
<1> HIDE DEF K
<1>11. Leaves(s, k, K)
  BY <1>7, <1>8, <1>9, <1>10 DEF Leaves
<1> QED BY <1>2, <1>11

LEMMA AtFront ==
  ASSUME NEW S, NEW s \in Seq(S), NEW K, NEW k \in Nat, k <= Len(s), \A i \in 1..k : i \in K
  PROVE  \A f : Picks(s, K, At(s, K), Len(s), f) =>
           \A i \in 1..k : i \in 1..Len(At(s, K)) /\ f[i] = i /\ At(s, K)[i] = s[i]
<1>1. PICK t \in Seq(S) : t = At(s, K)
  BY AtPicks
<1>2. SUFFICES ASSUME NEW f, Picks(s, K, t, Len(s), f), NEW i \in 1..k
               PROVE  i \in 1..Len(t) /\ f[i] = i /\ t[i] = s[i]
  BY <1>1
<1>3. i \in 1..Len(t) /\ f[i] = i
  BY <1>2, PicksFront
<1> QED BY <1>2, <1>3 DEF Picks

LEMMA SweepKeeps ==
  ASSUME NEW M, NEW s \in Seq(M), NEW k, Framed(s, k), Chained(s), Unique(s),
         NEW K, Leaves(s, k, K), NEW t, t = At(s, K),
         NEW from, NEW id, NEW due
  PROVE  /\ t \in Seq(M) /\ \A j \in 1..k : t[j] = s[j]
         /\ Framed(t, k) /\ Chained(t) /\ Unique(t)
         /\ NoteIds(t) = NoteIds(s) /\ BriefNotes(t) = BriefNotes(s)
         /\ Tidy(s, k) => Tidy(t, k)
         /\ Complete(ToSet(s), from, id, due) => Complete(ToSet(t), from, id, due)
<1>0. /\ k \in 2..Len(s) /\ Len(s) \in Nat /\ k \in Nat /\ k <= Len(s) /\ k \in 1..k
      /\ t \in Seq(M) /\ ToSet(s) = {s[i] : i \in 1..Len(s)}
      /\ ToSet(t) = {s[i] : i \in {j \in 1..Len(s) : j \in K}}
  BY SMTT(30), AtPicks, AtEntries, SetType DEF Framed, Opens
<1>1. PICK f : Picks(s, K, t, Len(s), f)
  BY AtPicks
<1>2. ASSUME NEW i \in 1..k PROVE i \in K
  <2>1. i = 1 \/ i = k \/ i \in 2..k-1 BY <1>0
  <2>2. CASE i \in 2..k-1
    <3>1. IsNote(s[i]) /\ i \in 1..Len(s) BY <1>0, <2>2 DEF Framed, Opens
    <3> QED BY <3>1 DEF Leaves
  <2> QED BY <2>1, <2>2 DEF Leaves
<1>3. \A i \in 1..k : i \in 1..Len(t) /\ f[i] = i /\ t[i] = s[i]
  BY SMTT(30), <1>0, <1>1, <1>2, AtFront
<1>4. \A j \in 1..k : t[j] = s[j]
  BY <1>3
<1>5. k \in 1..Len(t) /\ f[k] = k /\ Len(t) \in Nat
  BY <1>0, <1>3
<1>6. Framed(t, k)
  BY <1>0, <1>4, <1>5, SameFrame
<1>7. Chained(t)
  BY ChainedAt DEF Leaves
<1>8. Unique(t)
  BY UniqueAt
<1>9. /\ {x \in ToSet(t) : IsNote(x)} = {x \in ToSet(s) : IsNote(x)}
      /\ {x \in ToSet(t) : IsBrief(x)} = {x \in ToSet(s) : IsBrief(x)}
  <2>1. \A i \in 1..Len(s) : IsNote(s[i]) \/ IsBrief(s[i]) => s[i] \in ToSet(t)
    BY <1>0 DEF Leaves
  <2>2. ToSet(t) \subseteq ToSet(s) BY <1>0
  <2> QED BY <1>0, <2>1, <2>2
<1>10. NoteIds(t) = NoteIds(s) /\ BriefNotes(t) = BriefNotes(s)
  BY <1>9 DEF NoteIds, BriefNotes
<1>11. ASSUME Tidy(s, k), NEW j \in 1..Len(t), IsNote(t[j]) PROVE j < k
  <2>1. f[j] \in 1..Len(s) /\ t[j] = s[f[j]] BY <1>1 DEF Picks
  <2>2. f[j] < k BY <1>11, <2>1 DEF Tidy
  <2>3. ~ (k < j) BY <1>1, <1>5, <2>1, <2>2 DEF Picks
  <2>4. j # k BY <1>5, <2>2
  <2> QED BY <1>0, <2>3, <2>4
<1>12. Tidy(s, k) => Tidy(t, k)
  BY <1>11 DEF Tidy
<1>13. ASSUME NEW m \in ToSet(t), IsCall(m)
       PROVE  m \in ToSet(s) /\ Answered(ToSet(t), m.id) = Answered(ToSet(s), m.id)
  <2>1. PICK i \in 1..Len(s) : i \in K /\ m = s[i] BY <1>0, <1>13
  <2>2. ASSUME NEW x \in ToSet(s), IsResult(x), x.id = m.id PROVE x \in ToSet(t)
    <3>1. PICK j \in 1..Len(s) : x = s[j] BY <1>0
    <3>2. PICK h \in 1..j-1 : /\ IsCall(s[h]) /\ s[h].id = s[j].id
                              /\ \A l \in h+1..j : IsResult(s[l])
      BY <2>2, <3>1, CallOf
    <3>3. h \in 1..Len(s) /\ j \in h+1..Len(s) BY <1>0, <3>2
    <3>4. h = i BY <1>13, <2>1, <2>2, <3>1, <3>2, <3>3 DEF Unique
    <3>5. j \in K BY <2>1, <3>2, <3>3, <3>4 DEF Leaves
    <3> QED BY <1>0, <3>1, <3>5
  <2>3. ToSet(t) \subseteq ToSet(s) BY <1>0
  <2>4. {x \in ToSet(t) : IsResult(x) /\ x.id = m.id} = {x \in ToSet(s) : IsResult(x) /\ x.id = m.id}
    BY <2>2, <2>3
  <2>5. Answered(ToSet(t), m.id) = Answered(ToSet(s), m.id)
    BY <2>4 DEF Answered
  <2> QED BY <1>13, <2>3, <2>5
<1>14. Complete(ToSet(s), from, id, due) => Complete(ToSet(t), from, id, due)
  BY <1>13 DEF Complete
<1> QED BY <1>0, <1>4, <1>6, <1>7, <1>8, <1>10, <1>12, <1>14

\* A trim keeps the frame, the rounds and the notes of a list.
LEMMA Trimmed ==
  ASSUME NEW M, Pool(M), NEW s \in Seq(M), NEW k, Framed(s, k), Chained(s), Unique(s),
         NEW t \in Trims(s), NEW from, NEW id, NEW due
  PROVE  /\ t \in Seq(M) /\ Framed(t, k) /\ t[k] = s[k]
         /\ Chained(t) /\ Unique(t)
         /\ NoteIds(s) \cup BriefNotes(s) \subseteq NoteIds(t) \cup BriefNotes(t)
         /\ Tidy(s, k) => Tidy(t, k)
         /\ Complete(ToSet(s), from, id, due) => Complete(ToSet(t), from, id, due)
<1>0. k \in 1..k
  BY DEF Framed, Opens
<1>1. PICK u \in Swept(s) : t = u \/ t = ApplyBrief(u, BriefNotes(s))
  BY DEF Trims
<1>2. PICK K : Leaves(s, k, K) /\ u = At(s, K)
  BY SweepLeaves
<1>3. /\ u \in Seq(M) /\ \A j \in 1..k : u[j] = s[j]
      /\ Framed(u, k) /\ Chained(u) /\ Unique(u)
      /\ NoteIds(u) = NoteIds(s) /\ BriefNotes(u) = BriefNotes(s)
      /\ Tidy(s, k) => Tidy(u, k)
      /\ Complete(ToSet(s), from, id, due) => Complete(ToSet(u), from, id, due)
  BY <1>2, SweepKeeps
<1>4. CASE t = u
  BY <1>0, <1>3, <1>4
<1>5. CASE t = ApplyBrief(u, BriefNotes(s))
  <2>1. PICK notes \in SUBSET Notes : notes = BriefNotes(s)
    <3>1. BriefNotes(s) \in SUBSET Notes BY SetType DEF BriefNotes, Pool
    <3> QED BY <3>1
  <2>2. t = ApplyBrief(u, notes)
    BY <1>5, <2>1
  <2>3. /\ t \in Seq(M) /\ \A j \in 1..k : t[j] = u[j]
        /\ Framed(t, k) /\ Chained(t)
        /\ Within(t, Lasting(M)) = Within(u, Lasting(M))
        /\ NoteIds(t) = NoteIds(u) /\ notes \subseteq BriefNotes(t)
        /\ Tidy(u, k) => Tidy(t, k)
    BY <1>3, <2>2, BriefApplied
  <2>4. /\ Unique(u) => Unique(t)
        /\ Complete(ToSet(u), from, id, due) => Complete(ToSet(t), from, id, due)
    BY <1>3, <2>3, SameRounds
  <2>5. t[k] = s[k]
    BY <1>0, <1>3, <2>3
  <2>6. NoteIds(s) \cup BriefNotes(s) \subseteq NoteIds(t) \cup BriefNotes(t)
    BY <1>3, <2>1, <2>3
  <2> QED BY <1>3, <2>3, <2>4, <2>5, <2>6
<1> QED BY <1>1, <1>4, <1>5

-------------------------------------------------------------------------------
(* From the request to the store, and back. *)

\* The first entry off.
LEMMA FirstOff ==
  ASSUME NEW S, NEW s \in Seq(S), 1 \in 1..Len(s)
  PROVE  \E v \in Seq(S) : /\ s = <<s[1]>> \o v /\ Len(v) = Len(s) - 1
                           /\ \A j \in 1..Len(v) : v[j] = s[j+1]
<1>1. PICK u \in Seq(S) : u = Before(s, 1)
  BY CutOut
<1>2. PICK v \in Seq(S) : v = Behind(s, 1 + 1)
  BY CutOut
<1>3. Len(u) = 1 - 1 /\ Len(v) = Len(s) - 1 /\ s[1] \in S /\ Len(s) \in Nat
  <2>1. Len(Before(s, 1)) = 1 - 1 /\ Len(Behind(s, 1 + 1)) = Len(s) - 1 /\ s[1] \in S
    BY CutOut
  <2> QED BY <1>1, <1>2, <2>1
<1>4. s = (u \o <<s[1]>>) \o v
  <2>1. s = (Before(s, 1) \o <<s[1]>>) \o Behind(s, 1 + 1) BY CutOut
  <2> QED BY Zenon, <1>1, <1>2, <2>1
<1>5. PICK e \in Seq(S) : e = <<s[1]>> /\ Len(e) = 1
  BY <1>3, OneSet
<1>6. u \o e = e
  <2>1. u = <<>> BY <1>3, EmptySeq
  <2> QED BY <2>1, ConcatEmptySeq
<1>7. s = e \o v
  BY Zenon, <1>4, <1>5, <1>6
<1>8. \A j \in 1..Len(v) : v[j] = s[j+1]
  <2>1. \A j \in 1..Len(e)+Len(v) : s[j] = IF j <= Len(e) THEN e[j] ELSE v[j - Len(e)]
    BY <1>7, ConcatProperties
  <2>2. ASSUME NEW j \in 1..Len(v) PROVE v[j] = s[j+1]
    <3>1. j + 1 \in 1..Len(e)+Len(v) /\ ~ (j + 1 <= Len(e)) /\ j + 1 - Len(e) = j
      BY <1>3, <1>5
    <3> QED BY <2>1, <3>1
  <2> QED BY <2>2
<1> QED BY <1>3, <1>5, <1>7, <1>8

LEMMA Reconciled ==
  ASSUME NEW M, NEW s \in Seq(M), NEW k, Framed(s, k), Chained(s),
         NEW t, t = Reconcile(s)
  PROVE  /\ t \in Seq(M) /\ Opens(t, 1, k - 1) /\ t[k-1] = s[k]
         /\ Chained(t)
         /\ Unique(s) => Unique(t)
         /\ \A m \in ToSet(t) : Storable(m)
         /\ Within(t, Lasting(M)) = Within(s, Lasting(M))
         /\ NoteIds(t) = NoteIds(s) /\ BriefNotes(t) = BriefNotes(s)
<1> DEFINE St == {m \in M : Storable(m)}
           K  == {i \in DOMAIN s : Storable(s[i])}
<1>0. /\ k \in 2..Len(s) /\ Len(s) \in Nat /\ Opened(s[k]) /\ s[1].kind = "system"
      /\ 1 \in 1..Len(s) /\ DOMAIN s = 1..Len(s)
  BY SetType DEF Framed, Opens
<1>1. t = At(s, K) /\ t \in Seq(M)
  BY AtPicks DEF Reconcile
<1>2. t = Within(s, St)
  <2>1. K = {i \in DOMAIN s : s[i] \in St}
    BY <1>0
  <2> QED BY Zenon, <1>1, <2>1 DEF Within
<1>3. PICK v \in Seq(M) : /\ s = <<s[1]>> \o v /\ Len(v) = Len(s) - 1
                          /\ \A j \in 1..Len(v) : v[j] = s[j+1]
  BY <1>0, FirstOff
<1>4. PICK p \in Seq(M) : p = <<s[1]>>
  <2>1. s[1] \in M BY <1>0
  <2> QED BY <2>1, OneSet
<1>5. Within(s, St) = Within(v, St)
  <2>1. Within(p, St) = <<>>
    <3>1. s[1] \in M /\ s[1] \notin St BY <1>0, KindsApart
    <3> QED BY <1>4, <3>1, WithinOne
  <2> HIDE DEF St
  <2>2. Within(p \o v, St) = Within(v, St)
    BY <2>1, WithinSkip
  <2> QED BY Zenon, <1>3, <1>4, <2>2
<1> DEFINE J == {i \in DOMAIN v : v[i] \in St}
<1>6. \A i \in 1..k-1 : i \in J
  <2>1. ASSUME NEW i \in 1..k-1 PROVE v[i] \in St /\ i \in DOMAIN v
    <3>1. i \in 1..Len(v) /\ i + 1 \in 1..Len(s) /\ v[i] \in M BY <1>0, <1>3
    <3>2. v[i] = s[i+1] BY <1>3, <3>1
    <3>3. i + 1 = k \/ i + 1 \in 2..k-1 BY <1>0
    <3>4. Storable(s[i+1]) BY <1>0, <3>3, KindsApart DEF Framed, Opens
    <3> QED BY <3>1, <3>4, <3>2
  <2> QED BY <2>1
<1>7. t = At(v, J)
  BY Zenon, <1>2, <1>5 DEF Within
<1> HIDE DEF J, St
<1>8. PICK f : Picks(v, J, At(v, J), Len(v), f)
  BY AtPicks
<1>9. \A i \in 1..k-1 : i \in 1..Len(At(v, J)) /\ At(v, J)[i] = v[i]
  <2>1. k - 1 \in Nat /\ k - 1 <= Len(v) BY <1>0, <1>3
  <2> HIDE DEF K
  <2> QED BY <1>6, <1>8, <2>1, AtFront
<1>10. \A i \in 1..k-1 : i \in 1..Len(t) /\ t[i] = s[i+1]
  <2>1. ASSUME NEW i \in 1..k-1 PROVE i \in 1..Len(t) /\ t[i] = s[i+1]
    <3>1. i \in 1..Len(v) BY <1>0, <1>3
    <3> QED BY <1>3, <1>7, <1>9, <3>1
  <2> QED BY <2>1
<1>11. t[k-1] = s[k] /\ k - 1 \in 1..Len(t)
  <2>1. k - 1 \in 1..k-1 /\ k - 1 + 1 = k BY <1>0
  <2> QED BY <1>10, <2>1
<1>12. Opens(t, 1, k - 1)
  <2>1. ASSUME NEW j \in 1..(k-1)-1 PROVE IsNote(t[j])
    <3>1. j \in 1..k-1 /\ j + 1 \in 2..k-1 BY <1>0
    <3> QED BY <1>10, <3>1 DEF Framed, Opens
  <2> QED BY <1>0, <1>11, <2>1 DEF Opens
<1>13. Chained(t)
  <2>1. ASSUME NEW j \in 1..Len(s), j \in K, IsResult(s[j]) PROVE j - 1 \in K
    <3>1. j # 1 /\ (IsCall(s[j-1]) \/ IsResult(s[j-1])) BY <2>1 DEF Chained
    <3> QED BY <1>0, <3>1, KindsApart
  <2> HIDE DEF K
  <2> QED BY <1>1, <2>1, ChainedAt
<1>14. Unique(s) => Unique(t)
  BY <1>1, UniqueAt
<1>15. ToSet(t) = ToSet(s) \cap St
  BY <1>2, WithinSet
<1>16. Within(t, Lasting(M)) = Within(s, Lasting(M))
  <2>1. \A i \in 1..Len(s) : s[i] \in Lasting(M) => i \in K
    BY <1>0 DEF Lasting
  <2> HIDE DEF K
  <2> QED BY <1>1, <2>1, WithinPart
<1>17. /\ {x \in ToSet(t) : IsNote(x)} = {x \in ToSet(s) : IsNote(x)}
       /\ {x \in ToSet(t) : IsBrief(x)} = {x \in ToSet(s) : IsBrief(x)}
  BY <1>15, SetType, KindsApart DEF St
<1>18. NoteIds(t) = NoteIds(s) /\ BriefNotes(t) = BriefNotes(s)
  BY <1>17 DEF NoteIds, BriefNotes
<1>19. \A m \in ToSet(t) : Storable(m)
  BY <1>15 DEF St
<1> QED BY <1>1, <1>11, <1>12, <1>13, <1>14, <1>16, <1>18, <1>19

\* A request built from a store begins with the system prompt; the memory's block
\* stands behind a user message, or at the end, never inside a round.
LEMMA BuiltIs ==
  ASSUME NEW M, Pool(M), NEW s \in Seq(M), NEW k, Opens(s, 1, k), Chained(s),
         NEW task, NEW memory \in BOOLEAN, NEW t, t = Built(s, task, memory)
  PROVE  /\ t \in Seq(M) /\ Framed(t, k + 1) /\ t[k+1] = s[k]
         /\ Chained(t)
         /\ Within(t, Lasting(M)) = Within(s, Lasting(M))
         /\ NoteIds(t) = NoteIds(s) /\ BriefNotes(t) = BriefNotes(s)
<1>0. k \in 1..Len(s) /\ Len(s) \in Nat /\ Opened(s[k])
  BY DEF Opens
<1>1. PICK e \in M : e = Msg("system", 0, {}) /\ e.kind = "system"
  BY MsgIs DEF Pool
<1>2. PICK p \in Seq(M) : p = <<e>> /\ Len(p) = 1 /\ p[1] = e /\ ToSet(p) = {e}
  BY OneSet
<1>3. PICK u \in Seq(M) : u = p \o s
  BY ConcatProperties
<1>4. /\ Len(u) = Len(s) + 1 /\ u[1] = e
      /\ \A j \in 1..Len(s) : u[j+1] = s[j]
  <2>1. /\ Len(u) = Len(p) + Len(s)
        /\ \A j \in 1..Len(p)+Len(s) : u[j] = IF j <= Len(p) THEN p[j] ELSE s[j - Len(p)]
    BY <1>3, ConcatProperties
  <2>2. ASSUME NEW j \in 1..Len(s) PROVE u[j+1] = s[j]
    <3>1. j + 1 \in 1..Len(p)+Len(s) /\ ~ (j + 1 <= Len(p)) /\ j + 1 - Len(p) = j
      BY <1>0, <1>2
    <3> QED BY <2>1, <3>1
  <2>3. Len(u) = Len(s) + 1 /\ u[1] = e
    BY <1>0, <1>2, <2>1
  <2> QED BY <2>2, <2>3
<1>5. u[k+1] = s[k] /\ k + 1 \in 2..Len(u)
  BY <1>0, <1>4
<1>6. Framed(u, k + 1)
  <2>1. ASSUME NEW j \in 2..(k+1)-1 PROVE IsNote(u[j])
    <3>1. j - 1 \in 1..k-1 /\ j - 1 \in 1..Len(s) /\ (j - 1) + 1 = j BY <1>0
    <3> QED BY <1>4, <3>1 DEF Opens
  <2> QED BY <1>0, <1>1, <1>4, <1>5, <2>1 DEF Framed, Opens
<1>7. ~ IsResult(e) /\ ~ IsNote(e) /\ ~ IsBrief(e) /\ e \notin Lasting(M)
  BY <1>1, KindsApart DEF Lasting
<1>8. Chained(u)
  BY <1>2, <1>3, <1>7, ChainedOne, ChainedCat
<1>9. Within(u, Lasting(M)) = Within(s, Lasting(M))
  <2>1. Within(p, Lasting(M)) = <<>> BY <1>2, <1>7, WithinOne
  <2> QED BY <1>3, <2>1, WithinSkip
<1>10. NoteIds(u) = NoteIds(s) /\ BriefNotes(u) = BriefNotes(s)
  <2>1. ToSet(u) = ToSet(p) \cup ToSet(s) BY <1>3, CatSet
  <2>2. ToSet(u) = ToSet(s) \cup {e} BY <1>2, <2>1
  <2> QED BY <1>7, <2>2, NoteIdsOf
<1> DEFINE at == SelectLastInSeq(u, LAMBDA m : m.kind = "user" /\ m.id = task)
           B  == {i \in 1..Len(u) : u[i].kind = "user" /\ u[i].id = task}
           i  == IF at = 0 THEN Len(u) + 1 ELSE at + 1
<1>11. at = 0 \/ (at \in 1..Len(u) /\ u[at].kind = "user")
  <2>1. at = IF B # {} THEN Max(B) ELSE 0
    BY DEF SelectLastInSeq
  <2>2. B # {} => Max(B) \in B
    <3>1. B \in SUBSET (1..Len(u)) /\ Len(u) \in Nat OBVIOUS
    <3> HIDE DEF B
    <3> QED BY <3>1, MaxIs
  <2>3. \A x \in B : x \in 1..Len(u) /\ u[x].kind = "user"
    OBVIOUS
  <2> HIDE DEF B, at
  <2> QED BY <2>1, <2>2, <2>3
<1>12. t = IF ~ memory THEN u ELSE InsertAt(u, i, Msg("memory", 0, {}))
  BY <1>1, <1>2, <1>3 DEF Built
<1> HIDE DEF at, B
<1>13. i \in 1..Len(u)+1 /\ k + 1 < i
  <2>1. CASE at = 0
    BY <1>0, <1>4, <2>1
  <2>2. CASE at \in 1..Len(u) /\ u[at].kind = "user"
    <3>1. ~ IsNote(u[at]) /\ at # 1 BY <1>1, <1>4, <2>2 DEF IsNote
    <3>2. ~ (at \in 2..(k+1)-1) BY <1>6, <3>1 DEF Framed, Opens
    <3>3. at \in 1..Len(u) /\ k + 1 <= at BY <1>0, <1>4, <2>2, <3>1, <3>2
    <3> QED BY <1>0, <1>4, <3>3
  <2> QED BY <1>11, <2>1, <2>2
<1>14. i = Len(u) + 1 \/ ~ IsResult(u[i])
  <2>1. CASE at = 0
    BY <2>1
  <2>2. CASE at \in 1..Len(u) /\ u[at].kind = "user"
    <3> SUFFICES ASSUME i # Len(u) + 1, IsResult(u[i]) PROVE FALSE
      OBVIOUS
    <3>1. i = at + 1 /\ i \in 1..Len(u) /\ i - 1 = at BY <1>13, <2>2
    <3> HIDE DEF i
    <3>2. IsCall(u[at]) \/ IsResult(u[at]) BY <1>8, <3>1 DEF Chained
    <3> QED BY <2>2, <3>2 DEF IsCall, IsResult
  <2> QED BY <1>11, <2>1, <2>2
<1> HIDE DEF i
<1>15. CASE ~ memory
  <2>1. t = u BY <1>12, <1>15
  <2> QED BY <1>5, <1>6, <1>8, <1>9, <1>10, <2>1
<1>16. CASE memory
  <2>1. PICK m \in M : m = Msg("memory", 0, {}) /\ m.kind = "memory"
    BY MsgIs DEF Pool
  <2>2. ~ IsResult(m) /\ ~ IsNote(m) /\ ~ IsBrief(m) /\ m \notin Lasting(M)
    BY <2>1 DEF IsResult, IsNote, IsBrief, Lasting, Storable
  <2>3. t = InsertAt(u, i, m)
    BY <1>12, <1>16, <2>1
  <2>4. t \in Seq(M) /\ Len(t) = Len(u) + 1 /\ \A j \in 1..i-1 : t[j] = u[j]
    BY <1>13, <2>3, Inserted
  <2>5. ToSet(t) = ToSet(u) \cup {m}
    <3>1. ToSet(InsertAt(u, i, m)) = ToSet(u) \cup {m} BY <1>13, Inserted
    <3> QED BY <2>3, <3>1
  <2>6. \A j \in 1..k+1 : t[j] = u[j]
    BY <1>0, <1>13, <2>4
  <2>7. Framed(t, k + 1) /\ t[k+1] = s[k]
    <3>1. k + 1 <= Len(t) /\ Len(t) \in Nat /\ Len(u) \in Nat BY <1>5, <2>4
    <3>2. Framed(t, k + 1) BY <1>6, <2>6, <3>1, SameFrame
    <3>3. k + 1 \in 1..k+1 BY <1>0
    <3> QED BY <1>5, <2>6, <3>2, <3>3
  <2>8. Chained(t)
    BY <1>8, <1>13, <1>14, <2>2, <2>3, InsertedChained
  <2>9. Within(t, Lasting(M)) = Within(u, Lasting(M))
    BY <1>13, <2>2, <2>3, InsertedWithin
  <2>10. NoteIds(t) = NoteIds(u) /\ BriefNotes(t) = BriefNotes(u)
    BY <2>2, <2>5, NoteIdsOf
  <2> QED BY <1>9, <1>10, <2>4, <2>7, <2>8, <2>9, <2>10
<1> QED BY <1>15, <1>16

-------------------------------------------------------------------------------
(* What comes behind a list. *)

LEMMA Extended ==
  ASSUME NEW S, NEW s \in Seq(S), NEW v \in Seq(S), NEW k
  PROVE  /\ s \o v \in Seq(S) /\ ToSet(s \o v) = ToSet(s) \cup ToSet(v)
         /\ Opens(s, 1, k) => Opens(s \o v, 1, k) /\ (s \o v)[k] = s[k]
         /\ Framed(s, k) => Framed(s \o v, k) /\ (s \o v)[k] = s[k]
<1>1. PICK t \in Seq(S) : t = s \o v
  BY ConcatProperties
<1>2. /\ Len(t) = Len(s) + Len(v) /\ Len(s) \in Nat /\ Len(v) \in Nat
      /\ \A j \in 1..Len(s) : t[j] = s[j]
  <2>1. /\ Len(t) = Len(s) + Len(v) /\ Len(s) \in Nat /\ Len(v) \in Nat
        /\ \A j \in 1..Len(s)+Len(v) : t[j] = IF j <= Len(s) THEN s[j] ELSE v[j - Len(s)]
    BY <1>1, ConcatProperties
  <2> QED BY <2>1
<1>3. ToSet(s \o v) = ToSet(s) \cup ToSet(v)
  BY CatSet
<1>4. ASSUME NEW b \in {1, 2}, Opens(s, b, k) PROVE Opens(t, b, k) /\ t[k] = s[k]
  <2>1. k \in b..Len(s) /\ k \in 1..Len(s) /\ Opened(s[k]) /\ \A j \in b..k-1 : IsNote(s[j])
    BY <1>4 DEF Opens
  <2>2. k \in b..Len(t) /\ t[k] = s[k] /\ \A j \in b..k-1 : j \in 1..Len(s)
    BY <1>2, <2>1
  <2> QED BY <1>2, <2>1, <2>2 DEF Opens
<1>5. ASSUME Framed(s, k) PROVE Framed(t, k) /\ t[k] = s[k]
  <2>1. Opens(s, 2, k) /\ s[1].kind = "system" /\ 1 \in 1..Len(s)
    BY <1>5 DEF Framed, Opens
  <2>2. Opens(t, 2, k) /\ t[k] = s[k]
    BY <1>4, <2>1
  <2>3. t[1] = s[1]
    BY <1>2, <2>1
  <2> QED BY <2>1, <2>2, <2>3 DEF Framed
<1>6. Opens(s, 1, k) => Opens(t, 1, k) /\ t[k] = s[k]
  BY <1>4
<1> QED BY <1>1, <1>3, <1>5, <1>6

LEMMA BodyIs ==
  ASSUME NEW M, NEW s \in Seq(M) PROVE Body(s) = Within(s, Lasting(M))
<1>1. {i \in DOMAIN s : Storable(s[i]) /\ ~IsNote(s[i]) /\ ~IsBrief(s[i])}
        = {i \in DOMAIN s : s[i] \in Lasting(M)}
  BY SetType DEF Lasting
<1> QED BY Zenon, <1>1 DEF Body, Within

\* Both lists get the same entries.
LEMMA BodyCat ==
  ASSUME NEW M, NEW s \in Seq(M), NEW t \in Seq(M), NEW v \in Seq(M), Body(s) = Body(t)
  PROVE  Body(s \o v) = Body(t \o v)
<1>1. PICK L : L = Lasting(M)
  OBVIOUS
<1>2. PICK a : a = s \o v
  OBVIOUS
<1>3. PICK b : b = t \o v
  OBVIOUS
<1>4. a \in Seq(M) /\ b \in Seq(M)
  BY <1>2, <1>3, ConcatProperties
<1>5. Within(s, L) = Within(t, L)
  BY <1>1, BodyIs
<1>6. Within(s \o v, L) = Within(s, L) \o Within(v, L)
  BY WithinCat
<1>7. Within(t \o v, L) = Within(t, L) \o Within(v, L)
  BY WithinCat
<1>8. Body(a) = Within(a, L) /\ Body(b) = Within(b, L)
  BY <1>1, <1>4, BodyIs
<1> QED BY Zenon, <1>2, <1>3, <1>5, <1>6, <1>7, <1>8

\* Entries that no list keeps in its body.
LEMMA BodySkip ==
  ASSUME NEW M, NEW s \in Seq(M), NEW v \in Seq(M),
         \A m \in ToSet(v) : m \notin Lasting(M)
  PROVE  Body(s \o v) = Body(s)
<1>1. PICK L : L = Lasting(M)
  OBVIOUS
<1>2. PICK a : a = s \o v
  OBVIOUS
<1>3. Within(s \o v, L) = Within(s, L) \o Within(v, L)
  BY WithinCat
<1>4. Within(v, L) = <<>>
  <2>1. ToSet(v) \cap L = {} BY <1>1
  <2> QED BY <2>1, WithinNone
<1>5. Within(s, L) \in Seq(M)
  BY WithinType
<1>6. Within(s, L) \o <<>> = Within(s, L)
  BY <1>5, ConcatEmptySeq
<1>7. a \in Seq(M)
  BY <1>2, ConcatProperties
<1>8. Body(a) = Within(a, L) /\ Body(s) = Within(s, L)
  BY <1>1, <1>7, BodyIs
<1> QED BY Zenon, <1>2, <1>3, <1>4, <1>6, <1>8

LEMMA UniqueCat ==
  ASSUME NEW S, NEW s \in Seq(S), NEW v \in Seq(S), Unique(s), \A m \in ToSet(v) : ~ IsCall(m)
  PROVE  Unique(s \o v)
<1>1. PICK t \in Seq(S) : t = s \o v
  BY ConcatProperties
<1>2. /\ Len(t) = Len(s) + Len(v) /\ Len(s) \in Nat /\ Len(v) \in Nat
      /\ \A j \in 1..Len(s)+Len(v) : t[j] = IF j <= Len(s) THEN s[j] ELSE v[j - Len(s)]
  BY <1>1, ConcatProperties
<1>3. \A j \in 1..Len(v) : ~ IsCall(v[j])
  BY SetType
<1>4. ASSUME NEW j \in 1..Len(t), IsCall(t[j]) PROVE j \in 1..Len(s) /\ t[j] = s[j]
  <2> SUFFICES ASSUME ~ (j <= Len(s)) PROVE FALSE
    BY <1>2
  <2>1. t[j] = v[j - Len(s)] /\ j - Len(s) \in 1..Len(v)
    BY <1>2
  <2> QED BY <1>3, <1>4, <2>1
<1>5. Unique(t)
  BY <1>4 DEF Unique
<1> QED BY <1>1, <1>5

\* More entries that are neither call nor result.
LEMMA CompleteMore ==
  ASSUME NEW R, NEW V, \A m \in V : ~ IsCall(m) /\ ~ IsResult(m),
         NEW from, NEW id, NEW due, Complete(R, from, id, due)
  PROVE  Complete(R \cup V, from, id, due)
<1>1. ASSUME NEW i PROVE Answered(R \cup V, i) = Answered(R, i)
  <2>1. {x \in R \cup V : IsResult(x) /\ x.id = i} = {x \in R : IsResult(x) /\ x.id = i}
    OBVIOUS
  <2> QED BY <2>1 DEF Answered
<1>2. \A m \in R \cup V : IsCall(m) => m \in R
  OBVIOUS
<1> QED BY <1>1, <1>2 DEF Complete

\* Nothing due: no call is special.
LEMMA CompleteNoDue ==
  ASSUME NEW R, NEW from, NEW i, NEW j, Complete(R, from, i, {})
  PROVE  Complete(R, from, j, {})
<1>1. \A m \in R : m.has \ (IF m.id = j THEN {} ELSE {}) = m.has \ (IF m.id = i THEN {} ELSE {})
  OBVIOUS
<1> QED BY <1>1 DEF Complete

LEMMA ChainedAppend ==
  ASSUME NEW S, NEW s \in Seq(S), NEW e \in S, Chained(s),
         IsResult(e) => s # <<>> /\ Last(s).id = e.id /\ (IsCall(Last(s)) \/ IsResult(Last(s)))
  PROVE  Chained(Append(s, e))
<1>1. PICK t \in Seq(S) : t = Append(s, e)
  BY AppendProperties
<1>2. /\ Len(s) \in Nat /\ Len(t) = Len(s) + 1 /\ t[Len(s) + 1] = e
      /\ \A i \in 1..Len(s) : t[i] = s[i]
  BY <1>1, AppendProperties
<1>3. ASSUME NEW j \in 1..Len(t), IsResult(t[j])
      PROVE  j # 1 /\ t[j-1].id = t[j].id /\ (IsCall(t[j-1]) \/ IsResult(t[j-1]))
  <2>1. CASE j \in 1..Len(s)
    <3>1. IsResult(s[j]) BY <1>2, <1>3, <2>1
    <3>2. j # 1 /\ s[j-1].id = s[j].id /\ (IsCall(s[j-1]) \/ IsResult(s[j-1]))
      BY <2>1, <3>1 DEF Chained
    <3>3. t[j-1] = s[j-1] /\ t[j] = s[j] BY <1>2, <2>1, <3>2
    <3> QED BY <3>2, <3>3
  <2>2. CASE j = Len(s) + 1
    <3>1. t[j] = e /\ IsResult(e) BY <1>2, <1>3, <2>2
    <3>2. s # <<>> /\ Last(s) = s[Len(s)] BY <3>1 DEF Last
    <3>3. Len(s) \in 1..Len(s) /\ j # 1 /\ j - 1 = Len(s)
      BY <1>2, <2>2, <3>2, EmptySeq
    <3>4. t[j-1] = Last(s) BY <1>2, <3>2, <3>3
    <3> QED BY <3>1, <3>3, <3>4
  <2> QED BY <1>2, <2>1, <2>2
<1> QED BY <1>1, <1>3 DEF Chained

-------------------------------------------------------------------------------
(* The messages numbered so far, and the inductive invariant. *)

Numbered(n) ==
  [kind : Kinds \ {"assistant", "result", "note", "brief"}, id : 0..n-1, has : {{}}]
    \cup [kind : {"assistant"}, id : 1..n-1, has : SUBSET (1..MaxCalls)]
    \cup [kind : {"result"}, id : 1..n-1, has : {{c} : c \in 1..MaxCalls}]
    \cup [kind : {"note"}, id : Notes, has : {{}}]
    \cup [kind : {"brief"}, id : {0}, has : SUBSET Notes]

LEMMA MessagesAre == Messages = Numbered(next)
  BY DEF Messages, Numbered

LEMMA NumberedMsg ==
  ASSUME NEW n \in Nat \ {0}
  PROVE  /\ \A i \in 0..n-1 : Msg("user", i, {}) \in Numbered(n) /\ Msg("marker", i, {}) \in Numbered(n)
         /\ \A i \in 1..n-1 : \A h \in SUBSET (1..MaxCalls) : Msg("assistant", i, h) \in Numbered(n)
         /\ \A i \in 1..n-1 : \A c \in 1..MaxCalls : Msg("result", i, {c}) \in Numbered(n)
         /\ \A m \in Numbered(n) : IsCall(m) \/ IsResult(m) =>
              m.id \in 1..n-1 /\ m.has \subseteq 1..MaxCalls
<1>1. \A i \in 0..n-1 : Msg("user", i, {}) \in Numbered(n) /\ Msg("marker", i, {}) \in Numbered(n)
  BY DEF Numbered, Msg, Kinds
<1>2. \A i \in 1..n-1 : \A h \in SUBSET (1..MaxCalls) : Msg("assistant", i, h) \in Numbered(n)
  BY DEF Numbered, Msg
<1>3. \A i \in 1..n-1 : \A c \in 1..MaxCalls : Msg("result", i, {c}) \in Numbered(n)
  BY DEF Numbered, Msg
<1>4. \A m \in Numbered(n) : IsCall(m) \/ IsResult(m) => m.id \in 1..n-1 /\ m.has \subseteq 1..MaxCalls
  BY DEF Numbered, IsCall, IsResult, Kinds
<1> QED BY <1>1, <1>2, <1>3, <1>4

LEMMA NumberedPool ==
  ASSUME NEW n \in Nat \ {0} PROVE Pool(Numbered(n))
<1>1. \A m \in Numbered(n) : IsNote(m) => m.id \in Notes
  BY DEF Numbered, IsNote, Kinds
<1>2. \A m \in Numbered(n) : IsBrief(m) => m.has \subseteq Notes
  BY DEF Numbered, IsBrief, Kinds
<1>3. \A x \in Notes : Msg("note", x, {}) \in Numbered(n)
  BY DEF Numbered, Msg
<1>4. \A h \in SUBSET Notes : Msg("brief", 0, h) \in Numbered(n)
  BY DEF Numbered, Msg
<1>5. \A kind \in {"system", "memory", "nudge"} : Msg(kind, 0, {}) \in Numbered(n)
  BY DEF Numbered, Msg, Kinds
<1> QED BY <1>1, <1>2, <1>3, <1>4, <1>5 DEF Pool

LEMMA NumberedGrows ==
  ASSUME NEW n \in Nat \ {0} PROVE Numbered(n) \subseteq Numbered(n + 1)
BY DEF Numbered

LEMMA SeqGrows ==
  ASSUME NEW A, NEW B, A \subseteq B, NEW s \in Seq(A) PROVE s \in Seq(B)
OBVIOUS

\* The turn has lists to work on.
Working   == pc \notin {"idle", "drain", "tell"}
Gathering == pc \in {"tools", "await"}

\* What the round still owes: the calls of its message without a result.
Owed == IF Gathering /\ ~text THEN todo ELSE {}

\* A store: rounds whole, and in front notes and the task.
Sound(s) ==
  /\ Chained(s) /\ Unique(s)
  /\ s # <<>> => Opens(s, 1, FirstTask(s))

\* A request that serves for a store.
Serves(r, s) ==
  /\ s # <<>>
  /\ Framed(r, FirstTask(r)) /\ r[FirstTask(r)] = s[FirstTask(s)]
  /\ Chained(r) /\ Unique(r)
  /\ Body(r) = Body(s)

Remembered(s) == NoteIds(s) \cup BriefNotes(s)

\* While a round gathers its results, both lists end in it.
RoundOpen ==
  Gathering =>
    /\ todo # {}
    /\ ~text => /\ Last(store) = Last(req) /\ (IsCall(Last(req)) \/ IsResult(Last(req)))
                /\ req # <<>> /\ store # <<>>
                /\ \E m \in ToSet(req) : /\ IsCall(m) /\ m.id = Last(req).id
                                         /\ m.id >= first /\ todo \subseteq m.has

ListsKept ==
  /\ Sound(store)
  /\ Working => Serves(req, store)
  /\ Working => Complete(ToSet(req), first, Last(req).id, Owed)

NotesPlaced ==
  /\ Working /\ (pc # "top" \/ mailbox \cup late # {}) => Tidy(req, FirstTask(req))
  /\ pc \in {"idle", "drain"} => mailbox \cup late = {}

NotesKept ==
  ~ WithPolish => /\ pinned \subseteq Remembered(store)
                  /\ Working => pinned \subseteq Remembered(req)

EndsKept ==
  /\ pc \notin {"idle", "drain", "mark", "tell"} => outcome = "none"
  /\ pc \notin {"idle", "drain", "tell"} => said = <<>>
  /\ pc \in {"mark", "tell"} => outcome \in {"sub", "handback", "restart"}
  /\ pc = "tell" =>
       /\ Last(store).kind = "marker"
       /\ said = <<>> \/ (outcome # "restart" /\ said = <<"StreamComplete">>)
  /\ EndsInOrder

ListTypes ==
  /\ store \in Seq(Numbered(next)) /\ req \in Seq(Numbered(next))
  /\ \A m \in ToSet(store) : Storable(m)

OtherTypes ==
  /\ pc \in {"idle", "top", "switch", "rest", "send", "tools", "await", "judge",
             "mark", "tell", "drain"}
  /\ hop \in 0..MaxDepth /\ tries \in 0..MaxAttempts /\ attempt \in 1..2
  /\ todo \subseteq 1..MaxCalls /\ text \in BOOLEAN
  /\ mailbox \subseteq Requests /\ late \subseteq Requests
  /\ \A q, r \in mailbox : q.kind = r.kind => q = r
  /\ inbox \in Seq(1..next-1)
  /\ stopped \in BOOLEAN
  /\ outcome \in Ends \cup {"none"} /\ said \in Seq(Closings)
  /\ unread \subseteq (1..next-1) \X (1..MaxCalls)
  /\ pinned \subseteq Notes
  /\ next \in Nat \ {0} /\ first \in 1..next /\ turns \in 0..MaxTurns

Lists == ListTypes /\ ListsKept /\ RoundOpen /\ NotesPlaced /\ NotesKept

IInv == Lists /\ OtherTypes /\ EndsKept

-------------------------------------------------------------------------------
(* The lists, step by step. *)

LEMMA InitLists == Init => Lists
<1> SUFFICES ASSUME Init PROVE Lists
  OBVIOUS
<1>1. /\ store = <<>> /\ req = <<>> /\ pc = "idle" /\ mailbox = {} /\ late = {}
      /\ pinned = {} /\ text = FALSE
  BY DEF Init
<1>2. ListTypes
  BY <1>1, EmptySet DEF ListTypes
<1>3. Chained(<<>>) /\ Unique(<<>>)
  BY DEF Chained, Unique
<1>4. ListsKept
  BY <1>1, <1>3 DEF ListsKept, Sound, Working
<1> QED BY <1>1, <1>2, <1>4 DEF Lists, RoundOpen, NotesPlaced, NotesKept, Working, Gathering

\* A step that leaves the lists and the round alone.
LEMMA ListsStay ==
  ASSUME Lists, next \in Nat \ {0},
         UNCHANGED <<store, req, first, pinned, todo, text>>,
         next' \in {next, next + 1},
         Gathering' <=> Gathering, Working' => Working,
         Working' /\ (pc' # "top" \/ mailbox' \cup late' # {}) =>
           pc # "top" \/ mailbox \cup late # {},
         pc' \in {"idle", "drain"} => mailbox' \cup late' = {}
  PROVE  Lists'
<1>1. ListTypes'
  <2>1. Numbered(next) \subseteq Numbered(next')
    BY NumberedGrows
  <2>2. store' \in Seq(Numbered(next')) /\ req' \in Seq(Numbered(next'))
    BY <2>1, SeqGrows DEF Lists, ListTypes
  <2> QED BY <2>2 DEF Lists, ListTypes
<1>2. ListsKept'
  BY DEF Lists, ListsKept, Owed
<1>3. RoundOpen'
  BY DEF Lists, RoundOpen
<1>4. NotesPlaced'
  BY DEF Lists, NotesPlaced
<1>5. NotesKept'
  BY DEF Lists, NotesKept
<1> QED BY <1>1, <1>2, <1>3, <1>4, <1>5 DEF Lists

\* The agent leaves: its request goes, the store stays.
LEMMA ListsLeft ==
  ASSUME Lists, Leave, UNCHANGED <<store, first, pinned, next>>,
         pc' \in {"idle", "drain"}
  PROVE  Lists'
<1>1. req' = <<>> /\ mailbox' = {} /\ late' = {} /\ ~ Working' /\ ~ Gathering'
  BY DEF Leave, Working, Gathering
<1>2. ListTypes'
  BY <1>1 DEF Lists, ListTypes
<1>3. ListsKept'
  BY <1>1 DEF Lists, ListsKept
<1>4. RoundOpen'
  BY <1>1 DEF RoundOpen
<1>5. NotesPlaced'
  BY <1>1 DEF NotesPlaced
<1>6. NotesKept'
  BY <1>1 DEF Lists, NotesKept
<1> QED BY <1>2, <1>3, <1>4, <1>5, <1>6 DEF Lists

LEMMA InjectLists == ASSUME Lists, next \in Nat \ {0}, Inject PROVE Lists'
<1>1. /\ UNCHANGED <<store, req, first, pinned, todo, text, pc, mailbox, late>>
      /\ next' = next + 1
  BY DEF Inject, agentVars, loopVars, roundVars, boxVars
<1>2. (Gathering' <=> Gathering) /\ (Working' <=> Working)
  BY <1>1 DEF Gathering, Working
<1> QED BY <1>1, <1>2, ListsStay DEF Lists, NotesPlaced

LEMMA StopLists == ASSUME Lists, next \in Nat \ {0}, Stop PROVE Lists'
<1>1. UNCHANGED <<store, req, first, pinned, todo, text, pc, mailbox, late, next>>
  BY DEF Stop, agentVars, loopVars, roundVars, boxVars, countVars
<1>2. (Gathering' <=> Gathering) /\ (Working' <=> Working)
  BY <1>1 DEF Gathering, Working
<1> QED BY <1>1, <1>2, ListsStay DEF Lists, NotesPlaced

LEMMA LateLists == ASSUME Lists, next \in Nat \ {0}, LateRequest PROVE Lists'
<1>1. /\ UNCHANGED <<store, req, first, pinned, todo, text, pc, next>>
      /\ late # {}
  BY DEF LateRequest, loopVars, roundVars, countVars
<1>2. (Gathering' <=> Gathering) /\ (Working' <=> Working)
  BY <1>1 DEF Gathering, Working
<1>3. pc \notin {"idle", "drain"} /\ mailbox \cup late # {}
  BY <1>1 DEF Lists, NotesPlaced
<1> QED BY <1>1, <1>2, <1>3, ListsStay

LEMMA SendAsIsLists == ASSUME Lists, next \in Nat \ {0}, SendAsIs PROVE Lists'
<1>1. /\ UNCHANGED <<store, req, first, pinned, todo, text, mailbox, late, next>>
      /\ pc = "rest" /\ pc' = "send"
  BY DEF SendAsIs, agentVars, loopVars, roundVars, boxVars, countVars
<1>2. (Gathering' <=> Gathering) /\ (Working' <=> Working)
  BY <1>1 DEF Gathering, Working
<1> QED BY <1>1, <1>2, ListsStay

LEMMA AwaitCallLists == ASSUME Lists, next \in Nat \ {0}, AwaitCall PROVE Lists'
<1>1. /\ UNCHANGED <<store, req, first, pinned, todo, text, mailbox, late, next>>
      /\ pc = "tools" /\ pc' = "await"
  BY DEF AwaitCall, agentVars, loopVars, roundVars, boxVars, countVars
<1>2. (Gathering' <=> Gathering) /\ (Working' <=> Working)
  BY <1>1 DEF Gathering, Working
<1> QED BY <1>1, <1>2, ListsStay

LEMMA EngineDrainsLists == ASSUME Lists, next \in Nat \ {0}, EngineDrains PROVE Lists'
<1>1. /\ UNCHANGED <<store, req, first, pinned, todo, text, mailbox, late, next>>
      /\ pc = "drain" /\ pc' = "idle"
  BY DEF EngineDrains, agentVars, loopVars, roundVars, boxVars, countVars
<1>2. (Gathering' <=> Gathering) /\ (Working' <=> Working)
  BY <1>1 DEF Gathering, Working
<1> QED BY <1>1, <1>2, ListsStay DEF Lists, NotesPlaced

\* Every way to leave.
LEMMA LeavingLists ==
  ASSUME Lists, Dropped \/ TopStopped \/ SwitchRefused \/ TimesOut \/ CallFails
                  \/ CollectStopped \/ Accept
  PROVE  Lists'
<1>1. Leave /\ UNCHANGED <<store, first, pinned, next>> /\ pc' \in {"idle", "drain"}
  BY DEF Dropped, TopStopped, SwitchRefused, TimesOut, CallFails, CollectStopped, Accept,
         End, countVars
<1> QED BY <1>1, ListsLeft

LEMMA TellLists == ASSUME Lists, next \in Nat \ {0}, Tell PROVE Lists'
<1>1. UNCHANGED <<store, first, pinned, next>> /\ pc = "tell"
  BY DEF Tell, countVars
<1>2. CASE UNCHANGED <<pc, outcome, agentVars>>
  <2>1. UNCHANGED <<store, req, first, pinned, todo, text, pc, mailbox, late, next>>
    BY <1>1, <1>2 DEF agentVars, loopVars, roundVars, boxVars
  <2>2. (Gathering' <=> Gathering) /\ (Working' <=> Working)
    BY <2>1 DEF Gathering, Working
  <2> QED BY <1>1, <2>1, <2>2, ListsStay
<1>3. CASE End(outcome)
  <2>1. Leave /\ pc' \in {"idle", "drain"} BY <1>3 DEF End
  <2> QED BY <1>1, <2>1, ListsLeft
<1> QED BY <1>2, <1>3 DEF Tell

\* A list of which more is known than of its entries: what comes behind it does
\* not change how it opens, nor what it remembers.
LEMMA StoreGrows ==
  ASSUME NEW S, NEW s \in Seq(S), NEW v \in Seq(S), s # <<>>, Opens(s, 1, FirstTask(s))
  PROVE  /\ s \o v # <<>> /\ Opens(s \o v, 1, FirstTask(s \o v))
         /\ (s \o v)[FirstTask(s \o v)] = s[FirstTask(s)]
<1>1. \A k : /\ s \o v \in Seq(S)
             /\ Opens(s, 1, k) => Opens(s \o v, 1, k) /\ (s \o v)[k] = s[k]
  BY Extended
<1>2. PICK t \in Seq(S) : t = s \o v
  BY <1>1
<1>3. PICK k : k = FirstTask(s) /\ Opens(t, 1, k) /\ t[k] = s[k]
  BY Zenon, <1>1, <1>2
<1>4. FirstTask(t) = k
  <2>1. \A j \in 1..1-1 : ~ IsTask(t[j]) OBVIOUS
  <2>2. 1 \in Nat \ {0} OBVIOUS
  <2> QED BY <1>3, <2>1, <2>2, OpensFirst
<1>5. t # <<>>
  BY <1>3, EmptySeq DEF Opens
<1> QED BY Zenon, <1>2, <1>3, <1>4, <1>5

LEMMA RequestGrows ==
  ASSUME NEW S, NEW s \in Seq(S), NEW v \in Seq(S), Framed(s, FirstTask(s))
  PROVE  /\ Framed(s \o v, FirstTask(s \o v))
         /\ (s \o v)[FirstTask(s \o v)] = s[FirstTask(s)]
         /\ FirstTask(s \o v) = FirstTask(s)
<1>1. \A k : /\ s \o v \in Seq(S)
             /\ Framed(s, k) => Framed(s \o v, k) /\ (s \o v)[k] = s[k]
  BY Extended
<1>2. PICK t \in Seq(S) : t = s \o v
  BY <1>1
<1>3. PICK k : k = FirstTask(s) /\ Framed(t, k) /\ t[k] = s[k]
  BY Zenon, <1>1, <1>2
<1>4. FirstTask(t) = k
  BY <1>3, FramedFirst
<1> QED BY Zenon, <1>2, <1>3, <1>4

LEMMA RememberedGrows ==
  ASSUME NEW s, NEW t, ToSet(s) \subseteq ToSet(t) PROVE Remembered(s) \subseteq Remembered(t)
BY DEF Remembered, NoteIds, BriefNotes

LEMMA PlainChained ==
  ASSUME NEW S, NEW v \in Seq(S), \A m \in ToSet(v) : ~ IsResult(m) PROVE Chained(v)
BY SetType DEF Chained

LEMMA NotesBehind ==
  ASSUME NEW S, NEW s \in Seq(S), NEW v \in Seq(S), NEW k, Tidy(s, k),
         \A m \in ToSet(v) : ~ IsNote(m)
  PROVE  Tidy(s \o v, k)
<1>1. PICK t \in Seq(S) : t = s \o v
  BY ConcatProperties
<1>2. /\ Len(t) = Len(s) + Len(v) /\ Len(s) \in Nat /\ Len(v) \in Nat
      /\ \A j \in 1..Len(s)+Len(v) : t[j] = IF j <= Len(s) THEN s[j] ELSE v[j - Len(s)]
  BY <1>1, ConcatProperties
<1>3. \A j \in 1..Len(v) : ~ IsNote(v[j])
  BY SetType
<1>4. ASSUME NEW j \in 1..Len(t), IsNote(t[j]) PROVE j < k
  <2>1. CASE j <= Len(s)
    <3>1. j \in 1..Len(s) /\ t[j] = s[j] BY <1>2, <2>1
    <3> QED BY <1>4, <3>1 DEF Tidy
  <2>2. CASE ~ (j <= Len(s))
    <3>1. t[j] = v[j - Len(s)] /\ j - Len(s) \in 1..Len(v) BY <1>2, <2>2
    <3> QED BY <1>3, <1>4, <3>1
  <2> QED BY <2>1, <2>2
<1> QED BY <1>1, <1>4 DEF Tidy

\* A message of its own.
LEMMA OneMore ==
  ASSUME NEW S, NEW s \in Seq(S), NEW e \in S
  PROVE  \E v \in Seq(S) : v = <<e>> /\ Append(s, e) = s \o v /\ ToSet(v) = {e} /\ Len(v) = 1
                           /\ v[1] = e
<1>1. PICK v \in Seq(S) : v = <<e>> /\ ToSet(v) = {e} /\ Len(v) = 1 /\ v[1] = e
  BY OneSet
<1>2. Append(s, e) = s \o v
  BY <1>1, AppendIsConcat
<1> QED BY <1>1, <1>2

\* What a store t keeps of the store s before it.
Continues(s, t) ==
  /\ Sound(t) /\ t # <<>>
  /\ s # <<>> => t[FirstTask(t)] = s[FirstTask(s)]
  /\ Remembered(s) \subseteq Remembered(t)

\* A store that grows by a message that opens a turn, or continues one.
LEMMA Recorded ==
  ASSUME NEW S, NEW s \in Seq(S), Sound(s), NEW e \in S, Opened(e), NEW t, t = Append(s, e)
  PROVE  t \in Seq(S) /\ ToSet(t) = ToSet(s) \cup {e} /\ Last(t) = e /\ Continues(s, t)
<1>1. PICK v \in Seq(S) : v = <<e>> /\ Append(s, e) = s \o v /\ ToSet(v) = {e} /\ Len(v) = 1
                          /\ v[1] = e
  BY OneMore
<1>2. ~ IsResult(e) /\ ~ IsCall(e)
  BY KindsApart
<1>3. t \in Seq(S) /\ ToSet(t) = ToSet(s) \cup {e}
  BY AppendSet, AppendProperties
<1>4. t = s \o v
  BY <1>1
<1>5. Chained(t)
  <2>1. Chained(v) BY <1>1, <1>2, PlainChained
  <2>2. Chained(s \o v) BY <2>1, ChainedCat DEF Sound
  <2> QED BY <1>4, <2>2
<1>6. Unique(t)
  <2>1. Unique(s \o v) BY <1>1, <1>2, UniqueCat DEF Sound
  <2> QED BY <1>4, <2>1
<1>7. Remembered(s) \subseteq Remembered(t)
  BY <1>3, RememberedGrows
<1>8. Last(t) = e
  BY AppendProperties DEF Last
<1>9. CASE s # <<>>
  <2>1. Opens(s, 1, FirstTask(s)) BY <1>9 DEF Sound
  <2>2. /\ s \o v # <<>> /\ Opens(s \o v, 1, FirstTask(s \o v))
        /\ (s \o v)[FirstTask(s \o v)] = s[FirstTask(s)]
    BY <1>9, <2>1, StoreGrows
  <2>3. t # <<>> /\ Opens(t, 1, FirstTask(t)) /\ t[FirstTask(t)] = s[FirstTask(s)]
    BY Zenon, <1>4, <2>2
  <2> QED BY <1>3, <1>5, <1>6, <1>7, <1>8, <2>3 DEF Sound, Continues
<1>10. CASE s = <<>>
  <2>1. v \in Seq(S) /\ <<>> \o v = v BY ConcatEmptySeq
  <2>2. t = v BY Zenon, <1>4, <1>10, <2>1
  <2>3. Opens(v, 1, 1) BY <1>1 DEF Opens
  <2>4. FirstTask(v) = 1
    <3>1. \A j \in 1..1-1 : ~ IsTask(v[j]) OBVIOUS
    <3>2. 1 \in Nat \ {0} OBVIOUS
    <3> QED BY <2>3, <3>1, <3>2, OpensFirst
  <2>5. v # <<>> BY <1>1
  <2>6. t # <<>> /\ Opens(t, 1, FirstTask(t)) BY Zenon, <2>2, <2>3, <2>4, <2>5
  <2> QED BY <1>3, <1>5, <1>6, <1>10, <1>7, <1>8, <2>6 DEF Sound, Continues
<1> QED BY <1>9, <1>10

\* The request of a fresh agent serves for its store.
LEMMA BuiltServes ==
  ASSUME NEW M, Pool(M), NEW s \in Seq(M), Sound(s), s # <<>>,
         NEW task, NEW memory \in BOOLEAN, NEW r, r = Built(s, task, memory),
         NEW from, NEW id, Complete(ToSet(s), from, id, {})
  PROVE  /\ r \in Seq(M) /\ Serves(r, s) /\ Remembered(r) = Remembered(s)
         /\ Complete(ToSet(r), from, id, {})
<1>1. PICK k : k = FirstTask(s) /\ Opens(s, 1, k)
  BY DEF Sound
<1>2. /\ r \in Seq(M) /\ Framed(r, k + 1) /\ r[k+1] = s[k]
      /\ Chained(r)
      /\ Within(r, Lasting(M)) = Within(s, Lasting(M))
      /\ NoteIds(r) = NoteIds(s) /\ BriefNotes(r) = BriefNotes(s)
  BY <1>1, BuiltIs DEF Sound
<1>3. FirstTask(r) = k + 1
  BY <1>2, FramedFirst
<1>4. Unique(r) /\ Complete(ToSet(r), from, id, {})
  BY <1>2, SameRounds DEF Sound
<1>5. Body(r) = Body(s)
  BY <1>2, BodyIs
<1> QED BY <1>1, <1>2, <1>3, <1>4, <1>5 DEF Serves, Remembered

\* The store reconciled with a request is sound, and the request serves for it.
LEMMA ReconciledServes ==
  ASSUME NEW M, NEW r \in Seq(M), NEW k, Framed(r, k), Chained(r), Unique(r),
         NEW s, s = Reconcile(r)
  PROVE  /\ s \in Seq(M) /\ \A m \in ToSet(s) : Storable(m)
         /\ Sound(s) /\ Serves(r, s) /\ Remembered(r) = Remembered(s)
         /\ s[FirstTask(s)] = r[k]
<1>1. /\ s \in Seq(M) /\ Opens(s, 1, k - 1) /\ s[k-1] = r[k]
      /\ Chained(s) /\ Unique(s)
      /\ \A m \in ToSet(s) : Storable(m)
      /\ Within(s, Lasting(M)) = Within(r, Lasting(M))
      /\ NoteIds(s) = NoteIds(r) /\ BriefNotes(s) = BriefNotes(r)
  BY Reconciled
<1>2. FirstTask(r) = k
  BY FramedFirst
<1>3. FirstTask(s) = k - 1
  <2>1. \A j \in 1..1-1 : ~ IsTask(s[j]) OBVIOUS
  <2>2. 1 \in Nat \ {0} OBVIOUS
  <2> QED BY <1>1, <2>1, <2>2, OpensFirst
<1>4. s # <<>>
  BY <1>1 DEF Opens
<1>5. Body(r) = Body(s)
  BY <1>1, BodyIs
<1> QED BY <1>1, <1>2, <1>3, <1>4, <1>5 DEF Serves, Sound, Remembered

\* The first task of the store outlives the step.
TaskHeld ==
  store # <<>> => store' # <<>> /\ store'[FirstTask(store')] = store[FirstTask(store)]

LEMMA StartTurnLists == ASSUME Lists, OtherTypes, StartTurn PROVE Lists' /\ TaskHeld
<1> DEFINE e == Msg("user", next, {})
<1>1. next \in Nat \ {0} /\ store \in Seq(Numbered(next)) /\ Sound(store)
  BY DEF Lists, ListTypes, ListsKept, OtherTypes
<1>2. /\ pc = "idle" /\ store' = Append(store, e)
      /\ pc' = "top" /\ first' = next /\ next' = next + 1
      /\ UNCHANGED <<pinned, mailbox, late, text>>
  BY DEF StartTurn, boxVars, roundVars
<1>3. PICK memory \in BOOLEAN : req' = Built(store', next, memory)
  BY <1>2 DEF StartTurn
<1>4. PICK M : M = Numbered(next + 1)
  OBVIOUS
<1>5. Pool(M) /\ store \in Seq(M)
  <2>1. next + 1 \in Nat \ {0} BY <1>1
  <2>2. Numbered(next) \subseteq M BY <1>1, <1>4, NumberedGrows
  <2> QED BY <1>1, <1>4, <2>1, <2>2, NumberedPool, SeqGrows
<1>6. e \in M /\ Opened(e) /\ Storable(e) /\ ~ IsCall(e)
  <2>1. Opened(e) BY MsgIs DEF Opened
  <2>2. next + 1 \in Nat \ {0} /\ next \in 0..(next+1)-1 BY <1>1
  <2>3. e \in Numbered(next + 1) BY <2>2, NumberedMsg
  <2> QED BY <1>4, <2>1, <2>3, KindsApart
<1> HIDE DEF e
<1>7. /\ store' \in Seq(M) /\ ToSet(store') = ToSet(store) \cup {e}
      /\ Continues(store, store')
  <2>1. store \in Seq(M) /\ Sound(store) /\ e \in M /\ Opened(e) /\ store' = Append(store, e)
    BY <1>1, <1>2, <1>5, <1>6
  <2>2. Continues(store, store') BY Zenon, <2>1, Recorded
  <2>3. store' \in Seq(M) /\ ToSet(store') = ToSet(store) \cup {e}
    BY <2>1, AppendSet, AppendProperties
  <2> QED BY <2>2, <2>3
<1>8. \A id : Complete(ToSet(store'), next, id, {})
  <2>1. ASSUME NEW m \in ToSet(store), IsCall(m) PROVE ~ (m.id >= next)
    <3>1. m \in Numbered(next) BY <1>1, SetType
    <3>2. m.id \in 1..next-1 BY <1>1, <2>1, <3>1, NumberedMsg
    <3> QED BY <1>1, <3>2
  <2> QED BY <1>6, <1>7, <2>1 DEF Complete
<1>9. PICK id : id = Last(req').id
  OBVIOUS
<1>10. /\ req' \in Seq(M) /\ Serves(req', store') /\ Remembered(req') = Remembered(store')
       /\ Complete(ToSet(req'), next, id, {})
  BY <1>3, <1>5, <1>7, <1>8, BuiltServes DEF Continues
<1>11. Working' /\ ~ Gathering' /\ Owed' = {}
  BY <1>2 DEF Working, Gathering, Owed
<1>12. ListTypes'
  BY <1>2, <1>4, <1>6, <1>7, <1>10 DEF ListTypes, Lists
<1>13. ListsKept'
  BY <1>2, <1>7, <1>9, <1>10, <1>11 DEF ListsKept, Continues
<1>14. NotesPlaced'
  BY <1>2 DEF Lists, NotesPlaced
<1>15. NotesKept'
  BY <1>2, <1>7, <1>10 DEF Lists, NotesKept, Continues
<1> QED BY <1>7, <1>11, <1>12, <1>13, <1>14, <1>15 DEF Lists, RoundOpen, TaskHeld, Continues

\* What is complete in a request is complete in the store it serves.
LEMMA StoreComplete ==
  ASSUME NEW M, NEW r \in Seq(M), NEW s \in Seq(M), Serves(r, s),
         NEW from, NEW id, NEW due, Complete(ToSet(r), from, id, due)
  PROVE  Complete(ToSet(s), from, id, due)
<1>1. Within(s, Lasting(M)) = Within(r, Lasting(M))
  BY BodyIs DEF Serves
<1> QED BY <1>1, SameRounds

\* Outside a round nothing is owed.
LEMMA NothingOwed ==
  ASSUME Lists, Working, ~ Gathering
  PROVE  /\ Serves(req, store) /\ Owed = {}
         /\ \A id : Complete(ToSet(req), first, id, {})
<1>1. Owed = {} /\ Serves(req, store) /\ Complete(ToSet(req), first, Last(req).id, {})
  BY DEF Owed, Lists, ListsKept
<1> QED BY <1>1, CompleteNoDue

LEMMA SwitchLists == ASSUME Lists, OtherTypes, Switch PROVE Lists' /\ TaskHeld
<1> DEFINE e == Msg("marker", next, {})
<1>1. /\ next \in Nat \ {0} /\ Sound(store)
      /\ store \in Seq(Numbered(next)) /\ req \in Seq(Numbered(next))
  BY DEF Lists, ListTypes, ListsKept, OtherTypes
<1>2. /\ pc = "switch" /\ store' = Append(store, e)
      /\ pc' = "top" /\ next' = next + 1 /\ mailbox' = {} /\ late' = {}
      /\ UNCHANGED <<pinned, first, text>>
  BY DEF Switch, roundVars
<1>3. PICK memory \in BOOLEAN : req' = Built(store', next, memory)
  BY <1>2 DEF Switch
<1>4. PICK M : M = Numbered(next + 1)
  OBVIOUS
<1>5. Pool(M) /\ store \in Seq(M) /\ req \in Seq(M)
  <2>1. next + 1 \in Nat \ {0} BY <1>1
  <2>2. Numbered(next) \subseteq M BY <1>1, <1>4, NumberedGrows
  <2> QED BY <1>1, <1>4, <2>1, <2>2, NumberedPool, SeqGrows
<1>6. e \in M /\ Opened(e) /\ Storable(e) /\ ~ IsCall(e) /\ ~ IsResult(e)
  <2>1. Opened(e) BY MsgIs DEF Opened
  <2>2. next + 1 \in Nat \ {0} /\ next \in 0..(next+1)-1 BY <1>1
  <2>3. e \in Numbered(next + 1) BY <2>2, NumberedMsg
  <2> QED BY <1>4, <2>1, <2>3, KindsApart
<1> HIDE DEF e
<1>7. /\ store' \in Seq(M) /\ ToSet(store') = ToSet(store) \cup {e}
      /\ Continues(store, store')
  <2>1. store \in Seq(M) /\ Sound(store) /\ e \in M /\ Opened(e) /\ store' = Append(store, e)
    BY <1>1, <1>2, <1>5, <1>6
  <2>2. Continues(store, store') BY Zenon, <2>1, Recorded
  <2>3. store' \in Seq(M) /\ ToSet(store') = ToSet(store) \cup {e}
    BY <2>1, AppendSet, AppendProperties
  <2> QED BY <2>2, <2>3
<1>8. \A id : Complete(ToSet(store'), first, id, {})
  <2>1. /\ Serves(req, store) /\ \A id : Complete(ToSet(req), first, id, {})
    BY <1>2, NothingOwed DEF Working, Gathering
  <2>2. \A id : Complete(ToSet(store), first, id, {})
    BY <1>5, <2>1, StoreComplete
  <2>3. \A m \in {e} : ~ IsCall(m) /\ ~ IsResult(m) BY <1>6
  <2>4. \A id : Complete(ToSet(store) \cup {e}, first, id, {}) BY <2>2, <2>3, CompleteMore
  <2> QED BY <1>7, <2>4
<1>9. PICK id : id = Last(req').id
  OBVIOUS
<1>10. /\ req' \in Seq(M) /\ Serves(req', store') /\ Remembered(req') = Remembered(store')
       /\ Complete(ToSet(req'), first, id, {})
  BY <1>3, <1>5, <1>7, <1>8, BuiltServes DEF Continues
<1>11. Working' /\ ~ Gathering' /\ Owed' = {}
  BY <1>2 DEF Working, Gathering, Owed
<1>12. ListTypes'
  BY <1>2, <1>4, <1>6, <1>7, <1>10 DEF ListTypes, Lists
<1>13. ListsKept'
  BY <1>2, <1>7, <1>9, <1>10, <1>11 DEF ListsKept, Continues
<1>14. NotesPlaced'
  BY <1>2 DEF Lists, NotesPlaced
<1>15. NotesKept'
  BY <1>2, <1>7, <1>10 DEF Lists, NotesKept, Continues
<1> QED BY <1>7, <1>11, <1>12, <1>13, <1>14, <1>15 DEF Lists, RoundOpen, TaskHeld, Continues

\* A store that grows at its end.
LEMMA GrownStore ==
  ASSUME NEW M, NEW s \in Seq(M), NEW v \in Seq(M), Sound(s), s # <<>>,
         Chained(s \o v), Unique(s \o v)
  PROVE  Continues(s, s \o v)
<1>1. Opens(s, 1, FirstTask(s))
  BY DEF Sound
<1>2. /\ s \o v # <<>> /\ Opens(s \o v, 1, FirstTask(s \o v))
      /\ (s \o v)[FirstTask(s \o v)] = s[FirstTask(s)]
  BY <1>1, StoreGrows
<1>3. ToSet(s) \subseteq ToSet(s \o v)
  BY CatSet
<1>4. Remembered(s) \subseteq Remembered(s \o v)
  BY <1>3, RememberedGrows
<1>5. Sound(s \o v)
  BY <1>2 DEF Sound
<1> QED BY <1>2, <1>4, <1>5 DEF Continues

\* Both lists grow by the same entries.
LEMMA GrownBoth ==
  ASSUME NEW M, NEW r \in Seq(M), NEW s \in Seq(M), NEW v \in Seq(M), Serves(r, s), Sound(s),
         Chained(s \o v), Unique(s \o v), Chained(r \o v), Unique(r \o v)
  PROVE  Serves(r \o v, s \o v)
<1>1. s # <<>> /\ Framed(r, FirstTask(r)) /\ r[FirstTask(r)] = s[FirstTask(s)] /\ Body(r) = Body(s)
  BY DEF Serves
<1>2. /\ Framed(r \o v, FirstTask(r \o v)) /\ (r \o v)[FirstTask(r \o v)] = r[FirstTask(r)]
  BY <1>1, RequestGrows
<1>3. Opens(s, 1, FirstTask(s))
  BY <1>1 DEF Sound
<1>4. s \o v # <<>> /\ (s \o v)[FirstTask(s \o v)] = s[FirstTask(s)]
  BY <1>1, <1>3, StoreGrows
<1>5. Body(r \o v) = Body(s \o v)
  BY <1>1, BodyCat
<1> QED BY <1>1, <1>2, <1>4, <1>5 DEF Serves

\* A request that is rearranged and keeps its lasting entries serves on.
LEMMA ServesOn ==
  ASSUME NEW M, NEW r \in Seq(M), NEW s, Serves(r, s),
         NEW t \in Seq(M), Framed(t, FirstTask(t)), t[FirstTask(t)] = r[FirstTask(r)],
         Chained(t), Within(t, Lasting(M)) = Within(r, Lasting(M)),
         NEW from, NEW id, NEW due, Complete(ToSet(r), from, id, due)
  PROVE  Serves(t, s) /\ Complete(ToSet(t), from, id, due)
<1>1. Unique(t) /\ Complete(ToSet(t), from, id, due)
  BY SameRounds DEF Serves
<1>2. Body(t) = Body(r)
  BY BodyIs
<1> QED BY <1>1, <1>2 DEF Serves

LEMMA MarkLists == ASSUME Lists, OtherTypes, Mark PROVE Lists' /\ TaskHeld /\ Last(store').kind = "marker"
<1> DEFINE e == Msg("marker", next, {})
<1>1. /\ next \in Nat \ {0} /\ Sound(store)
      /\ store \in Seq(Numbered(next)) /\ req \in Seq(Numbered(next))
  BY DEF Lists, ListTypes, ListsKept, OtherTypes
<1>2. /\ store' = Append(store, e)
      /\ pc' = "tell" /\ next' = next + 1
      /\ UNCHANGED <<req, pinned, first, text, mailbox, late>>
  BY DEF Mark, Marked, agentVars, loopVars, roundVars, boxVars
<1>3. PICK M : M = Numbered(next + 1)
  OBVIOUS
<1>4. store \in Seq(M) /\ req \in Seq(M)
  <2>1. Numbered(next) \subseteq M BY <1>1, <1>3, NumberedGrows
  <2> QED BY <1>1, <2>1, SeqGrows
<1>5. e \in M /\ Opened(e) /\ Storable(e) /\ e.kind = "marker"
  <2>1. Opened(e) /\ e.kind = "marker" BY MsgIs DEF Opened
  <2>2. next + 1 \in Nat \ {0} /\ next \in 0..(next+1)-1 BY <1>1
  <2>3. e \in Numbered(next + 1) BY <2>2, NumberedMsg
  <2> QED BY <1>3, <2>1, <2>3, KindsApart
<1> HIDE DEF e
<1>6. /\ store' \in Seq(M) /\ ToSet(store') = ToSet(store) \cup {e}
      /\ Continues(store, store') /\ Last(store') = e
  <2>1. store \in Seq(M) /\ Sound(store) /\ e \in M /\ Opened(e) /\ store' = Append(store, e)
    BY <1>1, <1>2, <1>4, <1>5
  <2>2. Continues(store, store') BY Zenon, <2>1, Recorded
  <2>3. store' \in Seq(M) /\ ToSet(store') = ToSet(store) \cup {e}
    BY <2>1, AppendSet, AppendProperties
  <2>4. Last(store') = e BY <2>1, AppendProperties DEF Last
  <2> QED BY <2>2, <2>3, <2>4
<1>7. ~ Working' /\ ~ Gathering'
  BY <1>2 DEF Working, Gathering
<1>8. ListTypes'
  BY <1>2, <1>3, <1>4, <1>5, <1>6 DEF ListTypes, Lists
<1>9. ListsKept'
  BY <1>6, <1>7 DEF ListsKept, Continues
<1>10. NotesPlaced'
  BY <1>2, <1>7 DEF NotesPlaced
<1>11. NotesKept'
  BY <1>2, <1>6, <1>7 DEF Lists, NotesKept, Continues
<1> QED BY <1>5, <1>6, <1>7, <1>8, <1>9, <1>10, <1>11 DEF Lists, RoundOpen, TaskHeld, Continues

\* A nudge goes into the request only, behind everything.
LEMMA NeedsFixLists == ASSUME Lists, OtherTypes, NeedsFix PROVE Lists' /\ TaskHeld
<1> DEFINE e == Msg("nudge", 0, {})
<1>1. /\ next \in Nat \ {0} /\ Sound(store)
      /\ store \in Seq(Numbered(next)) /\ req \in Seq(Numbered(next))
  BY DEF Lists, ListTypes, ListsKept, OtherTypes
<1>2. /\ pc = "judge" /\ req' = Append(req, e) /\ pc' = "top"
      /\ UNCHANGED <<store, pinned, first, text, todo, mailbox, late, next>>
  BY DEF NeedsFix, Nudged, roundVars, boxVars, countVars
<1>3. PICK M : M = Numbered(next)
  OBVIOUS
<1>4. Pool(M) /\ req \in Seq(M) /\ store \in Seq(M)
  BY <1>1, <1>3, NumberedPool
<1>5. e \in M /\ ~ Storable(e) /\ ~ IsCall(e) /\ ~ IsResult(e) /\ ~ IsNote(e)
  <2>1. e \in M BY <1>4 DEF Pool
  <2>2. e.kind = "nudge" BY MsgIs
  <2> QED BY <2>1, <2>2 DEF Storable, IsCall, IsResult, IsNote
<1> HIDE DEF e
<1>6. PICK v \in Seq(M) : v = <<e>> /\ Append(req, e) = req \o v /\ ToSet(v) = {e} /\ Len(v) = 1
                          /\ v[1] = e
  BY <1>4, <1>5, OneMore
<1>7. /\ Serves(req, store) /\ Owed = {}
      /\ \A id : Complete(ToSet(req), first, id, {})
  BY <1>2, NothingOwed DEF Working, Gathering
<1>8. /\ Framed(req, FirstTask(req)) /\ req[FirstTask(req)] = store[FirstTask(store)]
      /\ Chained(req) /\ Unique(req) /\ Body(req) = Body(store) /\ store # <<>>
  BY <1>7 DEF Serves
<1>9. PICK r : r = req \o v
  OBVIOUS
<1>10. /\ Framed(r, FirstTask(r)) /\ r[FirstTask(r)] = store[FirstTask(store)]
       /\ FirstTask(r) = FirstTask(req)
  <2>1. /\ Framed(req \o v, FirstTask(req \o v))
        /\ (req \o v)[FirstTask(req \o v)] = req[FirstTask(req)]
        /\ FirstTask(req \o v) = FirstTask(req)
    BY <1>4, <1>8, RequestGrows
  <2> QED BY Zenon, <1>8, <1>9, <2>1
<1>11. r \in Seq(M) /\ Chained(r) /\ Unique(r) /\ Body(r) = Body(store)
  <2>1. Chained(v) BY <1>5, <1>6, PlainChained
  <2>2. Chained(req \o v) BY <1>4, <1>8, <2>1, ChainedCat
  <2>3. Unique(req \o v) BY <1>4, <1>5, <1>6, <1>8, UniqueCat
  <2>4. \A m \in ToSet(v) : m \notin Lasting(M) BY <1>5, <1>6 DEF Lasting
  <2>5. Body(req \o v) = Body(req) BY <1>4, <2>4, BodySkip
  <2>6. req \o v \in Seq(M) BY <1>4, ConcatProperties
  <2> QED BY <1>8, <1>9, <2>2, <2>3, <2>5, <2>6
<1>12. ToSet(r) = ToSet(req) \cup {e}
  <2>1. ToSet(req \o v) = ToSet(req) \cup ToSet(v) BY <1>4, CatSet
  <2> QED BY <1>6, <1>9, <2>1
<1>13. \A id : Complete(ToSet(r), first, id, {})
  <2>1. \A m \in {e} : ~ IsCall(m) /\ ~ IsResult(m) BY <1>5
  <2>2. \A id : Complete(ToSet(req) \cup {e}, first, id, {}) BY <1>7, <2>1, CompleteMore
  <2> QED BY <1>12, <2>2
<1>14. req' = r
  BY <1>2, <1>6, <1>9
<1>15. Serves(req', store')
  BY <1>2, <1>8, <1>10, <1>11, <1>14 DEF Serves
<1>16. Working' /\ Working /\ ~ Gathering' /\ Owed' = {}
  BY <1>2 DEF Working, Gathering, Owed
<1>17. ListTypes'
  BY <1>2, <1>3, <1>11, <1>14 DEF ListTypes, Lists
<1>18. ListsKept'
  BY <1>1, <1>2, <1>13, <1>14, <1>15, <1>16 DEF ListsKept
<1>19. NotesPlaced'
  <2>1. Tidy(req, FirstTask(req)) BY <1>2, <1>16 DEF Lists, NotesPlaced
  <2>2. Tidy(req \o v, FirstTask(req)) BY <1>4, <1>5, <1>6, <2>1, NotesBehind
  <2>3. Tidy(req', FirstTask(req')) BY <1>9, <1>10, <1>14, <2>2
  <2> QED BY <1>2, <2>3 DEF NotesPlaced
<1>20. NotesKept'
  <2>1. Remembered(req) \subseteq Remembered(req') BY <1>12, <1>14, RememberedGrows
  <2> QED BY <1>2, <1>16, <2>1 DEF Lists, NotesKept
<1> QED BY <1>2, <1>8, <1>16, <1>17, <1>18, <1>19, <1>20 DEF Lists, RoundOpen, TaskHeld

\* What a trimmed request must be to be sent and reconciled with: framed at k,
\* with notes in front and the rounds whole.
Ready(M, r, k, from) ==
  /\ r \in Seq(M) /\ Framed(r, k) /\ Chained(r) /\ Unique(r) /\ Tidy(r, k)
  /\ \A id : Complete(ToSet(r), from, id, {})

LEMMA PolishedIs ==
  ASSUME NEW M, Pool(M), NEW t, NEW k, NEW from, Ready(M, t, k, from), NEW p \in Polished(t)
  PROVE  Ready(M, p, k, from) /\ p[k] = t[k] /\ (~ WithPolish => p = t)
<1>1. /\ t \in Seq(M) /\ Framed(t, k) /\ Chained(t) /\ Unique(t) /\ Tidy(t, k)
      /\ \A id : Complete(ToSet(t), from, id, {})
  BY DEF Ready
<1>2. BriefNotes(t) \subseteq Notes
  <2>1. ToSet(t) \subseteq M BY <1>1, SetType
  <2>2. \A m \in ToSet(t) : IsBrief(m) => m.has \subseteq Notes BY <2>1 DEF Pool
  <2> QED BY <2>2 DEF BriefNotes
<1>3. CASE p = t
  BY <1>3
<1>4. ASSUME WithPolish, NEW notes \in SUBSET BriefNotes(t), p = ApplyBrief(t, notes)
      PROVE  Ready(M, p, k, from) /\ p[k] = t[k]
  <2>1. notes \in SUBSET Notes BY <1>2
  <2>2. k \in 1..k BY <1>1, FramedFirst
  <2>3. /\ p \in Seq(M) /\ p[k] = t[k] /\ Framed(p, k) /\ Chained(p) /\ Tidy(p, k)
        /\ Within(p, Lasting(M)) = Within(t, Lasting(M))
    BY <1>1, <1>4, <2>1, <2>2, BriefApplied
  <2>4. Unique(p) /\ \A id : Complete(ToSet(p), from, id, {})
    BY <1>1, <2>3, SameRounds
  <2> QED BY <2>3, <2>4 DEF Ready
<1>5. p = t \/ (WithPolish /\ \E notes \in SUBSET BriefNotes(t) : p = ApplyBrief(t, notes))
  BY DEF Polished
<1> QED BY <1>3, <1>4, <1>5

\* The store reconciled with a request that is ready.
LEMMA ReconciledLists ==
  ASSUME Lists, OtherTypes, Working, ~ Gathering,
         NEW k, Ready(Numbered(next), req', k, first), req'[k] = req[FirstTask(req)],
         store' = Reconcile(req'),
         ~ WithPolish => pinned' \subseteq Remembered(req'),
         UNCHANGED <<first, next>>, pc' = "send"
  PROVE  Lists' /\ TaskHeld
<1>1. PICK M : M = Numbered(next)
  OBVIOUS
<1>2. /\ req' \in Seq(M) /\ Framed(req', k) /\ Chained(req') /\ Unique(req') /\ Tidy(req', k)
      /\ \A id : Complete(ToSet(req'), first, id, {})
  BY <1>1 DEF Ready
<1>3. /\ store' \in Seq(M) /\ \A m \in ToSet(store') : Storable(m)
      /\ Sound(store') /\ Serves(req', store') /\ Remembered(req') = Remembered(store')
      /\ store'[FirstTask(store')] = req'[k]
  BY <1>2, ReconciledServes
<1>4. FirstTask(req') = k
  BY <1>2, FramedFirst
<1>5. Serves(req, store)
  BY NothingOwed
<1>6. Working' /\ ~ Gathering' /\ Owed' = {}
  BY DEF Working, Gathering, Owed
<1>7. ListTypes'
  BY <1>1, <1>2, <1>3 DEF ListTypes
<1>8. ListsKept'
  BY <1>2, <1>3, <1>6 DEF ListsKept
<1>9. NotesPlaced'
  BY <1>2, <1>4 DEF NotesPlaced
<1>10. NotesKept'
  BY <1>3 DEF NotesKept
<1>11. TaskHeld
  BY <1>3, <1>5 DEF TaskHeld, Serves
<1> QED BY <1>6, <1>7, <1>8, <1>9, <1>10, <1>11 DEF Lists, RoundOpen

\* The request of a turn that owes nothing is ready, and so is each trim of it.
LEMMA TrimReady ==
  ASSUME Lists, OtherTypes, Working, ~ Gathering, pc # "top", NEW t \in Trims(req)
  PROVE  /\ Ready(Numbered(next), t, FirstTask(req), first)
         /\ t[FirstTask(req)] = req[FirstTask(req)]
         /\ Remembered(req) \subseteq Remembered(t)
<1>1. PICK M : M = Numbered(next)
  OBVIOUS
<1>2. Pool(M) /\ req \in Seq(M)
  BY <1>1, NumberedPool DEF Lists, ListTypes, OtherTypes
<1>3. PICK k : k = FirstTask(req)
  OBVIOUS
<1>4. /\ Framed(req, k) /\ Chained(req) /\ Unique(req) /\ Tidy(req, k)
      /\ \A id : Complete(ToSet(req), first, id, {})
  BY <1>3, NothingOwed DEF Serves, Lists, NotesPlaced
<1>5. /\ t \in Seq(M) /\ Framed(t, k) /\ t[k] = req[k] /\ Chained(t) /\ Unique(t)
      /\ NoteIds(req) \cup BriefNotes(req) \subseteq NoteIds(t) \cup BriefNotes(t)
      /\ Tidy(t, k)
      /\ \A id : Complete(ToSet(t), first, id, {})
  BY <1>2, <1>4, Trimmed
<1> QED BY <1>1, <1>3, <1>5 DEF Ready, Remembered

LEMMA OverflowLists == ASSUME Lists, OtherTypes, Overflow PROVE Lists' /\ TaskHeld
<1>1. /\ pc = "send" /\ pc' = "send" /\ req' \in Trims(req) /\ store' = Reconcile(req')
      /\ UNCHANGED <<first, next, pinned>>
  BY DEF Overflow, TrimmedStore, countVars
<1>2. Working /\ ~ Gathering
  BY <1>1 DEF Working, Gathering
<1>3. /\ Ready(Numbered(next), req', FirstTask(req), first)
      /\ req'[FirstTask(req)] = req[FirstTask(req)]
      /\ Remembered(req) \subseteq Remembered(req')
  BY <1>1, <1>2, TrimReady
<1>4. ~ WithPolish => pinned' \subseteq Remembered(req')
  BY <1>1, <1>2, <1>3 DEF Lists, NotesKept
<1> QED BY <1>1, <1>2, <1>3, <1>4, ReconciledLists

LEMMA TrimAndSendLists == ASSUME Lists, OtherTypes, TrimAndSend PROVE Lists' /\ TaskHeld
<1>1. /\ pc = "rest" /\ pc' = "send" /\ store' = Reconcile(req') /\ UNCHANGED <<first, next>>
  BY DEF TrimAndSend, TrimmedStore
<1>2. Working /\ ~ Gathering
  BY <1>1 DEF Working, Gathering
<1>3. PICK t \in Trims(req) : \E p \in Polished(t) :
         \/ req' = p /\ UNCHANGED pinned
         \/ \E n \in Notes : req' = ApplyNote(p, n, NoteCap) /\ pinned' = pinned \cup {n}
  BY DEF TrimAndSend
<1>4. PICK p \in Polished(t) :
         \/ req' = p /\ UNCHANGED pinned
         \/ \E n \in Notes : req' = ApplyNote(p, n, NoteCap) /\ pinned' = pinned \cup {n}
  BY <1>3
<1>5. PICK M : M = Numbered(next)
  OBVIOUS
<1>6. Pool(M)
  BY <1>5, NumberedPool DEF OtherTypes
<1>7. PICK k : k = FirstTask(req)
  OBVIOUS
<1>8. Ready(M, t, k, first) /\ t[k] = req[k] /\ Remembered(req) \subseteq Remembered(t)
  BY <1>1, <1>2, <1>5, <1>7, TrimReady
<1>9. Ready(M, p, k, first) /\ p[k] = req[k] /\ (~ WithPolish => p = t)
  BY <1>6, <1>8, PolishedIs
<1>10. ~ WithPolish => pinned \subseteq Remembered(p)
  BY <1>2, <1>8, <1>9 DEF Lists, NotesKept
<1>11. CASE req' = p /\ UNCHANGED pinned
  BY <1>1, <1>2, <1>5, <1>7, <1>9, <1>10, <1>11, ReconciledLists
<1>12. ASSUME NEW n \in Notes, req' = ApplyNote(p, n, NoteCap), pinned' = pinned \cup {n}
       PROVE  Lists' /\ TaskHeld
  <2>1. /\ p \in Seq(M) /\ Framed(p, k) /\ Chained(p) /\ Unique(p) /\ Tidy(p, k)
        /\ \A id : Complete(ToSet(p), first, id, {})
    BY <1>9 DEF Ready
  <2>2. PICK r : r = ApplyNote(p, n, NoteCap)
    OBVIOUS
  <2>3. PICK j : j = FirstTask(r)
    OBVIOUS
  <2>4. /\ r \in Seq(M) /\ Framed(r, j) /\ r[j] = p[k] /\ Chained(r) /\ Tidy(r, j)
        /\ Within(r, Lasting(M)) = Within(p, Lasting(M))
        /\ NoteIds(p) \cup BriefNotes(p) \cup {n} \subseteq NoteIds(r) \cup BriefNotes(r)
    BY <1>6, <2>1, <2>2, <2>3, NoteApplied
  <2>5. Unique(r) /\ \A id : Complete(ToSet(r), first, id, {})
    BY <2>1, <2>4, SameRounds
  <2>6. Ready(M, req', j, first) /\ req'[j] = req[k]
    BY <1>9, <1>12, <2>2, <2>4, <2>5 DEF Ready
  <2>7. ~ WithPolish => pinned' \subseteq Remembered(req')
    BY <1>10, <1>12, <2>2, <2>4 DEF Remembered
  <2> QED BY <1>1, <1>2, <1>5, <1>7, <2>6, <2>7, ReconciledLists
<1> QED BY <1>4, <1>11, <1>12

\* The injected messages, as entries of the lists.
LEMMA HeardIs ==
  ASSUME OtherTypes
  PROVE  /\ AsUsers(Heard) \in Seq(Numbered(next))
         /\ \A m \in ToSet(AsUsers(Heard)) : Opened(m)
<1>1. next \in Nat \ {0} /\ Heard \in Seq(1..next-1)
  <2>1. next \in Nat \ {0} /\ inbox \in Seq(1..next-1) BY DEF OtherTypes
  <2>2. CASE hop <= 1
    <3>1. Heard = inbox BY <2>2 DEF Heard
    <3> QED BY <2>1, <3>1
  <2>3. CASE ~ (hop <= 1)
    <3>1. Heard = <<>> BY <2>3 DEF Heard
    <3>2. <<>> \in Seq(1..next-1) OBVIOUS
    <3> QED BY <2>1, <3>1, <3>2
  <2> QED BY <2>2, <2>3
<1>2. PICK h : h = Heard
  OBVIOUS
<1>3. PICK u : u = AsUsers(h)
  OBVIOUS
<1>4. h \in Seq(1..next-1) /\ DOMAIN h = 1..Len(h) /\ Len(h) \in Nat
  BY <1>1, <1>2
<1>5. \A i \in 1..Len(h) : Msg("user", h[i], {}) \in Numbered(next)
  <2>1. \A i \in 1..Len(h) : h[i] \in 0..next-1 BY <1>1, <1>4
  <2> QED BY <1>1, <2>1, NumberedMsg
<1>6. u = [i \in 1..Len(h) |-> Msg("user", h[i], {})]
  BY <1>3, <1>4 DEF AsUsers
<1>7. u \in Seq(Numbered(next)) /\ Len(u) = Len(h)
  BY <1>4, <1>5, <1>6
<1>8. \A m \in ToSet(u) : Opened(m)
  <2>1. ToSet(u) = {u[i] : i \in 1..Len(u)} BY <1>7, SetType
  <2>2. \A i \in 1..Len(h) : u[i].kind = "user" BY <1>6, MsgIs
  <2> QED BY <1>7, <2>1, <2>2 DEF Opened
<1> QED BY <1>2, <1>3, <1>7, <1>8

\* The store takes the note's text at its end.
LEMMA NoteRecorded ==
  ASSUME NEW M, Pool(M), NEW s \in Seq(M), Sound(s), s # <<>>, NEW n \in Notes,
         NEW t, t = RecordNote(s, n)
  PROVE  /\ t \in Seq(M) /\ Continues(s, t) /\ Body(t) = Body(s)
         /\ n \in Remembered(t)
         /\ (\A m \in ToSet(s) : Storable(m)) => \A m \in ToSet(t) : Storable(m)
<1>1. PICK e \in M : e = Msg("note", n, {})
  BY DEF Pool
<1>2. IsNote(e) /\ e.id = n
  BY <1>1, MsgIs DEF IsNote
<1>3. Storable(e) /\ ~ IsResult(e) /\ ~ IsCall(e)
  BY <1>2, KindsApart
<1>4. PICK v \in Seq(M) : v = <<e>> /\ Append(s, e) = s \o v /\ ToSet(v) = {e} /\ Len(v) = 1
                          /\ v[1] = e
  BY OneMore
<1>5. t = s \o v
  BY <1>1, <1>4 DEF RecordNote
<1>6. Chained(s \o v) /\ Unique(s \o v)
  <2>1. Chained(s) /\ Unique(s) BY DEF Sound
  <2>2. Chained(v) BY <1>3, <1>4, PlainChained
  <2> QED BY <1>3, <1>4, <2>1, <2>2, ChainedCat, UniqueCat
<1>7. Continues(s, s \o v)
  BY <1>6, GrownStore
<1>8. Body(s \o v) = Body(s)
  <2>1. \A m \in ToSet(v) : m \notin Lasting(M) BY <1>2, <1>4 DEF Lasting
  <2> QED BY <2>1, BodySkip
<1>9. s \o v \in Seq(M) /\ ToSet(s \o v) = ToSet(s) \cup ToSet(v)
  BY CatSet, ConcatProperties
<1>10. e \in ToSet(t) /\ \A m \in ToSet(t) : m \in ToSet(s) \/ m = e
  BY <1>4, <1>5, <1>9
<1>11. n \in Remembered(t)
  BY <1>2, <1>10 DEF Remembered, NoteIds
<1>12. t \in Seq(M) /\ Continues(s, t) /\ Body(t) = Body(s)
  BY Zenon, <1>5, <1>7, <1>8, <1>9
<1> QED BY <1>3, <1>10, <1>11, <1>12

LEMMA TopLists == ASSUME Lists, OtherTypes, Top PROVE Lists' /\ TaskHeld
<1>1. /\ pc = "top" /\ pc' \in {"mark", "switch", "rest"} /\ UNCHANGED <<first, next, text>>
  BY DEF Top, Decide, roundVars
<1>2. Working /\ ~ Gathering /\ Working' /\ ~ Gathering' /\ Owed' = {}
  BY <1>1 DEF Working, Gathering, Owed
<1>3. PICK M : M = Numbered(next)
  OBVIOUS
<1>4. PICK u : u = AsUsers(Heard)
  OBVIOUS
<1>5. /\ Pool(M) /\ req \in Seq(M) /\ store \in Seq(M) /\ u \in Seq(M)
      /\ \A m \in ToSet(store) : Storable(m)
      /\ \A m \in ToSet(u) : Opened(m)
  BY <1>3, <1>4, NumberedPool, HeardIs DEF Lists, ListTypes, OtherTypes
<1>6. \A m \in ToSet(u) : Storable(m) /\ ~ IsCall(m) /\ ~ IsResult(m) /\ ~ IsNote(m)
  BY <1>5, KindsApart
<1>7. /\ Serves(req, store) /\ Sound(store)
      /\ \A id : Complete(ToSet(req), first, id, {})
  BY <1>2, NothingOwed DEF Lists, ListsKept
<1>8. /\ Chained(req) /\ Unique(req) /\ Framed(req, FirstTask(req)) /\ store # <<>>
      /\ Chained(store) /\ Unique(store)
  BY <1>7 DEF Serves, Sound
<1>9. PICK r : r = req \o u
  OBVIOUS
<1>10. PICK s : s = store \o u
  OBVIOUS
<1>11. r \in Seq(M) /\ s \in Seq(M) /\ Serves(r, s) /\ Continues(store, s)
  <2>1. Chained(u) BY <1>5, <1>6, PlainChained
  <2>2. Chained(req \o u) /\ Chained(store \o u) BY <1>5, <1>8, <2>1, ChainedCat
  <2>3. Unique(req \o u) /\ Unique(store \o u) BY <1>5, <1>6, <1>8, UniqueCat
  <2>4. Serves(req \o u, store \o u) BY <1>5, <1>7, <2>2, <2>3, GrownBoth
  <2>5. Continues(store, store \o u) BY <1>5, <1>7, <1>8, <2>2, <2>3, GrownStore
  <2>6. req \o u \in Seq(M) /\ store \o u \in Seq(M) BY <1>5, ConcatProperties
  <2> QED BY Zenon, <1>9, <1>10, <2>4, <2>5, <2>6
<1>12. ToSet(r) = ToSet(req) \cup ToSet(u) /\ ToSet(s) = ToSet(store) \cup ToSet(u)
  <2>1. ToSet(req \o u) = ToSet(req) \cup ToSet(u) /\ ToSet(store \o u) = ToSet(store) \cup ToSet(u)
    BY <1>5, CatSet
  <2> QED BY <1>9, <1>10, <2>1
<1>13. \A id : Complete(ToSet(r), first, id, {})
  <2>1. \A m \in ToSet(u) : ~ IsCall(m) /\ ~ IsResult(m) BY <1>6
  <2>2. \A id : Complete(ToSet(req) \cup ToSet(u), first, id, {}) BY <1>7, <2>1, CompleteMore
  <2> QED BY <1>12, <2>2
<1>14. PICK k : k = FirstTask(r)
  OBVIOUS
<1>15. /\ Framed(r, k) /\ r[k] = s[FirstTask(s)] /\ Chained(r) /\ Unique(r)
       /\ Sound(s) /\ s # <<>> /\ \A m \in ToSet(s) : Storable(m)
       /\ Body(r) = Body(s)
  BY <1>5, <1>6, <1>11, <1>12, <1>14 DEF Serves, Continues
<1>16. Remembered(req) \subseteq Remembered(r) /\ Remembered(store) \subseteq Remembered(s)
  BY <1>12, RememberedGrows
<1>17. ~ WithPolish => pinned \subseteq Remembered(r) /\ pinned \subseteq Remembered(s)
  BY <1>2, <1>16 DEF Lists, NotesKept
\* Whatever note was asked for, the request is put in order last.
<1>18. ASSUME NEW q \in Seq(M), NEW j, Framed(q, j), q[j] = r[k], Chained(q),
              Within(q, Lasting(M)) = Within(r, Lasting(M)), req' = ReanchorNotes(q),
              NEW t \in Seq(M), Continues(s, t), Body(t) = Body(s), store' = t,
              \A m \in ToSet(t) : Storable(m),
              ~ WithPolish => pinned' \subseteq Remembered(q) /\ pinned' \subseteq Remembered(t)
       PROVE  Lists' /\ TaskHeld
  <2>1. PICK p : p = ReanchorNotes(q)
    OBVIOUS
  <2>2. PICK i : i = FirstTask(p)
    OBVIOUS
  <2>3. /\ p \in Seq(M) /\ Framed(p, i) /\ p[i] = q[j] /\ Chained(p) /\ Tidy(p, i)
        /\ Within(p, Lasting(M)) = Within(q, Lasting(M))
    BY <1>18, <2>1, <2>2, Reanchored
  <2>4. ToSet(p) = ToSet(q)
    BY <1>18, <2>1, Reanchored
  <2>5. /\ Within(p, Lasting(M)) = Within(r, Lasting(M)) /\ p[i] = r[FirstTask(r)]
    BY <1>14, <1>18, <2>3
  <2>6. \A id : Serves(p, s) /\ Complete(ToSet(p), first, id, {})
    BY <1>11, <1>13, <2>2, <2>3, <2>5, ServesOn
  <2>7. t # <<>> /\ Sound(t) /\ t[FirstTask(t)] = s[FirstTask(s)]
    BY <1>15, <1>18 DEF Continues
  <2>8. Serves(p, t)
    BY <1>18, <2>6, <2>7 DEF Serves
  <2>9. req' = p
    BY <1>18, <2>1
  <2>10. ListTypes'
    BY <1>1, <1>3, <1>18, <2>3, <2>9 DEF ListTypes
  <2>11. ListsKept'
    BY <1>1, <1>2, <1>18, <2>6, <2>7, <2>8, <2>9 DEF ListsKept
  <2>12. NotesPlaced'
    BY <1>1, <2>2, <2>3, <2>9 DEF NotesPlaced
  <2>13. Remembered(p) = Remembered(q)
    BY <2>4 DEF Remembered, NoteIds, BriefNotes
  <2>14. NotesKept'
    BY <1>18, <2>9, <2>13 DEF NotesKept
  <2>15. TaskHeld
    BY <1>8, <1>11, <1>18, <2>7 DEF TaskHeld, Continues
  <2> QED BY <1>2, <2>10, <2>11, <2>12, <2>14, <2>15 DEF Lists, RoundOpen
<1>19. CASE req' = ReanchorNotes(r) /\ store' = s /\ UNCHANGED pinned
  <2>1. Continues(s, s) BY <1>15 DEF Continues
  <2> QED BY <1>11, <1>15, <1>17, <1>18, <1>19, <2>1
<1>20. ASSUME NEW n \in Notes, mailbox # {},
              req' = ReanchorNotes(ApplyNote(r, n, NoteCap)),
              store' = RecordNote(s, n), pinned' = pinned \cup {n}
       PROVE  Lists' /\ TaskHeld
  <2>1. Tidy(r, k)
    <3>1. Tidy(req, FirstTask(req)) BY <1>2, <1>20 DEF Lists, NotesPlaced
    <3>2. Tidy(req \o u, FirstTask(req)) BY <1>5, <1>6, <3>1, NotesBehind
    <3>3. FirstTask(req \o u) = FirstTask(req) BY <1>5, <1>8, RequestGrows
    <3> QED BY <1>9, <1>14, <3>2, <3>3
  <2>2. PICK q : q = ApplyNote(r, n, NoteCap)
    OBVIOUS
  <2>3. PICK j : j = FirstTask(q)
    OBVIOUS
  <2>4. /\ q \in Seq(M) /\ Framed(q, j) /\ q[j] = r[k] /\ Chained(q)
        /\ Within(q, Lasting(M)) = Within(r, Lasting(M))
        /\ NoteIds(r) \cup BriefNotes(r) \cup {n} \subseteq NoteIds(q) \cup BriefNotes(q)
    BY <1>5, <1>11, <1>15, <1>20, <2>1, <2>2, <2>3, NoteApplied
  <2>5. PICK t : t = RecordNote(s, n)
    OBVIOUS
  <2>6. /\ t \in Seq(M) /\ Continues(s, t) /\ Body(t) = Body(s) /\ n \in Remembered(t)
        /\ \A m \in ToSet(t) : Storable(m)
    BY <1>5, <1>11, <1>15, <1>20, <2>5, NoteRecorded
  <2>7. Remembered(r) \cup {n} \subseteq Remembered(q) /\ Remembered(s) \cup {n} \subseteq Remembered(t)
    BY <2>4, <2>6 DEF Remembered, Continues
  <2>8. ~ WithPolish => pinned' \subseteq Remembered(q) /\ pinned' \subseteq Remembered(t)
    BY <1>17, <1>20, <2>7
  <2> QED BY <1>18, <1>20, <2>2, <2>4, <2>5, <2>6, <2>8
<1>21. \/ req' = ReanchorNotes(r) /\ store' = s /\ UNCHANGED pinned
       \/ \E n \in Notes : /\ mailbox # {} /\ req' = ReanchorNotes(ApplyNote(r, n, NoteCap))
                           /\ store' = RecordNote(s, n) /\ pinned' = pinned \cup {n}
  <2>1. \/ req' = ReanchorNotes(r) /\ store' = s /\ UNCHANGED pinned
        \/ \E x \in Asked("note") : /\ req' = ReanchorNotes(ApplyNote(r, x.arg, NoteCap))
                                    /\ store' = RecordNote(s, x.arg) /\ pinned' = pinned \cup {x.arg}
    BY <1>4, <1>9, <1>10 DEF Top, Injected
  <2>2. \A x \in Asked("note") : x.arg \in Notes /\ mailbox # {}
    <3>1. mailbox \subseteq Requests BY DEF OtherTypes
    <3>2. \A x \in Requests : x.kind = "note" => x.arg \in Notes BY DEF Requests
    <3> QED BY <3>1, <3>2 DEF Asked
  <2> QED BY <2>1, <2>2
<1> QED BY <1>19, <1>20, <1>21

\* A new message of the assistant: it owes every call it has.
LEMMA CompleteCalls ==
  ASSUME NEW R, NEW e, ~ IsResult(e), NEW from,
         \A i : Complete(R, from, i, {}),
         \A m \in R : IsCall(m) \/ IsResult(m) => m.id # e.id
  PROVE  Complete(R \cup {e}, from, e.id, e.has)
<1>1. \A x : Answered(R \cup {e}, x) = Answered(R, x)
  BY DEF Answered
<1>2. ASSUME NEW m \in R \cup {e}, IsCall(m), m.id >= from
      PROVE  Answered(R \cup {e}, m.id)
               = {{c} : c \in m.has \ (IF m.id = e.id THEN e.has ELSE {})}
  <2>1. CASE m \in R
    <3>1. m.id # e.id BY <1>2, <2>1
    <3>2. PICK x : x # m.id OBVIOUS
    <3>3. Complete(R, from, x, {}) OBVIOUS
    <3>4. Answered(R, m.id) = {{c} : c \in m.has \ {}} BY <1>2, <2>1, <3>2, <3>3 DEF Complete
    <3> QED BY <1>1, <3>1, <3>4
  <2>2. CASE m = e
    <3>1. Answered(R, e.id) = {} BY DEF Answered
    <3>2. {{c} : c \in e.has \ e.has} = {} OBVIOUS
    <3> QED BY <1>1, <2>2, <3>1, <3>2
  <2> QED BY <1>2, <2>1, <2>2
<1> QED BY <1>2 DEF Complete

\* The request p and the store q are r and s with one more entry.
Grown(M, r, s, e, p, q) ==
  /\ Serves(p, q) /\ Continues(s, q)
  /\ p \in Seq(M) /\ q \in Seq(M) /\ p # <<>> /\ q # <<>> /\ Last(p) = e /\ Last(q) = e
  /\ ToSet(p) = ToSet(r) \cup {e} /\ ToSet(q) = ToSet(s) \cup {e}
  /\ Tidy(r, FirstTask(r)) => Tidy(p, FirstTask(p))

\* Both lists grow by the same entry: a message of the assistant, or a result of
\* the round at their end.
LEMMA BothAppend ==
  ASSUME NEW M, NEW r \in Seq(M), NEW s \in Seq(M), NEW e \in M, Serves(r, s), Sound(s),
         ~ IsNote(e),
         IsCall(e) => /\ \A m \in ToSet(r) : IsCall(m) => m.id # e.id
                      /\ \A m \in ToSet(s) : IsCall(m) => m.id # e.id,
         IsResult(e) => /\ r # <<>> /\ s # <<>> /\ Last(s) = Last(r) /\ Last(r).id = e.id
                        /\ IsCall(Last(r)) \/ IsResult(Last(r)),
         NEW p, p = Append(r, e), NEW q, q = Append(s, e)
  PROVE  Grown(M, r, s, e, p, q)
<1>1. PICK v \in Seq(M) : v = <<e>> /\ Append(r, e) = r \o v /\ ToSet(v) = {e} /\ Len(v) = 1
                          /\ v[1] = e
  BY OneMore
<1>2. Append(s, e) = s \o v
  BY <1>1, AppendIsConcat
<1>3. p = r \o v /\ q = s \o v
  BY <1>1, <1>2
<1>4. /\ Chained(r) /\ Unique(r) /\ Framed(r, FirstTask(r)) /\ s # <<>>
      /\ Chained(s) /\ Unique(s)
  BY DEF Serves, Sound
<1>5. Chained(r \o v) /\ Chained(s \o v)
  <2>1. Chained(Append(r, e)) BY <1>4, ChainedAppend
  <2>2. Chained(Append(s, e)) BY <1>4, ChainedAppend
  <2> QED BY <1>1, <1>2, <2>1, <2>2
<1>6. Unique(r \o v) /\ Unique(s \o v)
  <2>1. Unique(Append(r, e)) /\ Unique(Append(s, e)) BY <1>4, UniqueAppend
  <2> QED BY <1>1, <1>2, <2>1
<1>7. Serves(r \o v, s \o v)
  BY <1>5, <1>6, GrownBoth
<1>8. Continues(s, s \o v)
  BY <1>4, <1>5, <1>6, GrownStore
<1>9. Serves(p, q) /\ Continues(s, q)
  BY Zenon, <1>3, <1>7, <1>8
<1>10. ToSet(p) = ToSet(r) \cup {e} /\ ToSet(q) = ToSet(s) \cup {e}
  BY AppendSet
<1>11. p \in Seq(M) /\ q \in Seq(M) /\ p # <<>> /\ q # <<>> /\ Last(p) = e /\ Last(q) = e
  BY AppendProperties DEF Last
<1>12. ASSUME Tidy(r, FirstTask(r)) PROVE Tidy(p, FirstTask(p))
  <2>1. \A m \in ToSet(v) : ~ IsNote(m) BY <1>1
  <2>2. Tidy(r \o v, FirstTask(r)) BY <1>12, <2>1, NotesBehind
  <2>3. FirstTask(r \o v) = FirstTask(r) BY <1>4, RequestGrows
  <2> QED BY <1>3, <2>2, <2>3
<1> QED BY <1>9, <1>10, <1>11, <1>12 DEF Grown

\* The assistant's message, at the end of both lists.
LEMMA SaidKeeps ==
  ASSUME Lists, OtherTypes, Working, ~ Gathering, pc # "top",
         NEW has \in SUBSET (1..MaxCalls), Said(has), UNCHANGED first,
         NEW e, e = Msg("assistant", next, has)
  PROVE  /\ ListTypes' /\ Sound(store') /\ Serves(req', store')
         /\ Complete(ToSet(req'), first, next, has)
         /\ e \in ToSet(req') /\ Last(req') = e /\ Last(store') = e
         /\ req' # <<>> /\ store' # <<>>
         /\ Tidy(req', FirstTask(req'))
         /\ Remembered(req) \subseteq Remembered(req')
         /\ Remembered(store) \subseteq Remembered(store')
         /\ TaskHeld
<1>1. /\ next \in Nat \ {0} /\ Sound(store)
      /\ store \in Seq(Numbered(next)) /\ req \in Seq(Numbered(next))
      /\ \A m \in ToSet(store) : Storable(m)
  BY DEF Lists, ListTypes, ListsKept, OtherTypes
<1>2. store' = Append(store, e) /\ req' = Append(req, e) /\ next' = next + 1
  BY DEF Said
<1>3. PICK M : M = Numbered(next + 1)
  OBVIOUS
<1>4. store \in Seq(M) /\ req \in Seq(M)
  <2>1. Numbered(next) \subseteq M BY <1>1, <1>3, NumberedGrows
  <2> QED BY <1>1, <2>1, SeqGrows
<1>5. e \in M
  <2>1. next + 1 \in Nat \ {0} /\ next \in 1..(next+1)-1 BY <1>1
  <2>2. e \in Numbered(next + 1) BY <2>1, NumberedMsg
  <2> QED BY <1>3, <2>2
<1>6. e.kind = "assistant" /\ e.id = next /\ e.has = has
  BY MsgIs
<1>7. Storable(e) /\ ~ IsResult(e) /\ ~ IsNote(e)
  BY <1>6 DEF Storable, IsResult, IsNote
<1>8. /\ \A m \in ToSet(store) : IsCall(m) \/ IsResult(m) => m.id # next
      /\ \A m \in ToSet(req) : IsCall(m) \/ IsResult(m) => m.id # next
  <2>1. \A m \in Numbered(next) : IsCall(m) \/ IsResult(m) => m.id # next
    <3>1. \A m \in Numbered(next) : IsCall(m) \/ IsResult(m) => m.id \in 1..next-1
      BY <1>1, NumberedMsg
    <3> QED BY <1>1, <3>1
  <2>2. ToSet(store) \subseteq Numbered(next) /\ ToSet(req) \subseteq Numbered(next)
    BY <1>1, SetType
  <2> QED BY <2>1, <2>2
<1>9. Serves(req, store) /\ \A id : Complete(ToSet(req), first, id, {})
  BY NothingOwed
<1>10. /\ Serves(req', store') /\ Continues(store, store')
       /\ req' \in Seq(M) /\ store' \in Seq(M) /\ req' # <<>> /\ store' # <<>>
       /\ Last(req') = e /\ Last(store') = e
       /\ ToSet(req') = ToSet(req) \cup {e} /\ ToSet(store') = ToSet(store) \cup {e}
       /\ Tidy(req, FirstTask(req)) => Tidy(req', FirstTask(req'))
  <2>1. /\ \A m \in ToSet(req) : IsCall(m) => m.id # e.id
        /\ \A m \in ToSet(store) : IsCall(m) => m.id # e.id
    BY <1>6, <1>8
  <2>2. Grown(M, req, store, e, req', store')
    BY <1>1, <1>2, <1>4, <1>5, <1>7, <1>9, <2>1, BothAppend
  <2> QED BY <2>2 DEF Grown
<1>11. Complete(ToSet(req'), first, next, has)
  <2>1. PICK R : R = ToSet(req) OBVIOUS
  <2>2. \A m \in R : IsCall(m) \/ IsResult(m) => m.id # e.id BY <1>6, <1>8, <2>1
  <2>3. \A i : Complete(R, first, i, {}) BY <1>9, <2>1
  <2>4. Complete(R \cup {e}, first, e.id, e.has) BY <1>7, <2>2, <2>3, CompleteCalls
  <2> QED BY <1>6, <1>10, <2>1, <2>4
<1>12. ListTypes'
  BY <1>1, <1>2, <1>3, <1>7, <1>10 DEF ListTypes
<1>13. Tidy(req', FirstTask(req'))
  BY <1>10 DEF Lists, NotesPlaced
<1>14. Remembered(req) \subseteq Remembered(req')
  BY <1>10, RememberedGrows
<1>15. Sound(store') /\ TaskHeld /\ Remembered(store) \subseteq Remembered(store')
  BY <1>10 DEF Continues, TaskHeld
<1> QED BY <1>10, <1>11, <1>12, <1>13, <1>14, <1>15

LEMMA AnswerLists == ASSUME Lists, OtherTypes, Answer PROVE Lists' /\ TaskHeld
<1>1. /\ pc = "send" /\ pc' = "judge"
      /\ UNCHANGED <<first, pinned, todo, text, mailbox, late>>
  BY DEF Answer, boxVars
<1>2. Working /\ ~ Gathering /\ Working' /\ ~ Gathering' /\ Owed' = {}
  BY <1>1 DEF Working, Gathering, Owed
<1>3. CASE UNCHANGED <<req, store, next>>
  <2>1. next \in Nat \ {0} BY DEF OtherTypes
  <2>2. Lists' BY <1>1, <1>2, <1>3, <2>1, ListsStay
  <2> QED BY <1>3, <2>2 DEF TaskHeld
<1>4. CASE Said({})
  <2>1. PICK e : e = Msg("assistant", next, {})
    OBVIOUS
  <2>2. {} \in SUBSET (1..MaxCalls) /\ pc # "top"
    BY <1>1
  <2>3. /\ ListTypes' /\ Sound(store') /\ Serves(req', store')
        /\ Complete(ToSet(req'), first, next, {})
        /\ Tidy(req', FirstTask(req'))
        /\ Remembered(req) \subseteq Remembered(req')
        /\ Remembered(store) \subseteq Remembered(store')
        /\ TaskHeld
    BY <1>1, <1>2, <1>4, <2>1, <2>2, SaidKeeps
  <2>4. \A id : Complete(ToSet(req'), first, id, {})
    BY <2>3, CompleteNoDue
  <2>5. ListsKept'
    BY <1>1, <1>2, <2>3, <2>4 DEF ListsKept
  <2>6. NotesPlaced'
    BY <1>1, <2>3 DEF NotesPlaced
  <2>7. NotesKept'
    BY <1>1, <1>2, <2>3 DEF NotesKept, Lists
  <2> QED BY <1>2, <2>3, <2>5, <2>6, <2>7 DEF Lists, RoundOpen
<1> QED BY <1>3, <1>4 DEF Answer

LEMMA AnswerWithCallsLists == ASSUME Lists, OtherTypes, AnswerWithCalls PROVE Lists' /\ TaskHeld
<1>1. /\ pc = "send" /\ pc' = "tools"
      /\ UNCHANGED <<first, pinned, mailbox, late>>
  BY DEF AnswerWithCalls, boxVars
<1>2. Working /\ ~ Gathering /\ Working' /\ Gathering' /\ pc # "top"
  BY <1>1 DEF Working, Gathering
<1>3. PICK n \in 1..MaxCalls :
         todo' = 1..n /\ \/ text' = FALSE /\ Said(1..n)
                         \/ text' = TRUE /\ Said({})
  BY DEF AnswerWithCalls
<1>4. MaxCalls \in Nat /\ first \in 1..next /\ next \in Nat
  BY BoundAssumption DEF OtherTypes
<1>5. 1 \in 1..n /\ 1..n \in SUBSET (1..MaxCalls) /\ todo' # {}
  BY <1>3, <1>4
<1>6. CASE text' = FALSE /\ Said(1..n)
  <2>1. PICK e : e = Msg("assistant", next, 1..n)
    OBVIOUS
  <2>2. /\ ListTypes' /\ Sound(store') /\ Serves(req', store')
        /\ Complete(ToSet(req'), first, next, 1..n)
        /\ e \in ToSet(req') /\ Last(req') = e /\ Last(store') = e
        /\ req' # <<>> /\ store' # <<>>
        /\ Tidy(req', FirstTask(req'))
        /\ Remembered(req) \subseteq Remembered(req')
        /\ Remembered(store) \subseteq Remembered(store')
        /\ TaskHeld
    BY <1>1, <1>2, <1>5, <1>6, <2>1, SaidKeeps
  <2>3. e.kind = "assistant" /\ e.id = next /\ e.has = 1..n
    BY <2>1, MsgIs
  <2>4. IsCall(e) /\ e.id >= first
    BY <1>4, <1>5, <2>3 DEF IsCall
  <2>5. Owed' = 1..n
    BY <1>2, <1>3, <1>6 DEF Owed
  <2>6. ListsKept'
    BY <1>1, <2>2, <2>3, <2>5 DEF ListsKept
  <2>7. RoundOpen'
    BY <1>1, <1>3, <1>5, <1>6, <2>2, <2>3, <2>4 DEF RoundOpen
  <2>8. NotesPlaced'
    BY <1>1, <2>2 DEF NotesPlaced
  <2>9. NotesKept'
    BY <1>1, <1>2, <2>2 DEF NotesKept, Lists
  <2> QED BY <2>2, <2>6, <2>7, <2>8, <2>9 DEF Lists
<1>7. CASE text' = TRUE /\ Said({})
  <2>1. PICK e : e = Msg("assistant", next, {})
    OBVIOUS
  <2>2. {} \in SUBSET (1..MaxCalls)
    OBVIOUS
  <2>3. /\ ListTypes' /\ Sound(store') /\ Serves(req', store')
        /\ Complete(ToSet(req'), first, next, {})
        /\ Tidy(req', FirstTask(req'))
        /\ Remembered(req) \subseteq Remembered(req')
        /\ Remembered(store) \subseteq Remembered(store')
        /\ TaskHeld
    BY <1>1, <1>2, <1>7, <2>1, <2>2, SaidKeeps
  <2>4. \A id : Complete(ToSet(req'), first, id, {})
    BY <2>3, CompleteNoDue
  <2>5. Owed' = {}
    BY <1>7 DEF Owed
  <2>6. ListsKept'
    BY <1>1, <2>3, <2>4, <2>5 DEF ListsKept
  <2>7. RoundOpen'
    BY <1>5, <1>7 DEF RoundOpen
  <2>8. NotesPlaced'
    BY <1>1, <2>3 DEF NotesPlaced
  <2>9. NotesKept'
    BY <1>1, <1>2, <2>3 DEF NotesKept, Lists
  <2> QED BY <2>3, <2>6, <2>7, <2>8, <2>9 DEF Lists
<1> QED BY <1>3, <1>6, <1>7

\* A result is in: the round owes one call less.
LEMMA CompleteResult ==
  ASSUME NEW R, NEW e, IsResult(e), NEW c, e.has = {c}, NEW from, NEW due, c \in due,
         Complete(R, from, e.id, due),
         \A m \in R : IsCall(m) /\ m.id = e.id => c \in m.has
  PROVE  Complete(R \cup {e}, from, e.id, due \ {c})
<1>1. \A x : x # e.id => Answered(R \cup {e}, x) = Answered(R, x)
  BY DEF Answered
<1>2. Answered(R \cup {e}, e.id) = Answered(R, e.id) \cup {{c}}
  BY DEF Answered
<1>3. ASSUME NEW m \in R \cup {e}, IsCall(m), m.id >= from
      PROVE  Answered(R \cup {e}, m.id)
               = {{x} : x \in m.has \ (IF m.id = e.id THEN due \ {c} ELSE {})}
  <2>1. m \in R
    BY <1>3, NotBoth
  <2>2. Answered(R, m.id) = {{x} : x \in m.has \ (IF m.id = e.id THEN due ELSE {})}
    BY <1>3, <2>1 DEF Complete
  <2>3. CASE m.id # e.id
    BY <1>1, <2>2, <2>3
  <2>4. CASE m.id = e.id
    <3>1. c \in m.has BY <1>3, <2>1, <2>4
    <3>2. Answered(R, e.id) = {{x} : x \in m.has \ due} BY <2>2, <2>4
    <3>3. m.has \ (due \ {c}) = (m.has \ due) \cup {c} BY <3>1
    <3>4. {{x} : x \in (m.has \ due) \cup {c}} = {{x} : x \in m.has \ due} \cup {{c}} OBVIOUS
    <3> QED BY <1>2, <2>4, <3>2, <3>3, <3>4
  <2> QED BY <2>3, <2>4
<1> QED BY <1>3 DEF Complete

\* The last calls of a list that ends in a call or a result are those it belongs to.
LEMMA RoundAtEnd ==
  ASSUME NEW S, NEW s \in Seq(S), s # <<>>, Chained(s), IsCall(Last(s)) \/ IsResult(Last(s))
  PROVE  s[SelectLastInSeq(s, IsCall)].id = Last(s).id
<1>1. Len(s) \in 1..Len(s) /\ Last(s) = s[Len(s)]
  BY EmptySeq DEF Last
<1>2. CASE IsCall(Last(s))
  <2>1. IsCall(s[Len(s)]) /\ \A j \in Len(s)+1..Len(s) : ~ IsCall(s[j]) BY <1>1, <1>2
  <2>2. SelectLastInSeq(s, IsCall) = Len(s) BY <1>1, <2>1, LastCallIs
  <2> QED BY <1>1, <2>2
<1>3. CASE IsResult(Last(s))
  <2>1. PICK i \in 1..Len(s)-1 : /\ IsCall(s[i]) /\ s[i].id = s[Len(s)].id
                                 /\ \A k \in i+1..Len(s) : IsResult(s[k])
    BY <1>1, <1>3, CallOf
  <2>2. i \in 1..Len(s) /\ \A j \in i+1..Len(s) : ~ IsCall(s[j])
    BY <1>1, <2>1, NotBoth
  <2>3. SelectLastInSeq(s, IsCall) = i BY <2>1, <2>2, LastCallIs
  <2> QED BY <1>1, <2>1, <2>3
<1> QED BY <1>2, <1>3

\* Calls with one number are one message.
LEMMA SameCall ==
  ASSUME NEW S, NEW s \in Seq(S), Unique(s), NEW m \in ToSet(s), NEW x \in ToSet(s),
         IsCall(m), IsCall(x), m.id = x.id
  PROVE  m = x
<1>1. PICK i \in 1..Len(s) : m = s[i]
  BY SetType
<1>2. PICK j \in 1..Len(s) : x = s[j]
  BY SetType
<1> QED BY <1>1, <1>2 DEF Unique

LEMMA PairIs ==
  ASSUME NEW S, NEW s \in Seq(S), NEW a \in S, NEW e \in S
  PROVE  s \o <<a, e>> = Append(Append(s, a), e) /\ s \o <<e>> = Append(s, e)
<1>1. s \o <<e>> = Append(s, e) /\ s \o <<a>> = Append(s, a)
  BY AppendIsConcat
<1>2. <<a, e>> = Append(<<a>>, e)
  OBVIOUS
<1>3. <<a>> \in Seq(S)
  OBVIOUS
<1>4. s \o Append(<<a>>, e) = Append(s \o <<a>>, e)
  BY <1>3, AppendOfConcat
<1> QED BY Zenon, <1>1, <1>2, <1>4

\* What a collected result is about: the oldest call left.
LEMMA CollectIs ==
  ASSUME Lists, OtherTypes, Collect
  PROVE  \E c \in todo :
           /\ req' = req \o Pair(IF text THEN next ELSE RoundId, c)
           /\ store' = store \o Pair(IF text THEN next ELSE RoundId, c)
           /\ c \in 1..MaxCalls
           /\ todo' = todo \ {c}
           /\ pc' = IF todo = {c} THEN "top" ELSE "tools"
           /\ text' = (text /\ todo # {c})
<1>1. pc = "await" /\ todo # {} /\ todo \subseteq 1..MaxCalls
  BY DEF Collect, Lists, RoundOpen, Gathering, OtherTypes
<1>2. PICK c : c = CHOOSE i \in todo : \A j \in todo : i <= j
  OBVIOUS
<1>3. \E i \in todo : \A j \in todo : i <= j
  <2>1. todo \in SUBSET Nat BY <1>1
  <2> QED BY <1>1, <2>1, Least
<1>4. c \in todo
  BY <1>2, <1>3
<1>5. /\ req' = req \o Pair(IF text THEN next ELSE RoundId, c)
      /\ store' = store \o Pair(IF text THEN next ELSE RoundId, c)
      /\ todo' = todo \ {c}
      /\ pc' = IF todo = {c} THEN "top" ELSE "tools"
      /\ text' = (text /\ todo # {c})
  BY <1>2 DEF Collect
<1> QED BY <1>1, <1>4, <1>5

LEMMA CollectNative == ASSUME Lists, OtherTypes, Collect, ~ text PROVE Lists' /\ TaskHeld
<1>1. pc = "await" /\ next' = next /\ UNCHANGED <<pinned, first>>
  BY DEF Collect
<1>2. Working /\ Gathering /\ Owed = todo
  BY <1>1 DEF Working, Gathering, Owed
<1>3. PICK c \in todo : /\ req' = req \o Pair(RoundId, c) /\ store' = store \o Pair(RoundId, c)
                        /\ c \in 1..MaxCalls
                        /\ todo' = todo \ {c} /\ text' = FALSE
                        /\ pc' = IF todo = {c} THEN "top" ELSE "tools"
  BY CollectIs
<1>4. PICK M : M = Numbered(next)
  OBVIOUS
<1>5. /\ next \in Nat \ {0} /\ Sound(store) /\ store \in Seq(M) /\ req \in Seq(M)
      /\ \A m \in ToSet(store) : Storable(m)
      /\ Serves(req, store) /\ Complete(ToSet(req), first, Last(req).id, todo)
  BY <1>2, <1>4 DEF Lists, ListTypes, ListsKept, OtherTypes
<1>6. /\ Last(store) = Last(req) /\ (IsCall(Last(req)) \/ IsResult(Last(req)))
      /\ req # <<>> /\ store # <<>>
  BY <1>2 DEF Lists, RoundOpen
<1>7. PICK m \in ToSet(req) : /\ IsCall(m) /\ m.id = Last(req).id
                              /\ m.id >= first /\ todo \subseteq m.has
  BY <1>2 DEF Lists, RoundOpen
<1>8. PICK d : d = Last(req).id
  OBVIOUS
<1>9. RoundId = d /\ Chained(req) /\ Unique(req)
  <2>1. Chained(req) /\ Unique(req) BY <1>5 DEF Serves
  <2> QED BY <1>5, <1>6, <1>8, <2>1, RoundAtEnd DEF RoundId
<1>10. d \in 1..next-1
  <2>1. Last(req) \in Numbered(next) BY <1>4, <1>5, <1>6, EmptySeq DEF Last
  <2> QED BY <1>5, <1>6, <1>8, <2>1, NumberedMsg
<1>11. PICK e : e = Msg("result", d, {c})
  OBVIOUS
<1>12. e \in M
  BY <1>3, <1>4, <1>5, <1>10, <1>11, NumberedMsg
<1>13. e.id = d /\ e.has = {c} /\ e.kind = "result"
  BY <1>11, MsgIs
<1>14. IsResult(e) /\ ~ IsCall(e) /\ ~ IsNote(e) /\ Storable(e)
  BY <1>13 DEF IsResult, IsCall, IsNote, Storable
<1>15. req' = Append(req, e) /\ store' = Append(store, e)
  <2>1. Pair(RoundId, c) = <<e>> BY <1>9, <1>11 DEF Pair
  <2> QED BY <1>3, <1>5, <1>12, <2>1, PairIs
<1>16. Grown(M, req, store, e, req', store')
  BY <1>5, <1>6, <1>8, <1>12, <1>13, <1>14, <1>15, BothAppend
<1>17. /\ Serves(req', store') /\ Continues(store, store')
       /\ req' \in Seq(M) /\ store' \in Seq(M)
       /\ req' # <<>> /\ store' # <<>> /\ Last(req') = e /\ Last(store') = e
       /\ ToSet(req') = ToSet(req) \cup {e} /\ ToSet(store') = ToSet(store) \cup {e}
       /\ Tidy(req, FirstTask(req)) => Tidy(req', FirstTask(req'))
  BY <1>16 DEF Grown
<1>18. Complete(ToSet(req'), first, d, todo \ {c})
  <2>1. \A x \in ToSet(req) : IsCall(x) /\ x.id = d => c \in x.has
    <3>1. \A x \in ToSet(req) : IsCall(x) /\ x.id = d => x = m
      BY <1>5, <1>7, <1>8, <1>9, SameCall
    <3> QED BY <1>3, <1>7, <3>1
  <2>2. PICK R : R = ToSet(req) OBVIOUS
  <2>3. /\ Complete(R, first, e.id, todo)
        /\ \A x \in R : IsCall(x) /\ x.id = e.id => c \in x.has
    BY <1>5, <1>8, <1>13, <2>1, <2>2
  <2>4. Complete(R \cup {e}, first, e.id, todo \ {c})
    BY <1>3, <1>13, <1>14, <2>3, CompleteResult
  <2> QED BY <1>13, <1>17, <2>2, <2>4
<1>19. Working' /\ Owed' = todo \ {c}
  BY <1>3 DEF Working, Owed, Gathering
<1>20. ListTypes'
  BY <1>1, <1>4, <1>5, <1>14, <1>17 DEF ListTypes
<1>21. ListsKept'
  BY <1>1, <1>13, <1>17, <1>18, <1>19 DEF ListsKept, Continues
<1>22. RoundOpen'
  <2>1. ASSUME Gathering' PROVE todo' # {}
    <3>1. todo # {c} BY <1>3, <2>1 DEF Gathering
    <3> QED BY <1>3, <3>1
  <2>2. m \in ToSet(req') /\ m.id = Last(req').id /\ todo' \subseteq m.has
    BY <1>3, <1>7, <1>8, <1>13, <1>17
  <2> QED BY <1>1, <1>7, <1>14, <1>17, <2>1, <2>2 DEF RoundOpen
<1>23. NotesPlaced'
  <2>1. Tidy(req, FirstTask(req)) BY <1>1, <1>2 DEF Lists, NotesPlaced
  <2> QED BY <1>3, <1>17, <2>1 DEF NotesPlaced
<1>24. NotesKept'
  <2>1. Remembered(req) \subseteq Remembered(req') BY <1>17, RememberedGrows
  <2> QED BY <1>1, <1>2, <1>17, <2>1 DEF Lists, NotesKept, Continues
<1>25. TaskHeld
  BY <1>17 DEF Continues, TaskHeld
<1> QED BY <1>20, <1>21, <1>22, <1>23, <1>24, <1>25 DEF Lists

LEMMA CollectText == ASSUME Lists, OtherTypes, Collect, text PROVE Lists' /\ TaskHeld
<1>1. pc = "await" /\ next' = next + 1 /\ UNCHANGED <<pinned, first>>
  BY DEF Collect
<1>2. Working /\ Owed = {}
  BY <1>1 DEF Working, Gathering, Owed
<1>3. PICK c \in todo : /\ req' = req \o Pair(next, c) /\ store' = store \o Pair(next, c)
                        /\ c \in 1..MaxCalls
                        /\ todo' = todo \ {c} /\ text' = (todo # {c})
                        /\ pc' = IF todo = {c} THEN "top" ELSE "tools"
  BY CollectIs
<1>4. PICK M : M = Numbered(next + 1)
  OBVIOUS
<1>5. /\ next \in Nat \ {0} /\ Sound(store) /\ \A m \in ToSet(store) : Storable(m)
      /\ Serves(req, store) /\ \A id : Complete(ToSet(req), first, id, {})
  BY <1>2, CompleteNoDue DEF Lists, ListTypes, ListsKept, OtherTypes
<1>6. store \in Seq(Numbered(next)) /\ req \in Seq(Numbered(next))
  BY DEF Lists, ListTypes
<1>7. store \in Seq(M) /\ req \in Seq(M)
  <2>1. Numbered(next) \subseteq M BY <1>4, <1>5, NumberedGrows
  <2> QED BY <1>6, <2>1, SeqGrows
<1>8. /\ \A m \in ToSet(store) : IsCall(m) \/ IsResult(m) => m.id # next
      /\ \A m \in ToSet(req) : IsCall(m) \/ IsResult(m) => m.id # next
  <2>1. \A m \in Numbered(next) : IsCall(m) \/ IsResult(m) => m.id # next
    <3>1. \A m \in Numbered(next) : IsCall(m) \/ IsResult(m) => m.id \in 1..next-1
      BY <1>5, NumberedMsg
    <3> QED BY <1>5, <3>1
  <2>2. ToSet(store) \subseteq Numbered(next) /\ ToSet(req) \subseteq Numbered(next)
    BY <1>6, SetType
  <2> QED BY <2>1, <2>2
<1>9. PICK a : a = Msg("assistant", next, {c})
  OBVIOUS
<1>10. PICK e : e = Msg("result", next, {c})
  OBVIOUS
<1>11. a \in M /\ e \in M
  <2>1. next + 1 \in Nat \ {0} /\ next \in 1..(next+1)-1 /\ {c} \in SUBSET (1..MaxCalls)
    BY <1>3, <1>5
  <2>2. Msg("assistant", next, {c}) \in Numbered(next + 1) BY <2>1, NumberedMsg
  <2>3. Msg("result", next, {c}) \in Numbered(next + 1) BY <1>3, <2>1, NumberedMsg
  <2> QED BY <1>4, <1>9, <1>10, <2>2, <2>3
<1>12. /\ a.kind = "assistant" /\ a.id = next /\ a.has = {c}
       /\ e.kind = "result" /\ e.id = next /\ e.has = {c}
  BY <1>9, <1>10, MsgIs
<1>13. /\ IsCall(a) /\ ~ IsResult(a) /\ ~ IsNote(a) /\ Storable(a)
       /\ IsResult(e) /\ ~ IsCall(e) /\ ~ IsNote(e) /\ Storable(e)
  BY <1>12 DEF IsResult, IsCall, IsNote, Storable
<1>14. PICK r : r = Append(req, a)
  OBVIOUS
<1>15. PICK s : s = Append(store, a)
  OBVIOUS
<1>16. req' = Append(r, e) /\ store' = Append(s, e)
  <2>1. Pair(next, c) = <<a, e>> BY <1>9, <1>10 DEF Pair
  <2>2. req \o <<a, e>> = Append(r, e) BY <1>7, <1>11, <1>14, PairIs
  <2>3. store \o <<a, e>> = Append(s, e) BY <1>7, <1>11, <1>15, PairIs
  <2> QED BY Zenon, <1>3, <2>1, <2>2, <2>3
\* First the call, then its result.
<1>17. Grown(M, req, store, a, r, s)
  <2>1. /\ \A m \in ToSet(req) : IsCall(m) => m.id # a.id
        /\ \A m \in ToSet(store) : IsCall(m) => m.id # a.id
    BY <1>8, <1>12
  <2> QED BY <1>5, <1>7, <1>11, <1>13, <1>14, <1>15, <2>1, BothAppend
<1>18. /\ Serves(r, s) /\ Continues(store, s) /\ Sound(s)
       /\ r \in Seq(M) /\ s \in Seq(M)
       /\ r # <<>> /\ s # <<>> /\ Last(r) = a /\ Last(s) = a
       /\ ToSet(r) = ToSet(req) \cup {a} /\ ToSet(s) = ToSet(store) \cup {a}
       /\ Tidy(req, FirstTask(req)) => Tidy(r, FirstTask(r))
  BY <1>17 DEF Grown, Continues
<1>19. Grown(M, r, s, e, req', store')
  <2>1. Last(s) = Last(r) /\ Last(r).id = e.id /\ IsCall(Last(r))
    BY <1>12, <1>13, <1>18
  <2> QED BY <1>11, <1>13, <1>16, <1>18, <2>1, BothAppend
<1>20. /\ Serves(req', store') /\ Continues(s, store')
       /\ req' \in Seq(M) /\ store' \in Seq(M)
       /\ ToSet(req') = ToSet(r) \cup {e} /\ ToSet(store') = ToSet(s) \cup {e}
       /\ Tidy(r, FirstTask(r)) => Tidy(req', FirstTask(req'))
  BY <1>19 DEF Grown
<1>21. \A id : Complete(ToSet(req'), first, id, {})
  <2>1. PICK R : R = ToSet(req) OBVIOUS
  <2>2. /\ \A m \in R : IsCall(m) \/ IsResult(m) => m.id # a.id
        /\ \A i : Complete(R, first, i, {})
    BY <1>5, <1>8, <1>12, <2>1
  <2>3. Complete(R \cup {a}, first, a.id, a.has) BY <1>13, <2>2, CompleteCalls
  <2>4. Complete(R \cup {a}, first, e.id, {c}) BY <1>12, <2>3
  <2>5. \A x \in R \cup {a} : IsCall(x) /\ x.id = e.id => c \in x.has BY <1>12, <2>2
  <2>6. PICK V : V = R \cup {a} OBVIOUS
  <2>7. Complete(V \cup {e}, first, e.id, {c} \ {c})
    BY <1>12, <1>13, <2>4, <2>5, <2>6, CompleteResult
  <2>8. {c} \ {c} = {} OBVIOUS
  <2>9. ToSet(req') = V \cup {e} BY <1>18, <1>20, <2>1, <2>6
  <2>10. Complete(ToSet(req'), first, e.id, {}) BY <2>7, <2>8, <2>9
  <2> QED BY <2>10, CompleteNoDue
<1>22. Working' /\ Owed' = {}
  BY <1>3 DEF Working, Owed, Gathering
<1>23. ListTypes'
  BY <1>1, <1>4, <1>5, <1>13, <1>18, <1>20 DEF ListTypes
<1>24. ListsKept'
  BY <1>1, <1>20, <1>21, <1>22 DEF ListsKept, Continues
<1>25. RoundOpen'
  BY <1>3 DEF RoundOpen, Gathering
<1>26. NotesPlaced'
  <2>1. Tidy(req, FirstTask(req)) BY <1>1, <1>2 DEF Lists, NotesPlaced
  <2> QED BY <1>3, <1>18, <1>20, <2>1 DEF NotesPlaced
<1>27. NotesKept'
  <2>1. ToSet(req) \subseteq ToSet(req') BY <1>18, <1>20
  <2>2. Remembered(req) \subseteq Remembered(req') BY <2>1, RememberedGrows
  <2> QED BY <1>1, <1>2, <1>18, <1>20, <2>2 DEF Lists, NotesKept, Continues
<1>28. TaskHeld
  BY <1>18, <1>20 DEF Continues, TaskHeld
<1> QED BY <1>23, <1>24, <1>25, <1>26, <1>27, <1>28 DEF Lists

-------------------------------------------------------------------------------
(* The other variables. *)

\* At most one request of a kind is queued.
LEMMA QueueTypes ==
  ASSUME NEW box \in SUBSET Requests, \A q, r \in box : q.kind = r.kind => q = r,
         NEW x \in Requests, NEW b, b = Queue(box, x)
  PROVE  b \subseteq Requests /\ \A q, r \in b : q.kind = r.kind => q = r
BY DEF Queue

\* Another message may get a number.
LEMMA NextGrows ==
  ASSUME OtherTypes, next' \in {next, next + 1}
  PROVE  /\ next' \in Nat \ {0} /\ first \in 1..next' /\ inbox \in Seq(1..next'-1)
         /\ unread \subseteq (1..next'-1) \X (1..MaxCalls)
         /\ next' = next + 1 => next \in 1..next'-1
         /\ 1..next-1 \subseteq 1..next'-1
<1>1. /\ next \in Nat \ {0} /\ inbox \in Seq(1..next-1) /\ first \in 1..next
      /\ unread \subseteq (1..next-1) \X (1..MaxCalls)
  BY DEF OtherTypes
<1>2. PICK n : n = next'
  OBVIOUS
<1>3. n \in {next, next + 1}
  BY <1>2
<1>4. n \in Nat \ {0} /\ 1..next-1 \subseteq 1..n-1 /\ (n = next + 1 => next \in 1..n-1)
  <2>1. CASE n = next BY <1>1, <2>1
  <2>2. CASE n = next + 1 BY <1>1, <2>2
  <2> QED BY <1>3, <2>1, <2>2
<1>5. first \in 1..n
  BY <1>1, <1>3
<1>6. inbox \in Seq(1..n-1)
  BY SMTT(30), <1>1, <1>4, SeqGrows
<1>7. unread \subseteq (1..n-1) \X (1..MaxCalls)
  BY <1>1, <1>4
<1> QED BY <1>2, <1>4, <1>5, <1>6, <1>7

\* Every action that lets the agent leave.
LEMMA LeavingTypes ==
  ASSUME OtherTypes, Leave, pc' \in {"idle", "drain"}, outcome' \in Ends,
         UNCHANGED <<inbox, stopped, countVars>>, said' \in Seq(Closings)
  PROVE  OtherTypes'
<1>1. /\ hop' = 0 /\ tries' = 0 /\ attempt' = 1 /\ todo' = {} /\ text' = FALSE
      /\ mailbox' = {} /\ late' = {} /\ unread' = {}
  BY DEF Leave
<1>2. UNCHANGED <<inbox, stopped, pinned, next, first, turns>>
  BY DEF countVars
<1>3. 0 \in 0..MaxDepth /\ 0 \in 0..MaxAttempts
  BY LimitAssumption
<1>4. /\ hop' \in 0..MaxDepth /\ tries' \in 0..MaxAttempts /\ attempt' \in 1..2
      /\ todo' \subseteq 1..MaxCalls /\ text' \in BOOLEAN
      /\ mailbox' \subseteq Requests /\ late' \subseteq Requests
      /\ \A q, r \in mailbox' : q.kind = r.kind => q = r
      /\ unread' \subseteq (1..next'-1) \X (1..MaxCalls)
  <2>1. hop' \in 0..MaxDepth /\ tries' \in 0..MaxAttempts /\ attempt' \in 1..2
    BY <1>1, <1>3
  <2>2. todo' \subseteq 1..MaxCalls /\ text' \in BOOLEAN
    BY <1>1
  <2>3. /\ mailbox' \subseteq Requests /\ late' \subseteq Requests
        /\ \A q, r \in mailbox' : q.kind = r.kind => q = r
        /\ unread' \subseteq (1..next'-1) \X (1..MaxCalls)
    BY <1>1, Zenon
  <2> QED BY <2>1, <2>2, <2>3
<1>5. /\ inbox' \in Seq(1..next'-1) /\ stopped' \in BOOLEAN /\ pinned' \subseteq Notes
      /\ next' \in Nat \ {0} /\ first' \in 1..next' /\ turns' \in 0..MaxTurns
  BY <1>2 DEF OtherTypes
<1> QED BY <1>4, <1>5 DEF OtherTypes

LEMMA LeaveTypes ==
  ASSUME OtherTypes, Dropped \/ TopStopped \/ SwitchRefused \/ TimesOut \/ CallFails
                       \/ CollectStopped
  PROVE  OtherTypes'
<1>1. /\ Leave /\ pc' \in {"idle", "drain"} /\ outcome' \in Ends
      /\ UNCHANGED <<inbox, stopped, countVars>> /\ UNCHANGED said
  BY DEF Dropped, TopStopped, SwitchRefused, TimesOut, CallFails, CollectStopped, End, Ends,
         userVars
<1>2. said' \in Seq(Closings)
  <2>1. said \in Seq(Closings) BY DEF OtherTypes
  <2> QED BY <1>1, <2>1
<1> QED BY <1>1, <1>2, LeavingTypes

LEMMA AcceptTypes == ASSUME OtherTypes, Accept PROVE OtherTypes'
<1>1. /\ Leave /\ pc' = "drain" /\ outcome' = "completed"
      /\ UNCHANGED <<inbox, stopped, countVars>> /\ said' = Append(said, "StreamComplete")
  BY DEF Accept, End, userVars
<1>2. said' \in Seq(Closings)
  <2>1. said \in Seq(Closings) BY DEF OtherTypes
  <2>2. PICK x \in Closings : x = "StreamComplete" BY DEF Closings
  <2>3. Append(said, x) \in Seq(Closings) BY <2>1, AppendProperties
  <2> QED BY <1>1, <2>2, <2>3
<1>3. outcome' \in Ends
  BY <1>1 DEF Ends
<1> QED BY <1>1, <1>2, <1>3, LeavingTypes

\* Where the tools and the judge leave the variables of the turn alone.
LEMMA UserTypes ==
  ASSUME OtherTypes, StartTurn \/ Inject \/ Stop \/ EngineDrains PROVE OtherTypes'
<1>1. CASE StartTurn
  <2>1. next \in Nat \ {0} /\ turns \in 0..MaxTurns /\ turns < MaxTurns
    BY <1>1 DEF OtherTypes, StartTurn
  <2>2. /\ next' = next + 1 /\ first' = next /\ turns' = turns + 1 /\ pc' = "top"
        /\ inbox' = <<>> /\ stopped' = FALSE /\ outcome' = "none" /\ said' = <<>>
        /\ UNCHANGED <<hop, tries, unread, attempt, todo, text, mailbox, late, pinned>>
    BY <1>1 DEF StartTurn, roundVars, boxVars
  <2>3. /\ next' \in Nat \ {0} /\ first' \in 1..next' /\ turns' \in 0..MaxTurns
        /\ 1..next-1 \subseteq 1..next'-1
    BY <2>1, <2>2, BoundAssumption
  <2>4. inbox' \in Seq(1..next'-1) /\ said' \in Seq(Closings)
    BY <2>2
  <2>5. unread' \subseteq (1..next'-1) \X (1..MaxCalls)
    BY <2>2, <2>3 DEF OtherTypes
  <2> QED BY <2>2, <2>3, <2>4, <2>5 DEF OtherTypes
<1>2. CASE Inject
  <2>2. /\ inbox' = Append(inbox, next) /\ next' = next + 1
        /\ UNCHANGED <<pc, hop, tries, unread, attempt, todo, text, mailbox, late, stopped,
                       outcome, said, pinned, first, turns>>
    BY <1>2 DEF Inject, agentVars, loopVars, roundVars, boxVars, endVars
  <2>3. /\ next' \in Nat \ {0} /\ first' \in 1..next' /\ inbox \in Seq(1..next'-1)
        /\ next \in 1..next'-1
    BY <2>2, NextGrows
  <2>4. inbox' \in Seq(1..next'-1)
    BY <2>2, <2>3, AppendProperties
  <2>5. unread' \subseteq (1..next'-1) \X (1..MaxCalls)
    BY <2>2, NextGrows
  <2> QED BY <2>2, <2>3, <2>4, <2>5 DEF OtherTypes
<1>3. CASE Stop
  BY <1>3 DEF Stop, OtherTypes, agentVars, loopVars, roundVars, boxVars, endVars, countVars
<1>4. CASE EngineDrains
  <2>1. <<>> \in Seq(1..next-1) OBVIOUS
  <2> QED BY <1>4, <2>1 DEF EngineDrains, OtherTypes, agentVars, loopVars, roundVars, boxVars,
                            endVars, countVars
<1> QED BY <1>1, <1>2, <1>3, <1>4

LEMMA LateTypes == ASSUME OtherTypes, LateRequest PROVE OtherTypes'
<1>1. PICK r \in late : mailbox' = Queue(mailbox, r) /\ late' = late \ {r}
  BY DEF LateRequest
<1>2. mailbox' \subseteq Requests /\ \A q, s \in mailbox' : q.kind = s.kind => q = s
  BY <1>1, QueueTypes DEF OtherTypes
<1> QED BY <1>1, <1>2 DEF LateRequest, OtherTypes, loopVars, roundVars, userVars, endVars, countVars

LEMMA TopTypes == ASSUME OtherTypes, Top PROVE OtherTypes'
<1>1. /\ mailbox' = {}
      /\ UNCHANGED <<hop, tries, unread, attempt, todo, text, late, stopped, said, next, first, turns>>
  BY DEF Top, roundVars
<1>2. inbox' \in Seq(1..next-1)
  <2>1. inbox' = <<>> \/ inbox' = inbox BY DEF Top
  <2>2. <<>> \in Seq(1..next-1) OBVIOUS
  <2>3. inbox \in Seq(1..next-1) BY DEF OtherTypes
  <2> QED BY <2>1, <2>2, <2>3
<1>3. pinned' \subseteq Notes
  <2>1. pinned \subseteq Notes /\ mailbox \subseteq Requests BY DEF OtherTypes
  <2>2. \A x \in Requests : x.kind = "note" => x.arg \in Notes BY DEF Requests
  <2>3. pinned' = pinned \/ \E x \in Asked("note") : pinned' = pinned \cup {x.arg} BY DEF Top
  <2>4. \A x \in Asked("note") : x.arg \in Notes BY <2>1, <2>2 DEF Asked
  <2> QED BY <2>1, <2>3, <2>4
<1>4. /\ pc' \in {"mark", "switch", "rest"}
      /\ outcome' \in {outcome, "sub", "restart", "handback"}
  BY DEF Top, Decide
<1> QED BY <1>1, <1>2, <1>3, <1>4 DEF OtherTypes, Ends

LEMMA LoopTypes ==
  ASSUME OtherTypes, Switch \/ SendAsIs \/ TrimAndSend \/ Overflow \/ AwaitCall \/ NeedsFix \/ Mark
  PROVE  OtherTypes'
<1>1. CASE Switch
  <2>1. /\ hop' = hop + 1 /\ tries' = 0 /\ next' = next + 1 /\ mailbox' = {} /\ late' = {}
        /\ pc' = "top" /\ hop < MaxDepth
        /\ UNCHANGED <<unread, attempt, todo, text, inbox, stopped, outcome, said, pinned, first, turns>>
    BY <1>1 DEF Switch, roundVars, userVars, endVars
  <2>2. hop' \in 0..MaxDepth /\ tries' \in 0..MaxAttempts
    BY <2>1, LimitAssumption DEF OtherTypes
  <2>3. /\ next' \in Nat \ {0} /\ first' \in 1..next' /\ inbox' \in Seq(1..next'-1)
        /\ unread' \subseteq (1..next'-1) \X (1..MaxCalls)
    BY <2>1, NextGrows
  <2> QED BY <2>1, <2>2, <2>3 DEF OtherTypes
<1>2. CASE SendAsIs
  BY <1>2 DEF SendAsIs, OtherTypes, agentVars, loopVars, roundVars, boxVars, userVars, endVars,
              countVars
<1>3. CASE TrimAndSend
  <2>1. pinned' \subseteq Notes
    BY <1>3 DEF TrimAndSend, OtherTypes
  <2>2. /\ pc' = "send"
        /\ UNCHANGED <<hop, tries, unread, attempt, todo, text, mailbox, late, inbox, stopped,
                       outcome, said, next, first, turns>>
    BY <1>3 DEF TrimAndSend, roundVars, boxVars, userVars, endVars
  <2> QED BY <2>1, <2>2 DEF OtherTypes
<1>4. CASE Overflow
  BY <1>4 DEF Overflow, OtherTypes, boxVars, userVars, endVars, countVars
<1>5. CASE AwaitCall
  BY <1>5 DEF AwaitCall, OtherTypes, agentVars, loopVars, roundVars, boxVars, userVars, endVars,
              countVars
<1>6. CASE NeedsFix
  <2>1. /\ tries' = tries + 1 /\ tries < MaxAttempts /\ pc' = "top"
        /\ UNCHANGED <<hop, unread, attempt, todo, text, mailbox, late, inbox, stopped,
                       outcome, said, pinned, next, first, turns>>
    BY <1>6 DEF NeedsFix, roundVars, boxVars, userVars, endVars, countVars
  <2>2. tries' \in 0..MaxAttempts
    BY <2>1, LimitAssumption DEF OtherTypes
  <2> QED BY <2>1, <2>2 DEF OtherTypes
<1>7. CASE Mark
  <2>1. /\ next' = next + 1 /\ pc' = "tell"
        /\ UNCHANGED <<hop, tries, unread, attempt, todo, text, mailbox, late, inbox, stopped,
                       outcome, said, pinned, first, turns>>
    BY <1>7 DEF Mark, agentVars, loopVars, roundVars, boxVars, userVars, endVars
  <2>2. /\ next' \in Nat \ {0} /\ first' \in 1..next' /\ inbox' \in Seq(1..next'-1)
        /\ unread' \subseteq (1..next'-1) \X (1..MaxCalls)
    BY <2>1, NextGrows
  <2> QED BY <2>1, <2>2 DEF OtherTypes
<1> QED BY <1>1, <1>2, <1>3, <1>4, <1>5, <1>6, <1>7

LEMMA AnswerTypes == ASSUME OtherTypes, AnswerWithCalls \/ Answer PROVE OtherTypes'
<1>1. /\ unread' = {} /\ attempt' = 1 /\ pc' \in {"tools", "judge"}
      /\ UNCHANGED <<hop, tries, mailbox, late, inbox, stopped, outcome, said, pinned, first, turns>>
  BY DEF AnswerWithCalls, Answer, boxVars, userVars, endVars
<1>2. next' \in {next, next + 1}
  BY DEF AnswerWithCalls, Answer, Said
<1>3. todo' \subseteq 1..MaxCalls /\ text' \in BOOLEAN
  <2>1. MaxCalls \in Nat BY BoundAssumption
  <2>2. CASE AnswerWithCalls
    <3>1. PICK n \in 1..MaxCalls : todo' = 1..n /\ text' \in BOOLEAN BY <2>2 DEF AnswerWithCalls
    <3>2. 1..n \subseteq 1..MaxCalls BY <2>1
    <3> QED BY <3>1, <3>2
  <2>3. CASE Answer
    BY <2>3 DEF Answer, OtherTypes
  <2> QED BY <2>2, <2>3
<1>4. next' \in Nat \ {0} /\ first' \in 1..next' /\ inbox' \in Seq(1..next'-1)
  BY <1>1, <1>2, NextGrows
<1>5. unread' \subseteq (1..next'-1) \X (1..MaxCalls)
  BY <1>1
<1> QED BY <1>1, <1>3, <1>4, <1>5 DEF OtherTypes

LEMMA CollectTypes == ASSUME Lists, OtherTypes, Collect PROVE OtherTypes'
<1>1. PICK c \in todo : /\ c \in 1..MaxCalls /\ todo' = todo \ {c}
                        /\ pc' = IF todo = {c} THEN "top" ELSE "tools"
                        /\ text' = (text /\ todo # {c})
  BY CollectIs
<1>2. /\ pc = "await" /\ next' \in {next, next + 1} /\ (text => next' = next + 1)
      /\ UNCHANGED <<hop, tries, attempt, inbox, stopped, outcome, said, pinned, first, turns>>
  BY DEF Collect, userVars, endVars
<1>3. /\ next \in Nat \ {0} /\ inbox \in Seq(1..next-1) /\ first \in 1..next
      /\ unread \subseteq (1..next-1) \X (1..MaxCalls)
      /\ todo \subseteq 1..MaxCalls
  BY DEF OtherTypes
<1>4. /\ next' \in Nat \ {0} /\ first' \in 1..next' /\ 1..next-1 \subseteq 1..next'-1
      /\ unread \subseteq (1..next'-1) \X (1..MaxCalls)
      /\ text => next \in 1..next'-1
  BY <1>2, NextGrows
<1>5. inbox' \in Seq(1..next'-1)
  BY <1>2, NextGrows
<1>6. (IF text THEN next ELSE RoundId) \in 1..next'-1
  <2>1. CASE text
    BY <1>4, <2>1
  <2>2. CASE ~ text
    <3>1. Working /\ Gathering BY <1>2 DEF Working, Gathering
    <3>2. /\ req \in Seq(Numbered(next)) /\ Chained(req) /\ req # <<>>
          /\ IsCall(Last(req)) \/ IsResult(Last(req))
      BY <2>2, <3>1 DEF Lists, ListTypes, ListsKept, RoundOpen, Serves
    <3>3. RoundId = Last(req).id BY <3>2, RoundAtEnd DEF RoundId
    <3>4. Last(req) \in Numbered(next) BY <3>2, EmptySeq DEF Last
    <3>5. RoundId \in 1..next-1 BY <1>3, <3>2, <3>3, <3>4, NumberedMsg
    <3> QED BY <1>4, <2>2, <3>5
  <2> QED BY <2>1, <2>2
<1>7. unread' \subseteq (1..next'-1) \X (1..MaxCalls)
  <2>1. \E i \in todo : unread' = unread \cup {<<IF text THEN next ELSE RoundId, i>>}
    <3>1. PICK i : i = CHOOSE j \in todo : \A k \in todo : j <= k
      OBVIOUS
    <3>2. \E j \in todo : \A k \in todo : j <= k
      <4>1. todo \in SUBSET Nat /\ todo # {} BY <1>1, <1>3
      <4> QED BY <4>1, Least
    <3>3. i \in todo BY <3>1, <3>2
    <3>4. unread' = unread \cup {<<IF text THEN next ELSE RoundId, i>>} BY <3>1 DEF Collect
    <3> QED BY <3>3, <3>4
  <2>2. PICK d : d = IF text THEN next ELSE RoundId OBVIOUS
  <2>3. PICK i \in todo : unread' = unread \cup {<<d, i>>} BY <2>1, <2>2
  <2>4. <<d, i>> \in (1..next'-1) \X (1..MaxCalls) BY <1>3, <1>6, <2>2
  <2> QED BY <1>4, <2>3, <2>4
<1>8. /\ mailbox' \subseteq Requests /\ late' \subseteq Requests
      /\ \A q, r \in mailbox' : q.kind = r.kind => q = r
  <2>1. /\ mailbox \in SUBSET Requests /\ late \subseteq Requests
        /\ \A q, r \in mailbox : q.kind = r.kind => q = r
    BY DEF OtherTypes
  <2>2. \/ UNCHANGED <<mailbox, late>>
        \/ \E r \in Requests : mailbox' = Queue(mailbox, r) /\ late' = late
        \/ \E r \in Requests : late' = late \cup {r} /\ mailbox' = mailbox
    BY DEF Collect, boxVars
  <2>3. CASE UNCHANGED <<mailbox, late>>
    BY <2>1, <2>3
  <2>4. ASSUME NEW r \in Requests, mailbox' = Queue(mailbox, r), late' = late
        PROVE  /\ mailbox' \subseteq Requests /\ late' \subseteq Requests
               /\ \A q, s \in mailbox' : q.kind = s.kind => q = s
    BY <2>1, <2>4, QueueTypes
  <2>5. ASSUME NEW r \in Requests, late' = late \cup {r}, mailbox' = mailbox
        PROVE  /\ mailbox' \subseteq Requests /\ late' \subseteq Requests
               /\ \A q, s \in mailbox' : q.kind = s.kind => q = s
    BY <2>1, <2>5
  <2> QED BY <2>2, <2>3, <2>4, <2>5
<1>9. text' \in BOOLEAN /\ todo' \subseteq 1..MaxCalls /\ pc' \in {"top", "tools"}
  BY <1>1, <1>3
<1> QED BY <1>2, <1>4, <1>5, <1>7, <1>8, <1>9 DEF OtherTypes

\* The events of a turn's end are sent in their order.
LEMMA TellIs ==
  ASSUME EndsKept, Tell
  PROVE  /\ Last(store).kind = "marker" /\ outcome \in {"sub", "handback", "restart"}
         /\ \/ /\ pc = "tell" /\ pc' = "tell" /\ UNCHANGED <<outcome, agentVars>>
               /\ said' = <<"StreamComplete">> /\ outcome # "restart"
            \/ pc' = "drain" /\ Leave /\ outcome' = outcome /\ said' = Events(outcome)
<1>1. /\ pc = "tell" /\ outcome \in {"sub", "handback", "restart"}
      /\ Last(store).kind = "marker"
      /\ said = <<>> \/ (outcome # "restart" /\ said = <<"StreamComplete">>)
      /\ said' = Append(said, Events(outcome)[Len(said) + 1])
  BY DEF EndsKept, Tell
<1>2. /\ outcome = "sub" => Events(outcome) = <<"StreamComplete", "SubSessionHandoff">>
      /\ outcome = "handback" => Events(outcome) = <<"StreamComplete", "AgentHandBack">>
      /\ outcome = "restart" => Events(outcome) = <<"RestartRequested">>
  BY DEF Events
<1>3. CASE said = <<>> /\ outcome # "restart"
  <2>1. said' = <<"StreamComplete">> BY <1>1, <1>2, <1>3
  <2>2. said' # Events(outcome) BY <1>1, <1>2, <1>3, <2>1
  <2>3. UNCHANGED <<pc, outcome, agentVars>> BY <2>2 DEF Tell
  <2> QED BY <1>1, <1>3, <2>1, <2>3
<1>4. CASE said = <<"StreamComplete">> \/ outcome = "restart"
  <2>1. said' = Events(outcome) BY <1>1, <1>2, <1>4
  <2>2. End(outcome) BY <2>1 DEF Tell
  <2> QED BY <1>1, <2>1, <2>2 DEF End
<1> QED BY <1>1, <1>3, <1>4

LEMMA TellTypes == ASSUME OtherTypes, EndsKept, Tell PROVE OtherTypes'
<1>1. outcome \in {"sub", "handback", "restart"}
  BY TellIs
<1>2. UNCHANGED <<inbox, stopped, countVars>>
  BY DEF Tell, userVars
<1>3. CASE /\ pc = "tell" /\ pc' = "tell" /\ UNCHANGED <<outcome, agentVars>>
           /\ said' = <<"StreamComplete">>
  <2>1. said' \in Seq(Closings)
    <3>1. "StreamComplete" \in Closings BY DEF Closings
    <3> QED BY <1>3, <3>1
  <2> QED BY <1>2, <1>3, <2>1 DEF OtherTypes, agentVars, loopVars, roundVars, boxVars, countVars
<1>4. CASE pc' = "drain" /\ Leave /\ outcome' = outcome /\ said' = Events(outcome)
  <2>1. Events(outcome) \in Seq(Closings)
    <3>1. /\ "StreamComplete" \in Closings /\ "SubSessionHandoff" \in Closings
          /\ "AgentHandBack" \in Closings /\ "RestartRequested" \in Closings
      BY DEF Closings
    <3>2. CASE outcome = "sub" BY <3>1, <3>2 DEF Events
    <3>3. CASE outcome = "handback" BY <3>1, <3>3 DEF Events
    <3>4. CASE outcome = "restart" BY <3>1, <3>4 DEF Events
    <3> QED BY <1>1, <3>2, <3>3, <3>4
  <2>2. outcome' \in Ends BY <1>1, <1>4 DEF Ends
  <2>3. said' \in Seq(Closings) BY <1>4, <2>1
  <2> QED BY <1>2, <1>4, <2>2, <2>3, LeavingTypes
<1> QED BY <1>3, <1>4, TellIs

LEMMA TypesStep == ASSUME Lists, OtherTypes, EndsKept, Next PROVE OtherTypes'
BY UserTypes, LateTypes, LeaveTypes, AcceptTypes, TopTypes, LoopTypes, AnswerTypes, CollectTypes,
   TellTypes DEF Next

LEMMA ListsStep == ASSUME Lists, OtherTypes, EndsKept, Next PROVE Lists' /\ TaskHeld
<1>1. next \in Nat \ {0}
  BY DEF OtherTypes
<1>2. UNCHANGED store => TaskHeld
  BY DEF TaskHeld
<1>3. CASE Inject \/ Stop \/ LateRequest \/ SendAsIs \/ AwaitCall \/ EngineDrains \/ Tell
  <2>1. UNCHANGED store
    BY <1>3 DEF Inject, Stop, LateRequest, SendAsIs, AwaitCall, EngineDrains, Tell
  <2>2. Lists'
    BY <1>1, <1>3, InjectLists, StopLists, LateLists, SendAsIsLists, AwaitCallLists,
       EngineDrainsLists, TellLists
  <2> QED BY <1>2, <2>1, <2>2
<1>4. CASE Dropped \/ TopStopped \/ SwitchRefused \/ TimesOut \/ CallFails \/ CollectStopped \/ Accept
  <2>1. UNCHANGED store
    BY <1>4 DEF Dropped, TopStopped, SwitchRefused, TimesOut, CallFails, CollectStopped, Accept
  <2>2. Lists'
    BY <1>4, LeavingLists
  <2> QED BY <1>2, <2>1, <2>2
<1>5. CASE Collect
  BY <1>5, CollectNative, CollectText
<1>6. CASE StartTurn \/ Top \/ Switch \/ TrimAndSend \/ Overflow \/ AnswerWithCalls \/ Answer
             \/ NeedsFix \/ Mark
  BY <1>6, StartTurnLists, TopLists, SwitchLists, TrimAndSendLists, OverflowLists,
     AnswerWithCallsLists, AnswerLists, NeedsFixLists, MarkLists
<1> QED BY <1>3, <1>4, <1>5, <1>6 DEF Next

LEMMA EndsStep == ASSUME Lists, OtherTypes, EndsKept, Next PROVE EndsKept'
<1>1. CASE StartTurn
  <2>1. pc' = "top" /\ outcome' = "none" /\ said' = <<>> BY <1>1 DEF StartTurn
  <2> QED BY <2>1 DEF EndsKept, EndsInOrder
<1>2. CASE Inject \/ Stop \/ LateRequest
  <2>1. UNCHANGED pc /\ UNCHANGED outcome /\ UNCHANGED said /\ UNCHANGED store
    BY <1>2 DEF Inject, Stop, LateRequest, endVars
  <2> QED BY <2>1 DEF EndsKept, EndsInOrder, Events
<1>3. CASE EngineDrains
  <2>1. /\ pc = "drain" /\ pc' = "idle"
        /\ UNCHANGED outcome /\ UNCHANGED said /\ UNCHANGED store
    BY <1>3 DEF EngineDrains, endVars
  <2> QED BY <2>1 DEF EndsKept, EndsInOrder, Events
<1>4. CASE Dropped \/ TopStopped \/ SwitchRefused \/ TimesOut \/ CallFails \/ CollectStopped
  <2>1. /\ pc \notin {"idle", "drain", "mark", "tell"} /\ pc' \in {"idle", "drain"}
        /\ outcome' \in {"dropped", "stopped", "error"} /\ UNCHANGED said
    BY <1>4 DEF Dropped, TopStopped, SwitchRefused, TimesOut, CallFails, CollectStopped, End
  <2>2. said' = <<>> BY <2>1 DEF EndsKept
  <2> QED BY <2>1, <2>2 DEF EndsKept, EndsInOrder
<1>5. CASE Accept
  <2>1. pc = "judge" /\ pc' = "drain" /\ outcome' = "completed" /\ said' = Append(said, "StreamComplete")
    BY <1>5 DEF Accept, End
  <2>2. said' = <<"StreamComplete">> BY <2>1 DEF EndsKept
  <2> QED BY <2>1, <2>2 DEF EndsKept, EndsInOrder
<1>6. CASE Top
  <2>1. /\ pc = "top" /\ UNCHANGED said
        /\ \/ pc' = "mark" /\ outcome' \in {"sub", "restart", "handback"}
           \/ pc' \in {"switch", "rest"} /\ UNCHANGED outcome
    BY <1>6 DEF Top, Decide
  <2>2. said' = <<>> /\ outcome = "none" BY <2>1 DEF EndsKept
  <2> QED BY <2>1, <2>2 DEF EndsKept, EndsInOrder
<1>7. CASE \/ Switch \/ SendAsIs \/ TrimAndSend \/ Overflow \/ AnswerWithCalls \/ Answer
           \/ AwaitCall \/ Collect \/ NeedsFix
  <2>1. /\ pc \notin {"idle", "drain", "mark", "tell"} /\ pc' \notin {"idle", "drain", "mark", "tell"}
        /\ UNCHANGED outcome /\ UNCHANGED said
    BY <1>7 DEF Switch, SendAsIs, TrimAndSend, Overflow, AnswerWithCalls, Answer, AwaitCall,
       Collect, NeedsFix, endVars
  <2>2. said' = <<>> /\ outcome' = "none" BY <2>1 DEF EndsKept
  <2> QED BY <2>1, <2>2 DEF EndsKept, EndsInOrder
<1>8. CASE Mark
  <2>1. pc = "mark" /\ pc' = "tell" /\ UNCHANGED outcome /\ UNCHANGED said
    BY <1>8 DEF Mark, endVars
  <2>2. Last(store').kind = "marker" BY <1>8, MarkLists
  <2>3. said' = <<>> /\ outcome' \in {"sub", "handback", "restart"} BY <2>1 DEF EndsKept
  <2> QED BY <2>1, <2>2, <2>3 DEF EndsKept, EndsInOrder
<1>9. CASE Tell
  <2>1. Last(store').kind = "marker" /\ outcome' \in {"sub", "handback", "restart"}
    <3>1. UNCHANGED store BY <1>9 DEF Tell
    <3>2. outcome' = outcome BY <1>9, TellIs
    <3> QED BY <1>9, <3>1, <3>2, TellIs
  <2>2. CASE pc' = "tell" /\ said' = <<"StreamComplete">> /\ outcome' # "restart"
    BY <2>1, <2>2 DEF EndsKept, EndsInOrder
  <2>3. CASE pc' = "drain" /\ said' = Events(outcome')
    BY <2>1, <2>3 DEF EndsKept, EndsInOrder, Events
  <2> QED BY <1>9, <2>2, <2>3, TellIs
<1> QED BY <1>1, <1>2, <1>3, <1>4, <1>5, <1>6, <1>7, <1>8, <1>9 DEF Next

LEMMA InitOthers == Init => OtherTypes /\ EndsKept
<1> SUFFICES ASSUME Init PROVE OtherTypes /\ EndsKept
  OBVIOUS
<1>1. OtherTypes
  <2>1. /\ 0 \in 0..MaxDepth /\ 0 \in 0..MaxAttempts /\ 0 \in 0..MaxTurns
    BY LimitAssumption, BoundAssumption
  <2>2. <<>> \in Seq(1..1-1) /\ <<>> \in Seq(Closings) /\ 1 \in 1..1 /\ 1 \in 1..2 /\ 1 \in Nat \ {0}
    OBVIOUS
  <2> QED BY <2>1, <2>2 DEF Init, OtherTypes
<1>2. EndsKept
  BY DEF Init, EndsKept, EndsInOrder
<1> QED BY <1>1, <1>2

-------------------------------------------------------------------------------
(* What follows for every session. *)

\* A whole round is the calls, and behind them each call's result and no other.
LEMMA RoundsWhole ==
  ASSUME NEW S, NEW s \in Seq(S), Chained(s), Unique(s), NEW from,
         \A id : Complete(ToSet(s), from, id, {})
  PROVE  /\ \A i \in 1..Len(s) : IsCall(s[i]) /\ s[i].id >= from => Closed(s, i)
         /\ \A j \in 1..Len(s) : IsResult(s[j]) =>
              \E i \in 1..j-1 : IsCall(s[i]) /\ s[i].id = s[j].id /\ j \in Round(s, i)
<1>1. ASSUME NEW j \in 1..Len(s), IsResult(s[j])
      PROVE  \E i \in 1..j-1 : IsCall(s[i]) /\ s[i].id = s[j].id /\ j \in Round(s, i)
  <2>1. PICK i \in 1..j-1 : /\ IsCall(s[i]) /\ s[i].id = s[j].id
                            /\ \A k \in i+1..j : IsResult(s[k])
    BY <1>1, CallOf
  <2>2. j \in i+1..Len(s) BY <2>1
  <2>3. j \in Round(s, i) BY <2>1, <2>2 DEF Round
  <2> QED BY <2>1, <2>3
<1>2. ASSUME NEW i \in 1..Len(s), IsCall(s[i]), s[i].id >= from
      PROVE  Closed(s, i)
  <2>1. Answered(ToSet(s), s[i].id) = {{c} : c \in s[i].has}
    <3>1. s[i] \in ToSet(s) BY SetType
    <3>2. Complete(ToSet(s), from, 0, {}) OBVIOUS
    <3>3. Answered(ToSet(s), s[i].id) = {{c} : c \in s[i].has \ {}}
      BY <1>2, <3>1, <3>2 DEF Complete
    <3> QED BY <3>3
  <2>2. ASSUME NEW j \in Round(s, i) \ {i}
        PROVE  <<s[j].id, s[j].has>> \in {<<s[i].id, {c}>> : c \in s[i].has}
    <3>1. j \in i+1..Len(s) /\ \A k \in i+1..j : IsResult(s[k])
      BY <2>2 DEF Round
    <3>2. s[j].id = s[i].id BY <1>2, <3>1, RoundSame
    <3>3. IsResult(s[j]) /\ j \in 1..Len(s) BY <3>1
    <3>4. s[j] \in ToSet(s) BY <3>3, SetType
    <3>5. s[j].has \in Answered(ToSet(s), s[i].id) BY <3>2, <3>3, <3>4 DEF Answered
    <3>6. PICK c \in s[i].has : s[j].has = {c} BY <2>1, <3>5
    <3> QED BY <3>2, <3>6
  <2>3. ASSUME NEW c \in s[i].has
        PROVE  \E j \in Round(s, i) \ {i} : <<s[j].id, s[j].has>> = <<s[i].id, {c}>>
    <3>1. {c} \in Answered(ToSet(s), s[i].id) BY <2>1
    <3>2. PICK m \in ToSet(s) : IsResult(m) /\ m.id = s[i].id /\ m.has = {c}
      BY <3>1 DEF Answered
    <3>3. PICK j \in 1..Len(s) : s[j] = m BY SetType
    <3>4. PICK h \in 1..j-1 : IsCall(s[h]) /\ s[h].id = s[j].id /\ j \in Round(s, h)
      BY <1>1, <3>2, <3>3
    <3>5. h = i BY <1>2, <3>2, <3>3, <3>4 DEF Unique
    <3>6. j # i BY <3>4, <3>5
    <3> QED BY <3>2, <3>3, <3>4, <3>5, <3>6
  <2>4. Answers(s, i) = {<<s[i].id, {c}>> : c \in s[i].has}
    <3>1. ASSUME NEW x \in Answers(s, i) PROVE x \in {<<s[i].id, {c}>> : c \in s[i].has}
      <4>1. PICK j \in Round(s, i) \ {i} : x = <<s[j].id, s[j].has>> BY <3>1 DEF Answers
      <4> QED BY Zenon, <2>2, <4>1
    <3>2. ASSUME NEW x \in {<<s[i].id, {c}>> : c \in s[i].has} PROVE x \in Answers(s, i)
      <4>1. PICK c \in s[i].has : x = <<s[i].id, {c}>> BY <3>2
      <4>2. PICK j \in Round(s, i) \ {i} : <<s[j].id, s[j].has>> = x BY Zenon, <2>3, <4>1
      <4> QED BY Zenon, <4>2 DEF Answers
    <3> QED BY Zenon, <3>1, <3>2
  <2> QED BY <2>4 DEF Closed
<1> QED BY <1>1, <1>2

LEMMA Invariance == Spec => []IInv
<1>1. Init => IInv
  BY InitLists, InitOthers DEF IInv
<1>2. IInv /\ [Next]_vars => IInv'
  <2> SUFFICES ASSUME IInv, [Next]_vars PROVE IInv'
    OBVIOUS
  <2>1. CASE Next
    BY <2>1, ListsStep, TypesStep, EndsStep DEF IInv
  <2>2. CASE UNCHANGED vars
    <3>1. Lists'
      BY <2>2 DEF IInv, Lists, vars, ListTypes, ListsKept, RoundOpen, NotesPlaced, NotesKept,
                  Working, Gathering, Owed
    <3>2. OtherTypes' BY <2>2 DEF IInv, OtherTypes, vars
    <3>3. EndsKept' BY <2>2 DEF IInv, EndsKept, EndsInOrder, Events, vars
    <3> QED BY <3>1, <3>2, <3>3 DEF IInv
  <2> QED BY <2>1, <2>2
<1> QED BY <1>1, <1>2, PTL DEF Spec

\* Every variable keeps the type the code gives it: at most MaxDepth hops and
\* MaxAttempts verifications, one pending request of a kind, nothing request-only
\* in the store.
THEOREM TypeCorrect == Spec => []TypeOK
<1>1. IInv => TypeOK
  <2> SUFFICES ASSUME IInv PROVE TypeOK
    OBVIOUS
  <2>1. store \in Seq(Messages) /\ req \in Seq(Messages)
    BY MessagesAre DEF IInv, Lists, ListTypes
  <2>2. \A i \in DOMAIN store : Storable(store[i])
    <3>1. \A m \in ToSet(store) : Storable(m) BY DEF IInv, Lists, ListTypes
    <3> QED BY <3>1 DEF ToSet
  <2> QED BY <2>1, <2>2 DEF IInv, OtherTypes, TypeOK
<1> QED BY <1>1, Invariance, PTL

\* What the model is shown is what the session keeps, and every request holds the
\* turn's calls with all their results right behind them and no result without its
\* call, whatever was injected, trimmed, retried or handed off (memory_sync.rs,
\* tool_calls.rs, trim.rs).
THEOREM InStep == Spec => []RequestsInStep
<1>1. IInv => RequestsInStep
  <2> SUFFICES ASSUME IInv PROVE RequestsInStep
    OBVIOUS
  <2>1. StoreMirrorsRequest
    BY DEF IInv, Lists, ListsKept, Working, Serves, StoreMirrorsRequest
  <2>2. ASSUME pc = "send" PROVE RoundsClosed
    <3>1. Working /\ ~ Gathering BY <2>2 DEF Working, Gathering
    <3>2. /\ Chained(req) /\ Unique(req) /\ \A id : Complete(ToSet(req), first, id, {})
      BY <3>1, NothingOwed DEF IInv, Serves
    <3>3. req \in Seq(Numbered(next)) /\ DOMAIN req = 1..Len(req)
      BY DEF IInv, Lists, ListTypes
    <3>4. /\ \A i \in 1..Len(req) : IsCall(req[i]) /\ req[i].id >= first => Closed(req, i)
          /\ \A j \in 1..Len(req) : IsResult(req[j]) =>
               \E i \in 1..j-1 : IsCall(req[i]) /\ req[i].id = req[j].id /\ j \in Round(req, i)
      BY <3>2, <3>3, RoundsWhole
    <3> QED BY <3>3, <3>4 DEF RoundsClosed
  <2> QED BY <2>1, <2>2 DEF RequestsInStep, RoundsClosed
<1> QED BY <1>1, Invariance, PTL

\* A note once pinned is in every later request, as a note or in the brief. The
\* polish may rewrite the brief, and is left out (brief.rs, apply_note).
THEOREM NotesStay == ASSUME ~ WithPolish PROVE Spec => []NotesSurvive
<1>1. IInv => NotesSurvive
  BY DEF IInv, Lists, NotesKept, Remembered, Working, NotesSurvive
<1> QED BY <1>1, Invariance, PTL

\* A turn ends with the events of its outcome, each sent once and in order, and the
\* marker is stored before the first of them reaches the UI (execute.rs).
THEOREM OrderlyEnds == Spec => []EndsInOrder
<1>1. IInv => EndsInOrder
  BY DEF IInv, EndsKept
<1> QED BY <1>1, Invariance, PTL

\* The message the session began with is never lost from the store, at any step of
\* any turn (trim.rs).
THEOREM TaskIsKept == Spec => TaskStays
<1>1. IInv /\ [Next]_vars =>
        [store # <<>> => /\ FirstTask(store') # 0
                         /\ store'[FirstTask(store')] = store[FirstTask(store)]]_vars
  <2> SUFFICES ASSUME IInv, Next, store # <<>>
               PROVE  /\ FirstTask(store') # 0
                      /\ store'[FirstTask(store')] = store[FirstTask(store)]
    OBVIOUS
  <2>1. TaskHeld /\ Lists'
    BY ListsStep DEF IInv
  <2>2. store' # <<>> /\ store'[FirstTask(store')] = store[FirstTask(store)]
    BY <2>1 DEF TaskHeld
  <2>3. Opens(store', 1, FirstTask(store'))
    BY <2>1, <2>2 DEF Lists, ListsKept, Sound
  <2>4. FirstTask(store') # 0
    BY <2>3 DEF Opens
  <2> QED BY <2>2, <2>4
<1> QED BY <1>1, Invariance, PTL DEF Spec, TaskStays
================================================================================
