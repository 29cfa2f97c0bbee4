----------------------------- MODULE SetInduction ----------------------------
(***************************************************************************)
(* Induction over the naturals with the induction hypothesis given as a    *)
(* set, so that the provers can instantiate it: prove that a set has 0 and *)
(* the successor of each of its members.  It follows from the fact that    *)
(* the order of the naturals is well founded.  With it: that recursive     *)
(* definitions have a value, and what the filter of Lists keeps.           *)
(***************************************************************************)
EXTENDS Integers, Lists, WellFoundedInduction, SequenceTheorems, TLAPS

\* A set of naturals that is not empty has a least member.
LEMMA LeastMember ==
    ASSUME NEW S, S \subseteq Nat, S # {}
    PROVE  \E m \in S : \A k \in S : ~(k < m)
<1>1. IsWellFoundedOn(OpToRel(<, Nat), Nat)
  BY NatLessThanWellFounded
<1>2. PICK x \in S : \A y \in S : ~(<<y, x>> \in OpToRel(<, Nat))
  BY <1>1, WFMin
<1>3. ASSUME NEW y \in S, y < x PROVE FALSE
  <2>1. y \in Nat /\ x \in Nat
    OBVIOUS
  <2>2. <<y, x>> \in OpToRel(<, Nat)
    BY <2>1, <1>3 DEF OpToRel
  <2> QED BY <2>2, <1>2
<1> QED BY <1>3

\* Induction up to a bound.
LEMMA SetInductionUpTo ==
    ASSUME NEW n \in Nat, NEW S, 0 \in S, \A i \in 0..(n - 1) : i \in S => i + 1 \in S
    PROVE  \A i \in 0..n : i \in S
<1> SUFFICES ASSUME NEW j \in 0..n, j \notin S PROVE FALSE
  OBVIOUS
<1> DEFINE T == {i \in 0..n : i \notin S}
<1>1. T \subseteq Nat /\ T # {}
  OBVIOUS
<1> HIDE DEF T
<1>2. PICK m \in T : \A k \in T : ~(k < m)
  BY <1>1, LeastMember
<1>3. m # 0 /\ m \in 0..n /\ m \notin S
  BY <1>2 DEF T
<1>4. m - 1 \in 0..(n - 1) /\ m - 1 \in 0..n /\ m - 1 < m
  BY <1>3
<1>5. m - 1 \in S
  BY <1>2, <1>4 DEF T
<1>6. (m - 1) + 1 \in S
  BY <1>4, <1>5
<1> QED BY <1>3, <1>6

\* Induction over all naturals.
LEMMA SetInduction ==
    ASSUME NEW S, 0 \in S, \A i \in Nat : i \in S => i + 1 \in S
    PROVE  \A i \in Nat : i \in S
<1> SUFFICES ASSUME NEW n \in Nat PROVE n \in S
  OBVIOUS
<1>1. \A i \in 0..n : i \in S
  BY SetInductionUpTo
<1> QED BY <1>1

\* f solves a recursive definition over 0..n, with values in D: it starts at a,
\* and step leads from one value to the next.
Solves(f, n, D, a, step) ==
    f \in [0..n -> D] /\ f[0] = a /\ \A i \in 1..n : f[i] = step[i][f[i - 1]]

\* Such a definition has a solution.
LEMMA RecursionExists ==
    ASSUME NEW n \in Nat, NEW D, NEW a \in D, NEW step \in [1..n -> [D -> D]]
    PROVE  \E f : Solves(f, n, D, a, step)
<1> DEFINE P(m, f) == /\ f \in [0..m -> D] /\ f[0] = a
                      /\ \A i \in 1..m : f[i] = step[i][f[i - 1]]
           S == {m \in 0..n : \E f : P(m, f)}
<1>1. 0 \in S
  <2> DEFINE f == [i \in 0..0 |-> a]
  <2>1. f \in [0..0 -> D] /\ f[0] = a
    OBVIOUS
  <2>2. \A i \in 1..0 : FALSE
    OBVIOUS
  <2> HIDE DEF f
  <2>3. P(0, f)
    BY <2>1, <2>2
  <2> QED BY <2>3
<1>2. ASSUME NEW m \in 0..(n - 1), m \in S PROVE m + 1 \in S
  <2>1. m \in Nat /\ m + 1 \in 1..n /\ m + 1 \in 0..n
    OBVIOUS
  <2>2. PICK f : P(m, f)
    BY <1>2
  <2> DEFINE v == step[m + 1][f[m]]
             h == [i \in 0..(m + 1) |-> IF i = m + 1 THEN v ELSE f[i]]
  <2>3. v \in D
    <3>1. f[m] \in D /\ step[m + 1] \in [D -> D]
      BY <2>1, <2>2
    <3> QED BY <3>1
  <2>4. h \in [0..(m + 1) -> D] /\ h[0] = a
    <3> HIDE DEF v
    <3>1. ASSUME NEW i \in 0..(m + 1) PROVE (IF i = m + 1 THEN v ELSE f[i]) \in D
      BY <2>1, <2>2, <2>3
    <3>2. h[0] = a
      BY <2>1, <2>2
    <3> QED BY <3>1, <3>2
  <2>5. ASSUME NEW i \in 1..(m + 1) PROVE h[i] = step[i][h[i - 1]]
    <3>1. CASE i = m + 1
      <4>1. i \in 0..(m + 1) /\ i - 1 \in 0..(m + 1) /\ i - 1 = m /\ m # m + 1
        BY <2>1, <3>1
      <4>2. h[i] = v /\ h[i - 1] = f[m]
        <5> HIDE DEF v
        <5> QED BY <4>1, <3>1
      <4> QED BY <3>1, <4>2
    <3>2. CASE i # m + 1
      <4>1. i \in 0..(m + 1) /\ i - 1 \in 0..(m + 1) /\ i \in 1..m /\ i - 1 # m + 1
        BY <2>1, <3>2
      <4>2. h[i] = f[i] /\ h[i - 1] = f[i - 1]
        <5> HIDE DEF v
        <5> QED BY <4>1, <3>2
      <4> QED BY <2>2, <4>1, <4>2
    <3> QED BY <3>1, <3>2
  <2> HIDE DEF h
  <2>6. P(m + 1, h)
    BY <2>4, <2>5
  <2> QED BY <2>1, <2>6
<1> HIDE DEF S
<1>3. n \in S
  <2>1. \A i \in 0..n : i \in S
    BY <1>1, <1>2, SetInductionUpTo
  <2> QED BY <2>1
<1> QED BY <1>3 DEF S, Solves

-----------------------------------------------------------------------------
(* What the filter of Lists keeps. *)

\* r is what s keeps outside es: f says where each member of r comes from.
EmbedsUpTo(r, s, n, es, f) ==
    /\ f \in [DOMAIN r -> 1..n]
    /\ \A j, k \in DOMAIN r : j < k => f[j] < f[k]
    /\ \A k \in DOMAIN r : r[k] = s[f[k]] /\ s[f[k]] \notin es
    /\ \A j \in 1..n : s[j] \notin es => \E k \in DOMAIN r : f[k] = j

\* One more member of s.
LEMMA EmbedsNext ==
    ASSUME NEW T, NEW s \in Seq(T), NEW es, NEW i \in 1..Len(s), NEW t \in Seq(T),
           NEW f, EmbedsUpTo(t, s, i - 1, es, f)
    PROVE  LET u == IF s[i] \in es THEN t ELSE Append(t, s[i])
           IN  u \in Seq(T) /\ \E g : EmbedsUpTo(u, s, i, es, g)
<1>0. i \in Nat /\ i - 1 \in Nat /\ Len(s) \in Nat /\ s[i] \in T /\ Len(t) \in Nat /\ DOMAIN t = 1..Len(t)
  OBVIOUS
<1>1. CASE s[i] \in es
  <2>1. f \in [DOMAIN t -> 1..i]
    BY <1>0 DEF EmbedsUpTo
  <2>2. ASSUME NEW j \in 1..i, s[j] \notin es PROVE \E k \in DOMAIN t : f[k] = j
    <3>1. j \in 1..(i - 1)
      BY <1>0, <1>1, <2>2
    <3> QED BY <2>2, <3>1 DEF EmbedsUpTo
  <2>3. EmbedsUpTo(t, s, i, es, f)
    BY <2>1, <2>2 DEF EmbedsUpTo
  <2> QED BY <1>1, <2>3
<1>2. CASE s[i] \notin es
  <2> DEFINE u == Append(t, s[i])
             g == [k \in 1..(Len(t) + 1) |-> IF k = Len(t) + 1 THEN i ELSE f[k]]
  <2>1. /\ u \in Seq(T) /\ DOMAIN u = 1..(Len(t) + 1)
        /\ u[Len(t) + 1] = s[i] /\ \A j \in 1..Len(t) : u[j] = t[j]
    BY <1>0, AppendProperties
  <2>2. /\ DOMAIN g = 1..(Len(t) + 1) /\ g[Len(t) + 1] = i
        /\ \A k \in 1..Len(t) : g[k] = f[k] /\ f[k] \in 1..(i - 1)
    BY <1>0 DEF EmbedsUpTo
  <2>3. g \in [DOMAIN u -> 1..i]
    <3>1. \A k \in 1..(Len(t) + 1) : (IF k = Len(t) + 1 THEN i ELSE f[k]) \in 1..i
      BY <1>0 DEF EmbedsUpTo
    <3> QED BY <2>1, <3>1
  <2> HIDE DEF u, g
  <2>4. \A k \in 1..(Len(t) + 1) : k = Len(t) + 1 \/ k \in 1..Len(t)
    BY <1>0
  <2>5. ASSUME NEW j \in DOMAIN u, NEW k \in DOMAIN u, j < k PROVE g[j] < g[k]
    <3>1. j \in 1..Len(t)
      BY <1>0, <2>1, <2>5
    <3>2. CASE k = Len(t) + 1
      <4>1. f[j] \in 1..(i - 1) /\ g[j] = f[j] /\ g[k] = i
        BY <2>2, <3>1, <3>2
      <4> QED BY <1>0, <4>1
    <3>3. CASE k \in 1..Len(t)
      BY <1>0, <2>2, <2>5, <3>1, <3>3 DEF EmbedsUpTo
    <3> QED BY <2>1, <2>4, <3>2, <3>3
  <2>6. ASSUME NEW k \in DOMAIN u PROVE u[k] = s[g[k]] /\ s[g[k]] \notin es
    <3>1. CASE k = Len(t) + 1
      BY <1>2, <2>1, <2>2, <3>1
    <3>2. CASE k \in 1..Len(t)
      BY <1>0, <2>1, <2>2, <3>2 DEF EmbedsUpTo
    <3> QED BY <2>1, <2>4, <3>1, <3>2
  <2>7. ASSUME NEW j \in 1..i, s[j] \notin es PROVE \E k \in DOMAIN u : g[k] = j
    <3>1. CASE j = i
      BY <1>0, <2>1, <2>2, <3>1
    <3>2. CASE j # i
      <4>1. j \in 1..(i - 1)
        BY <1>0, <3>2
      <4>2. PICK k \in DOMAIN t : f[k] = j
        BY <2>7, <4>1 DEF EmbedsUpTo
      <4>3. k \in 1..Len(t) /\ k \in DOMAIN u
        BY <1>0, <2>1
      <4> QED BY <2>2, <4>2, <4>3
    <3> QED BY <3>1, <3>2
  <2>8. EmbedsUpTo(u, s, i, es, g)
    BY <2>3, <2>5, <2>6, <2>7 DEF EmbedsUpTo
  <2> QED BY <1>2, <2>1, <2>8 DEF u
<1> QED BY <1>1, <1>2

\* What Others returns.
LEMMA OthersFacts ==
    ASSUME NEW T, NEW s \in Seq(T), NEW es
    PROVE  Others(s, es) \in Seq(T) /\ \E f : EmbedsUpTo(Others(s, es), s, Len(s), es, f)
<1> DEFINE D == Seq(T)
           after(t, i) == IF s[i] \in es THEN t ELSE Append(t, s[i])
           Q(h) == h = [i \in 0..Len(s) |->
                           IF i = 0 THEN <<>>
                           ELSE IF s[i] \in es THEN h[i - 1]
                           ELSE Append(h[i - 1], s[i])]
           step == [i \in 1..Len(s) |-> [t \in D |-> after(t, i)]]
           kept == CHOOSE h : Q(h)
<1>0. Len(s) \in Nat /\ \A i \in 1..Len(s) : s[i] \in T
  OBVIOUS
<1>1. <<>> \in D
  OBVIOUS
<1>2. ASSUME NEW t \in D, NEW i \in 1..Len(s) PROVE after(t, i) \in D
  BY <1>0, AppendProperties
<1> HIDE DEF D
<1>3. step \in [1..Len(s) -> [D -> D]] /\ \A i \in 1..Len(s), t \in D : step[i][t] = after(t, i)
  <2> HIDE DEF after
  <2> QED BY <1>2
<1> HIDE DEF step
<1>4. PICK g : Solves(g, Len(s), D, <<>>, step)
  BY <1>0, <1>1, <1>3, RecursionExists
<1>5. Q(g)
  <2> DEFINE h == [i \in 0..Len(s) |-> IF i = 0 THEN <<>> ELSE after(g[i - 1], i)]
  <2>1. ASSUME NEW i \in 0..Len(s) PROVE g[i] = h[i]
    <3>1. CASE i = 0
      BY <3>1, <1>4 DEF Solves
    <3>2. CASE i # 0
      <4>1. i \in 1..Len(s) /\ i - 1 \in 0..Len(s)
        BY <1>0, <3>2
      <4>2. g[i] = after(g[i - 1], i)
        <5> HIDE DEF after
        <5> QED BY <1>3, <1>4, <4>1 DEF Solves
      <4>3. h[i] = after(g[i - 1], i)
        <5> HIDE DEF after
        <5> QED BY <3>2
      <4> QED BY <4>2, <4>3
    <3> QED BY <3>1, <3>2
  <2>2. h = [i \in 0..Len(s) |-> h[i]]
    OBVIOUS
  <2> HIDE DEF h
  <2>3. g = [i \in 0..Len(s) |-> g[i]]
    BY <1>4 DEF Solves
  <2>4. g = h
    BY <2>1, <2>2, <2>3
  <2> QED BY <2>4 DEF h
<1>6. Q(kept)
  <2>1. \E h : Q(h)
    BY <1>5
  <2> HIDE DEF Q
  <2> QED BY <2>1
<1>7. Others(s, es) = kept[Len(s)]
  BY DEF Others
<1> HIDE DEF kept
<1>8. kept[0] = <<>> /\ \A i \in 1..Len(s) : kept[i] = after(kept[i - 1], i)
  <2>1. \A i \in 0..Len(s) : kept[i] = IF i = 0 THEN <<>> ELSE after(kept[i - 1], i)
    BY <1>6
  <2>2. 0 \in 0..Len(s) /\ \A i \in 1..Len(s) : i \in 0..Len(s) /\ i # 0
    BY <1>0
  <2> HIDE DEF after
  <2> QED BY <2>1, <2>2
<1> HIDE DEF Q
<1> DEFINE S == {i \in 0..Len(s) : kept[i] \in Seq(T) /\ \E f : EmbedsUpTo(kept[i], s, i, es, f)}
<1>9. 0 \in S
  <2>1. PICK t : t = kept[0]
    OBVIOUS
  <2>2. EmbedsUpTo(t, s, 0, es, t)
    BY <1>8, <2>1 DEF EmbedsUpTo
  <2>3. \E f : EmbedsUpTo(t, s, 0, es, f)
    BY <2>2
  <2>4. t \in Seq(T) /\ 0 \in 0..Len(s)
    BY <1>0, <1>8, <2>1
  <2> QED BY <2>1, <2>3, <2>4
<1>10. ASSUME NEW i \in 0..(Len(s) - 1), i \in S PROVE i + 1 \in S
  <2>1. i + 1 \in 1..Len(s) /\ (i + 1) - 1 = i /\ i + 1 \in 0..Len(s)
    BY <1>0
  <2>2. PICK t, f : t = kept[i] /\ t \in Seq(T) /\ EmbedsUpTo(t, s, (i + 1) - 1, es, f)
    BY <1>10, <2>1
  <2>3. kept[i + 1] = after(t, i + 1)
    <3> HIDE DEF after
    <3> QED BY <1>8, <2>1, <2>2
  <2>4. after(t, i + 1) \in Seq(T) /\ \E v : EmbedsUpTo(after(t, i + 1), s, i + 1, es, v)
    BY <2>1, <2>2, EmbedsNext
  <2> QED BY <2>1, <2>3, <2>4
<1> HIDE DEF S
<1>11. Len(s) \in S
  <2>1. \A i \in 0..Len(s) : i \in S
    BY <1>0, <1>9, <1>10, SetInductionUpTo
  <2> QED BY <1>0, <2>1
<1> QED BY <1>7, <1>11 DEF S
=============================================================================
