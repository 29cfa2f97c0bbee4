-------------------------- MODULE EventBufferProofs -------------------------
(***************************************************************************)
(* What the telemetry buffer promises for every configuration, load and    *)
(* answer of the endpoint.                                                 *)
(***************************************************************************)
EXTENDS EventBuffer, SetInduction, SequenceTheorems, TLAPS

\* The worker owns what is in flight, and a drain is where the ledger says.
Phases ==
    /\ worker # "exporting" => inFlight = <<>>
    /\ drain # "timedOut" => unknown = 0 /\ ~abandonInFlight
    /\ drain = "timedOut" => queue = <<>> /\ inFlight = <<>> /\ abandonInFlight

\* Entries in the order of their numbers, up to n.
Sound(entries, n) == Ordered(entries) /\ \A i \in DOMAIN entries : entries[i].id <= n

\* The inductive invariant.
IInv ==
    /\ TypeOK /\ Phases /\ LedgerBalances /\ Sound(inFlight \o queue, accepted)
    /\ RowsWithinLimits /\ DrainedMeansEmpty /\ NoOversleep

-----------------------------------------------------------------------------
(* The two recursive operators of the model. *)

\* g holds the running totals of e.
IsSum(g, e) ==
    /\ g \in [0..Len(e) -> Nat] /\ g[0] = 0
    /\ \A i \in 1..Len(e) : g[i] = g[i - 1] + e[i].bytes

\* The sizes of entries are naturals.
LEMMA EntryBytes ==
    ASSUME NEW e \in Seq(Entries)
    PROVE  Len(e) \in Nat /\ DOMAIN e = 1..Len(e) /\ \A i \in 1..Len(e) : e[i].bytes \in Nat
<1>1. Len(e) \in Nat /\ DOMAIN e = 1..Len(e) /\ \A i \in 1..Len(e) : e[i] \in Entries
  OBVIOUS
<1> QED BY <1>1 DEF Entries

\* Every sequence has running totals.
LEMMA SumExists ==
    ASSUME NEW e \in Seq(Entries)
    PROVE  \E g : IsSum(g, e)
<1> DEFINE step == [i \in 1..Len(e) |-> [x \in Nat |-> x + e[i].bytes]]
<1>1. Len(e) \in Nat /\ \A i \in 1..Len(e) : e[i].bytes \in Nat
  BY EntryBytes
<1>2. step \in [1..Len(e) -> [Nat -> Nat]]
  BY <1>1
<1>3. \A i \in 1..Len(e), x \in Nat : step[i][x] = x + e[i].bytes
  OBVIOUS
<1> HIDE DEF step
<1>4. PICK g : Solves(g, Len(e), Nat, 0, step)
  BY <1>1, <1>2, RecursionExists
<1>5. ASSUME NEW i \in 1..Len(e) PROVE g[i] = g[i - 1] + e[i].bytes
  <2>1. i - 1 \in 0..Len(e)
    BY <1>1
  <2> QED BY <1>3, <1>4, <2>1 DEF Solves
<1> QED BY <1>4, <1>5 DEF IsSum, Solves

\* Bytes is the last of the running totals, whoever made them.
LEMMA BytesIs ==
    ASSUME NEW e \in Seq(Entries), NEW g, IsSum(g, e)
    PROVE  Bytes(e) = g[Len(e)]
<1> DEFINE Q(f) == f = [i \in 0..Len(e) |-> IF i = 0 THEN 0 ELSE f[i - 1] + e[i].bytes]
           sum == CHOOSE f : Q(f)
<1>0. Len(e) \in Nat /\ \A i \in 1..Len(e) : e[i].bytes \in Nat
  BY EntryBytes
<1>2. Q(g)
  <2> DEFINE h == [i \in 0..Len(e) |-> IF i = 0 THEN 0 ELSE g[i - 1] + e[i].bytes]
  <2>1. ASSUME NEW i \in 0..Len(e) PROVE g[i] = h[i]
    <3>1. CASE i = 0
      BY <3>1 DEF IsSum
    <3>2. CASE i # 0
      <4>1. i \in 1..Len(e)
        BY <1>0, <3>2
      <4> QED BY <3>2, <4>1 DEF IsSum
    <3> QED BY <3>1, <3>2
  <2>2. g \in [0..Len(e) -> Nat] /\ DOMAIN h = 0..Len(e)
    BY DEF IsSum
  <2>3. h = [i \in 0..Len(e) |-> h[i]]
    OBVIOUS
  <2> HIDE DEF h
  <2>4. g = [i \in 0..Len(e) |-> g[i]]
    BY <2>2
  <2>5. g = h
    BY <2>1, <2>3, <2>4
  <2> QED BY <2>5 DEF h
<1>3. Q(sum)
  <2>1. \E f : Q(f)
    BY <1>2
  <2> HIDE DEF Q
  <2> QED BY <2>1
<1>4. Bytes(e) = sum[Len(e)]
  BY DEF Bytes
<1> HIDE DEF sum
<1>5. sum[0] = 0 /\ \A i \in 1..Len(e) : sum[i] = sum[i - 1] + e[i].bytes
  <2>1. \A i \in 0..Len(e) : sum[i] = IF i = 0 THEN 0 ELSE sum[i - 1] + e[i].bytes
    BY <1>3
  <2>2. 0 \in 0..Len(e) /\ \A i \in 1..Len(e) : i \in 0..Len(e) /\ i # 0
    BY <1>0
  <2> QED BY <2>1, <2>2
<1> DEFINE S == {i \in 0..Len(e) : sum[i] = g[i]}
<1>6. 0 \in S
  BY <1>0, <1>5 DEF IsSum
<1>7. ASSUME NEW i \in 0..(Len(e) - 1), i \in S PROVE i + 1 \in S
  <2>1. i + 1 \in 1..Len(e) /\ i + 1 \in 0..Len(e) /\ (i + 1) - 1 = i
    BY <1>0
  <2>2. sum[i] = g[i]
    BY <1>7
  <2>3. sum[i + 1] = sum[i] + e[i + 1].bytes /\ g[i + 1] = g[i] + e[i + 1].bytes
    BY <1>5, <2>1 DEF IsSum
  <2> QED BY <2>1, <2>2, <2>3
<1> HIDE DEF S
<1>8. \A i \in 0..Len(e) : i \in S
  BY <1>0, <1>6, <1>7, SetInductionUpTo
<1>9. Len(e) \in S
  BY <1>0, <1>8
<1> QED BY <1>4, <1>9 DEF S

\* A size is a natural number.
LEMMA BytesNat ==
    ASSUME NEW e \in Seq(Entries)
    PROVE  Bytes(e) \in Nat
<1>1. PICK g : IsSum(g, e)
  BY SumExists
<1>2. Bytes(e) = g[Len(e)] /\ Len(e) \in 0..Len(e)
  BY <1>1, BytesIs, EntryBytes
<1> QED BY <1>1, <1>2 DEF IsSum

\* Nothing has no size.
LEMMA BytesEmpty == Bytes(<<>>) = 0
<1> DEFINE g == [i \in 0..0 |-> 0]
<1>1. <<>> \in Seq(Entries) /\ Len(<<>>) = 0
  OBVIOUS
<1>2. IsSum(g, <<>>) /\ g[0] = 0
  BY <1>1 DEF IsSum
<1> HIDE DEF g
<1> QED BY <1>1, <1>2, BytesIs

\* Two sequences end to end.
LEMMA BytesConcat ==
    ASSUME NEW s \in Seq(Entries), NEW t \in Seq(Entries)
    PROVE  Bytes(s \o t) = Bytes(s) + Bytes(t)
<1>1. PICK g : IsSum(g, s)
  BY SumExists
<1>2. PICK h : IsSum(h, t)
  BY SumExists
<1> DEFINE m == Len(s)
           n == Len(t)
           e == s \o t
           k == [i \in 0..(m + n) |-> IF i <= m THEN g[i] ELSE g[m] + h[i - m]]
<1>3. /\ m \in Nat /\ n \in Nat /\ e \in Seq(Entries) /\ Len(e) = m + n
      /\ \A i \in 1..m : e[i] = s[i]
      /\ \A i \in (m + 1)..(m + n) : e[i] = t[i - m]
  BY ConcatProperties, LenProperties
<1> HIDE DEF m, n, e
<1>4. g \in [0..m -> Nat] /\ h \in [0..n -> Nat] /\ h[0] = 0 /\ g[m] \in Nat
  <2>1. g \in [0..m -> Nat] /\ h \in [0..n -> Nat] /\ h[0] = 0
    BY <1>1, <1>2 DEF IsSum, m, n
  <2> QED BY <1>3, <2>1
<1>5. k \in [0..(m + n) -> Nat] /\ k[0] = 0
  <2>1. ASSUME NEW i \in 0..(m + n) PROVE (IF i <= m THEN g[i] ELSE g[m] + h[i - m]) \in Nat
    <3>1. CASE i <= m
      BY <3>1, <1>3, <1>4
    <3>2. CASE ~(i <= m)
      <4>1. i - m \in 0..n
        BY <3>2, <1>3
      <4>2. h[i - m] \in Nat
        BY <4>1, <1>4
      <4> QED BY <3>2, <4>2, <1>4
    <3> QED BY <3>1, <3>2
  <2>2. k[0] = 0
    BY <1>1, <1>3 DEF IsSum
  <2> QED BY <2>1, <2>2
<1>6. ASSUME NEW i \in 1..(m + n) PROVE k[i] = k[i - 1] + e[i].bytes
  <2>0. i \in 0..(m + n) /\ i - 1 \in 0..(m + n)
    BY <1>3
  <2>1. CASE i <= m
    <3>1. i \in 1..m /\ i - 1 <= m
      BY <2>1, <1>3
    <3>2. k[i] = g[i] /\ k[i - 1] = g[i - 1] /\ e[i] = s[i]
      BY <1>3, <2>0, <2>1, <3>1
    <3>3. g[i] = g[i - 1] + s[i].bytes
      BY <1>1, <3>1 DEF IsSum, m
    <3> QED BY <3>2, <3>3
  <2>2. CASE ~(i <= m)
    <3>1. i \in (m + 1)..(m + n) /\ i - m \in 1..n
      BY <2>2, <1>3
    <3>2. k[i] = g[m] + h[i - m] /\ e[i] = t[i - m]
      BY <1>3, <2>0, <2>2, <3>1
    <3>3. h[i - m] = h[(i - m) - 1] + t[i - m].bytes
      BY <1>2, <3>1 DEF IsSum, n
    <3>4. k[i - 1] = g[m] + h[(i - m) - 1]
      <4>1. CASE i - 1 <= m
        <5>1. i - 1 = m /\ (i - m) - 1 = 0
          BY <4>1, <2>2, <1>3
        <5>2. k[i - 1] = g[m]
          BY <5>1, <2>0, <1>3
        <5> QED BY <5>1, <5>2, <1>4
      <4>2. CASE ~(i - 1 <= m)
        <5>1. (i - m) - 1 = (i - 1) - m
          BY <1>3
        <5>2. k[i - 1] = g[m] + h[(i - 1) - m]
          BY <4>2, <2>0
        <5> QED BY <5>1, <5>2
      <4> QED BY <4>1, <4>2
    <3>5. h[(i - m) - 1] \in Nat /\ t[i - m].bytes \in Nat
      <4>1. (i - m) - 1 \in 0..n
        BY <1>3, <3>1
      <4> QED BY <1>4, <4>1, <3>1, EntryBytes DEF n
    <3> QED BY <1>4, <3>2, <3>3, <3>4, <3>5
  <2> QED BY <2>1, <2>2
<1>7. k[m + n] = g[m] + h[n]
  <2>1. CASE n = 0
    <3>1. m + n = m /\ m + n \in 0..(m + n)
      BY <1>3, <2>1
    <3>2. k[m + n] = g[m]
      BY <1>3, <3>1
    <3> QED BY <2>1, <3>2, <1>4
  <2>2. CASE n # 0
    <3>1. ~(m + n <= m) /\ (m + n) - m = n /\ m + n \in 0..(m + n)
      BY <1>3, <2>2
    <3> QED BY <3>1
  <2> QED BY <2>1, <2>2
<1> HIDE DEF k
<1>8. IsSum(k, e)
  BY <1>3, <1>5, <1>6 DEF IsSum
<1>9. Bytes(e) = k[m + n] /\ Bytes(s) = g[m] /\ Bytes(t) = h[n]
  BY <1>1, <1>2, <1>3, <1>8, BytesIs DEF m, n
<1> QED BY <1>7, <1>9 DEF e

\* Sequences whose entries have the same sizes.
LEMMA BytesSame ==
    ASSUME NEW s \in Seq(Entries), NEW t \in Seq(Entries), Len(s) = Len(t),
           \A i \in 1..Len(s) : s[i].bytes = t[i].bytes
    PROVE  Bytes(s) = Bytes(t)
<1>1. PICK g : IsSum(g, s)
  BY SumExists
<1>2. IsSum(g, t)
  BY <1>1 DEF IsSum
<1> QED BY <1>1, <1>2, BytesIs

\* One entry.
LEMMA BytesSingle ==
    ASSUME NEW s \in Seq(Entries), Len(s) = 1
    PROVE  Bytes(s) = s[1].bytes
<1> DEFINE g == [i \in 0..1 |-> IF i = 0 THEN 0 ELSE s[1].bytes]
<1>1. s[1].bytes \in Nat
  BY EntryBytes
<1>2. g \in [0..1 -> Nat] /\ g[0] = 0 /\ g[1] = s[1].bytes
  BY <1>1
<1> HIDE DEF g
<1>3. IsSum(g, s)
  <2>1. ASSUME NEW i \in 1..Len(s) PROVE g[i] = g[i - 1] + s[i].bytes
    <3>1. i = 1 /\ i - 1 = 0
      OBVIOUS
    <3> QED BY <1>1, <1>2, <3>1
  <2> QED BY <1>2, <2>1 DEF IsSum
<1> QED BY <1>2, <1>3, BytesIs
\* The filter keeps sizes, and none above the limit.
LEMMA FittingFacts ==
    ASSUME NEW sizes \in Seq(Nat)
    PROVE  /\ Fitting(sizes) \in Seq(Nat)
           /\ \A i \in DOMAIN Fitting(sizes) : Fitting(sizes)[i] <= MaxBatchBytes
<1> DEFINE D == {t \in Seq(Nat) : \A j \in DOMAIN t : t[j] <= MaxBatchBytes}
           after(t, i) == IF sizes[i] <= MaxBatchBytes THEN Append(t, sizes[i]) ELSE t
           Q(f) == f = [i \in 0..Len(sizes) |->
                           IF i = 0 THEN <<>>
                           ELSE IF sizes[i] <= MaxBatchBytes THEN Append(f[i - 1], sizes[i])
                           ELSE f[i - 1]]
           step == [i \in 1..Len(sizes) |-> [t \in D |-> after(t, i)]]
           fit == CHOOSE f : Q(f)
<1>0. Len(sizes) \in Nat /\ \A i \in 1..Len(sizes) : sizes[i] \in Nat
  OBVIOUS
<1>1. <<>> \in D
  OBVIOUS
<1>2. ASSUME NEW t \in D, NEW i \in 1..Len(sizes) PROVE after(t, i) \in D
  <2>1. CASE sizes[i] <= MaxBatchBytes
    <3> DEFINE u == Append(t, sizes[i])
    <3>1. /\ u \in Seq(Nat) /\ Len(t) \in Nat /\ DOMAIN u = 1..(Len(t) + 1)
          /\ u[Len(t) + 1] = sizes[i] /\ \A j \in 1..Len(t) : u[j] = t[j]
      BY <1>0, AppendProperties
    <3> HIDE DEF u
    <3>2. ASSUME NEW j \in DOMAIN u PROVE u[j] <= MaxBatchBytes
      <4>1. CASE j = Len(t) + 1
        BY <2>1, <3>1, <4>1
      <4>2. CASE j # Len(t) + 1
        <5>1. j \in 1..Len(t) /\ j \in DOMAIN t
          BY <3>1, <4>2
        <5> QED BY <3>1, <5>1
      <4> QED BY <4>1, <4>2
    <3>3. after(t, i) = u
      BY <2>1 DEF u
    <3> QED BY <3>1, <3>2, <3>3
  <2>2. CASE ~(sizes[i] <= MaxBatchBytes)
    BY <2>2
  <2> QED BY <2>1, <2>2
<1> HIDE DEF D
<1>3. step \in [1..Len(sizes) -> [D -> D]] /\ \A i \in 1..Len(sizes), t \in D : step[i][t] = after(t, i)
  <2> HIDE DEF after
  <2> QED BY <1>2
<1> HIDE DEF step
<1>4. PICK g : Solves(g, Len(sizes), D, <<>>, step)
  BY <1>0, <1>1, <1>3, RecursionExists
<1>5. Q(g)
  <2> DEFINE h == [i \in 0..Len(sizes) |-> IF i = 0 THEN <<>> ELSE after(g[i - 1], i)]
  <2>1. ASSUME NEW i \in 0..Len(sizes) PROVE g[i] = h[i]
    <3>1. CASE i = 0
      BY <3>1, <1>4 DEF Solves
    <3>2. CASE i # 0
      <4>1. i \in 1..Len(sizes) /\ i - 1 \in 0..Len(sizes)
        BY <1>0, <3>2
      <4>2. g[i] = after(g[i - 1], i)
        <5> HIDE DEF after
        <5> QED BY <1>3, <1>4, <4>1 DEF Solves
      <4>3. h[i] = after(g[i - 1], i)
        <5> HIDE DEF after
        <5> QED BY <3>2
      <4> QED BY <4>2, <4>3
    <3> QED BY <3>1, <3>2
  <2>2. h = [i \in 0..Len(sizes) |-> h[i]]
    OBVIOUS
  <2> HIDE DEF h
  <2>3. g = [i \in 0..Len(sizes) |-> g[i]]
    BY <1>4 DEF Solves
  <2>4. g = h
    BY <2>1, <2>2, <2>3
  <2> QED BY <2>4 DEF h
<1>6. Q(fit)
  <2>1. \E f : Q(f)
    BY <1>5
  <2> HIDE DEF Q
  <2> QED BY <2>1
<1>7. Fitting(sizes) = fit[Len(sizes)]
  BY DEF Fitting
<1> HIDE DEF fit
<1>8. fit[0] = <<>> /\ \A i \in 1..Len(sizes) : fit[i] = after(fit[i - 1], i)
  <2>1. \A i \in 0..Len(sizes) : fit[i] = IF i = 0 THEN <<>> ELSE after(fit[i - 1], i)
    BY <1>6
  <2>2. 0 \in 0..Len(sizes) /\ \A i \in 1..Len(sizes) : i \in 0..Len(sizes) /\ i # 0
    BY <1>0
  <2> HIDE DEF after
  <2> QED BY <2>1, <2>2
<1> HIDE DEF after
<1> DEFINE S == {i \in 0..Len(sizes) : fit[i] \in D}
<1>9. 0 \in S
  BY <1>0, <1>1, <1>8
<1>10. ASSUME NEW i \in 0..(Len(sizes) - 1), i \in S PROVE i + 1 \in S
  <2>1. i + 1 \in 1..Len(sizes) /\ i + 1 \in 0..Len(sizes) /\ (i + 1) - 1 = i
    BY <1>0
  <2>2. fit[i + 1] = after(fit[i], i + 1)
    BY <1>8, <2>1
  <2> QED BY <1>2, <1>10, <2>1, <2>2
<1> HIDE DEF S
<1>11. \A i \in 0..Len(sizes) : i \in S
  BY <1>0, <1>9, <1>10, SetInductionUpTo
<1>12. Len(sizes) \in S
  BY <1>0, <1>11
<1> QED BY <1>7, <1>12 DEF S, D

-----------------------------------------------------------------------------
(* Steps of the worker. *)

\* A wait is a natural number.
LEMMA WaitIsNat ==
    ASSUME NEW q \in Seq(Entries), q # <<>>, NEW qb, NEW token \in Nat,
           NEW blocked \in Nat, NEW d
    PROVE  WaitBeforeNextAttempt(q, qb, token, blocked, d) \in Nat
<1>1. Len(q) \in Nat /\ Len(q) >= 1
  BY EmptySeq
<1>2. q[1] \in Entries
  BY <1>1
<1>3. q[1].age \in Nat
  BY <1>2 DEF Entries
<1> QED BY <1>3, OptionsAssumption DEF WaitBeforeNextAttempt, Greatest

\* The worker only moves entries between the queue and what is in flight, in
\* order, and sleeps no longer than it has to.
LEMMA RunWorkerFacts ==
    ASSUME TypeOK, NEW q \in Seq(Entries), NEW qb, NEW blocked \in Nat,
           NEW d, RunWorker(q, qb, blocked, d)
    PROVE  /\ queue' \in Seq(Entries) /\ inFlight' \in Seq(Entries)
           /\ inFlight' \o queue' = q
           /\ Len(inFlight') + Len(queue') = Len(q)
           /\ Len(inFlight') <= MaxBatchRows
           /\ worker' \in {"waiting", "exporting", "ended"}
           /\ worker' # "exporting" => inFlight' = <<>>
           /\ abandonInFlight => queue' = q /\ inFlight' = <<>>
           /\ sleep' \in Nat /\ tokenWait' \in Nat
           /\ (worker' = "waiting" /\ backoff' = blocked /\ drain' = d) =>
                 sleep' <= WaitBeforeNextAttempt(queue', queuedBytes', tokenWait', backoff', drain')
<1> DEFINE wait == WaitBeforeNextAttempt(q, qb, tokenWait, blocked, d)
<1>0. MaxBatchRows \in Nat /\ MaxBatchAge \in Nat /\ Period \in Nat
  BY OptionsAssumption
<1>1. <<>> \o q = q /\ <<>> \in Seq(Entries) /\ Len(<<>>) = 0 /\ Len(q) \in Nat
  OBVIOUS
<1>2. CASE q = <<>> \/ abandonInFlight
  <2>1. /\ worker' = "ended" /\ sleep' = 0 /\ tokenWait' = tokenWait
        /\ queue' = q /\ inFlight' = <<>>
    BY <1>2 DEF RunWorker
  <2> QED BY <1>0, <1>1, <2>1 DEF TypeOK
<1>3. CASE ~(q = <<>> \/ abandonInFlight) /\ wait > 0
  <2>1. /\ worker' = "waiting" /\ sleep' = wait /\ tokenWait' = tokenWait
        /\ queue' = q /\ queuedBytes' = qb /\ inFlight' = <<>>
    BY <1>3 DEF RunWorker
  <2>2. wait \in Nat
    BY <1>3, WaitIsNat DEF TypeOK
  <2>3. (backoff' = blocked /\ drain' = d) =>
            WaitBeforeNextAttempt(queue', queuedBytes', tokenWait', backoff', drain') = wait
    BY <2>1
  <2> HIDE DEF wait
  <2> QED BY <1>0, <1>1, <1>3, <2>1, <2>2, <2>3 DEF TypeOK
<1>4. CASE ~(q = <<>> \/ abandonInFlight) /\ ~(wait > 0)
  <2>1. PICK n \in 1..Len(q) :
            /\ IsBatch(q, n)
            /\ inFlight' = SubSeq(q, 1, n)
            /\ queue' = SubSeq(q, n + 1, Len(q))
    BY <1>4 DEF RunWorker
  <2>2. worker' = "exporting" /\ sleep' = 0 /\ tokenWait' = Period
    BY <1>4 DEF RunWorker
  <2>3. /\ SubSeq(q, 1, n) \in Seq(Entries) /\ Len(SubSeq(q, 1, n)) = n
        /\ SubSeq(q, n + 1, Len(q)) \in Seq(Entries)
        /\ Len(SubSeq(q, n + 1, Len(q))) = Len(q) - n
    BY <1>1, SubSeqProperties
  <2>4. SubSeq(q, 1, n) \o SubSeq(q, n + 1, Len(q)) = q
    <3>1. SubSeq(q, 1, n) \o SubSeq(q, n + 1, Len(q)) = SubSeq(q, 1, Len(q))
      BY <1>1, ConcatAdjacentSubSeq
    <3> QED BY <3>1, SubSeqFull
  <2>5. n <= MaxBatchRows
    BY <2>1 DEF IsBatch
  <2> QED BY <1>0, <1>1, <1>4, <2>1, <2>2, <2>3, <2>4, <2>5
<1> QED BY <1>2, <1>3, <1>4

\* Entries numbered on from n keep the order.
LEMMA AppendSound ==
    ASSUME NEW p \in Seq(Entries), NEW n \in Nat, Sound(p, n),
           NEW e \in Seq(Entries), \A i \in DOMAIN e : e[i].id = n + i
    PROVE  Sound(p \o e, n + Len(e))
<1>1. /\ DOMAIN p = 1..Len(p) /\ DOMAIN e = 1..Len(e) /\ Len(p) \in Nat /\ Len(e) \in Nat
      /\ DOMAIN (p \o e) = 1..(Len(p) + Len(e))
  OBVIOUS
<1>2. \A i \in 1..Len(p) : (p \o e)[i] = p[i] /\ p[i].id \in Nat /\ p[i].id <= n
  <2> SUFFICES ASSUME NEW i \in 1..Len(p)
               PROVE  (p \o e)[i] = p[i] /\ p[i].id \in Nat /\ p[i].id <= n
    OBVIOUS
  <2>1. p[i] \in Entries
    BY <1>1
  <2>2. (p \o e)[i] = p[i]
    BY <1>1
  <2>3. p[i].id <= n
    BY <1>1 DEF Sound
  <2> QED BY <2>1, <2>2, <2>3 DEF Entries
<1>3. \A i \in (Len(p) + 1)..(Len(p) + Len(e)) : (p \o e)[i].id = n + (i - Len(p))
  <2> SUFFICES ASSUME NEW i \in (Len(p) + 1)..(Len(p) + Len(e))
               PROVE  (p \o e)[i].id = n + (i - Len(p))
    OBVIOUS
  <2>1. i - Len(p) \in DOMAIN e
    BY <1>1
  <2>2. (p \o e)[i] = e[i - Len(p)]
    BY <1>1, ConcatProperties
  <2> QED BY <2>1, <2>2
<1>4. \A i \in DOMAIN (p \o e) : (p \o e)[i].id <= n + Len(e)
  BY <1>1, <1>2, <1>3
<1>5. ASSUME NEW i \in DOMAIN (p \o e), NEW j \in DOMAIN (p \o e), i < j
      PROVE  (p \o e)[i].id < (p \o e)[j].id
  <2>1. CASE j <= Len(p)
    BY <1>1, <1>2, <1>5, <2>1 DEF Sound, Ordered
  <2>2. CASE i <= Len(p) /\ j > Len(p)
    BY <1>1, <1>2, <1>3, <1>5, <2>2
  <2>3. CASE i > Len(p)
    BY <1>1, <1>3, <1>5, <2>3
  <2> QED BY <1>1, <1>5, <2>1, <2>2, <2>3
<1> QED BY <1>4, <1>5 DEF Sound, Ordered

\* A part of what is in order is in order.
LEMMA SuffixSound ==
    ASSUME NEW p \in Seq(Entries), NEW q \in Seq(Entries), NEW n \in Nat, Sound(p \o q, n)
    PROVE  Sound(q, n)
<1>1. /\ DOMAIN q = 1..Len(q) /\ Len(p) \in Nat /\ Len(q) \in Nat
      /\ DOMAIN (p \o q) = 1..(Len(p) + Len(q))
  OBVIOUS
<1>2. \A i \in 1..Len(q) : (p \o q)[Len(p) + i] = q[i] /\ Len(p) + i \in DOMAIN (p \o q)
  BY <1>1
<1>3. \A i \in DOMAIN q : q[i].id <= n
  BY <1>1, <1>2 DEF Sound
<1>4. ASSUME NEW i \in DOMAIN q, NEW j \in DOMAIN q, i < j
      PROVE  q[i].id < q[j].id
  <2>1. Len(p) + i < Len(p) + j
    BY <1>1, <1>4
  <2> QED BY <1>1, <1>2, <2>1 DEF Sound, Ordered
<1> QED BY <1>3, <1>4 DEF Sound, Ordered

\* A worker whose wait is over does not oversleep.
LEMMA WokenDoesNotOversleep ==
    ASSUME TypeOK', sleep' = 0
    PROVE  NoOversleep'
<1> SUFFICES ASSUME queue' # <<>>
             PROVE  sleep' <= WaitBeforeNextAttempt(queue', queuedBytes', tokenWait',
                                                    backoff', drain')
  BY DEF NoOversleep
<1>1. WaitBeforeNextAttempt(queue', queuedBytes', tokenWait', backoff', drain') \in Nat
  BY WaitIsNat DEF TypeOK
<1> QED BY <1>1

\* What a run of the worker with q in the queue needs to keep the invariant.
LEMMA RunKeeps ==
    ASSUME TypeOK, NEW q \in Seq(Entries), NEW qb, NEW blocked \in Nat,
           NEW d, RunWorker(q, qb, blocked, d),
           backoff' = blocked, exponential' \in Nat,
           drain' \in {"none", "waiting", "drained", "timedOut"},
           drain' = d,
           abandonInFlight' = abandonInFlight, exited' \in BOOLEAN,
           accepted' \in Nat, committed' \in Nat, dropped' \in Nat, unknown' \in Nat,
           drain' # "timedOut" => unknown' = 0 /\ ~abandonInFlight,
           drain' = "timedOut" => q = <<>> /\ abandonInFlight,
           drain' = "drained" => q = <<>>,
           accepted' = committed' + dropped' + unknown' + Len(q),
           Sound(q, accepted'), Len(q) <= MaxQueueRows
    PROVE  IInv'
<1>1. /\ queue' \in Seq(Entries) /\ inFlight' \in Seq(Entries)
      /\ inFlight' \o queue' = q
      /\ Len(inFlight') + Len(queue') = Len(q)
      /\ Len(inFlight') <= MaxBatchRows
      /\ worker' \in {"waiting", "exporting", "ended"}
      /\ worker' # "exporting" => inFlight' = <<>>
      /\ abandonInFlight => queue' = q /\ inFlight' = <<>>
      /\ sleep' \in Nat /\ tokenWait' \in Nat
      /\ worker' = "waiting" =>
            sleep' <= WaitBeforeNextAttempt(queue', queuedBytes', tokenWait', backoff', drain')
  BY RunWorkerFacts
<1>2. Len(queue') \in Nat /\ Len(inFlight') \in Nat
  BY <1>1, LenProperties
<1>3. TypeOK'
  BY <1>1 DEF TypeOK
<1>4. Phases'
  BY <1>1 DEF Phases
<1>5. LedgerBalances' /\ RowsWithinLimits'
  <2>1. MaxQueueRows \in Nat /\ PendingRows(queue', inFlight') = Len(q) /\ Len(q) \in Nat
    BY <1>1, <1>2, OptionsAssumption DEF PendingRows
  <2> QED BY <1>1, <2>1 DEF LedgerBalances, RowsWithinLimits
<1>6. DrainedMeansEmpty'
  <2> SUFFICES ASSUME drain' = "drained" PROVE PendingRows(queue', inFlight') = 0 /\ unknown' = 0
    BY DEF DrainedMeansEmpty
  <2>1. Len(q) = 0
    OBVIOUS
  <2> QED BY <1>1, <1>2, <2>1 DEF PendingRows
<1>7. NoOversleep'
  BY <1>1 DEF NoOversleep
<1> QED BY <1>1, <1>3, <1>4, <1>5, <1>6, <1>7 DEF IInv

\* A run of the worker with the queue it has, nothing else changing.
LEMMA RerunKeeps ==
    ASSUME IInv, RunWorker(queue, queuedBytes, backoff, drain), worker # "exporting",
           backoff' = backoff, exponential' = exponential, drain' = drain,
           abandonInFlight' = abandonInFlight, exited' = exited, accepted' = accepted,
           committed' = committed, dropped' = dropped, unknown' = unknown
    PROVE  IInv'
<1>1. inFlight = <<>> /\ Len(inFlight) = 0
  BY DEF IInv, Phases
<1>2. /\ TypeOK /\ queue \in Seq(Entries) /\ Len(queue) \in Nat
      /\ MaxQueueRows \in Nat /\ backoff \in Nat
  BY OptionsAssumption, LenProperties DEF IInv, TypeOK
<1>3. Sound(queue, accepted)
  BY <1>1, <1>2, ConcatEmptySeq DEF IInv
<1>4. accepted = committed + dropped + unknown + Len(queue) /\ Len(queue) <= MaxQueueRows
  BY <1>1, <1>2 DEF IInv, TypeOK, LedgerBalances, RowsWithinLimits, PendingRows
<1>5. /\ drain # "timedOut" => unknown = 0 /\ ~abandonInFlight
      /\ drain = "timedOut" => queue = <<>> /\ abandonInFlight
  BY DEF IInv, Phases
<1>6. drain = "drained" => queue = <<>>
  BY <1>1, <1>2, EmptySeq DEF IInv, DrainedMeansEmpty, PendingRows
<1>7. /\ exponential' \in Nat /\ exited' \in BOOLEAN /\ accepted' \in Nat /\ committed' \in Nat
      /\ dropped' \in Nat /\ unknown' \in Nat
      /\ drain' \in {"none", "waiting", "drained", "timedOut"}
  BY <1>2 DEF TypeOK
<1> QED BY <1>2, <1>3, <1>4, <1>5, <1>6, <1>7, RunKeeps

\* The same after an export: a waiting drain is told of an empty buffer first.
LEMMA NotifiedRunKeeps ==
    ASSUME IInv, NEW q \in Seq(Entries), NEW qb, NEW blocked \in Nat,
           RunWorker(q, qb, blocked, drain), NotifyEmpty(q, <<>>),
           backoff' = blocked, exponential' \in Nat, ~abandonInFlight,
           abandonInFlight' = abandonInFlight, exited' = exited, accepted' = accepted,
           committed' \in Nat, dropped' \in Nat, unknown' = unknown,
           accepted' = committed' + dropped' + unknown' + Len(q),
           Sound(q, accepted'), Len(q) <= MaxQueueRows, drain = "drained" => q = <<>>
    PROVE  IInv'
<1>1. drain # "timedOut" /\ unknown = 0 /\ Len(q) \in Nat /\ TypeOK
  BY LenProperties DEF IInv, Phases
<1>2. drain' = drain \/ (q = <<>> /\ drain' = "drained")
  BY <1>1, EmptySeq DEF NotifyEmpty, PendingRows
<1>3. RunWorker(q, qb, blocked, drain')
  <2>1. CASE drain' = drain
    BY <2>1
  <2>2. CASE q = <<>>
    BY <2>2 DEF RunWorker
  <2> QED BY <1>2, <2>1, <2>2
<1>4. /\ exited' \in BOOLEAN /\ accepted' \in Nat /\ unknown' \in Nat /\ unknown' = 0
      /\ drain' \in {"none", "waiting", "drained", "timedOut"} /\ drain' # "timedOut"
      /\ drain' = "drained" => q = <<>>
  BY <1>1, <1>2 DEF TypeOK
<1> QED BY <1>1, <1>3, <1>4, RunKeeps

-----------------------------------------------------------------------------
(* Each action keeps the invariant. *)

LEMMA EnqueueKeeps ==
    ASSUME IInv, NEW sizes \in Envelopes, Enqueue(sizes)
    PROVE  IInv'
<1> DEFINE rows    == Fitting(sizes)
           entries == [i \in 1..Len(rows) |->
                          [id |-> accepted + i, bytes |-> rows[i], age |-> 0]]
<1>0. /\ MaxBatchRows \in Nat /\ MaxQueueRows \in Nat
      /\ TypeOK /\ Len(queue) \in Nat /\ Len(inFlight) \in Nat
  BY OptionsAssumption DEF IInv, TypeOK
<1>1. rows \in Seq(Nat) /\ Len(rows) \in Nat
  <2>1. sizes \in Seq(Nat)
    BY OptionsAssumption
  <2> QED BY <2>1, FittingFacts
<1>2. entries \in Seq(Entries) /\ Len(entries) = Len(rows)
      /\ \A i \in DOMAIN entries : entries[i].id = accepted + i
  BY <1>0, <1>1 DEF TypeOK, Entries
<1>3. /\ drain = "none" /\ accepted' = accepted + Len(entries)
      /\ Len(queue) + Len(inFlight) + Len(entries) <= MaxQueueRows
      /\ backoff' = backoff /\ exponential' = exponential /\ drain' = drain
      /\ abandonInFlight' = abandonInFlight /\ exited' = exited
      /\ committed' = committed /\ dropped' = dropped /\ unknown' = unknown
  BY <1>0, <1>2 DEF Enqueue, HasRoom, PendingRows, pace
<1>4. EnsureWorker(queue \o entries, queuedBytes + Bytes(entries), "none")
  BY DEF Enqueue
<1> HIDE DEF rows, entries
<1>5. /\ queue \o entries \in Seq(Entries)
      /\ Len(queue \o entries) = Len(queue) + Len(entries)
      /\ inFlight \o queue \in Seq(Entries)
  BY <1>0, <1>2, ConcatProperties DEF TypeOK
<1>5a. inFlight \o (queue \o entries) = (inFlight \o queue) \o entries
  BY <1>0, <1>2, ConcatAssociative DEF TypeOK
<1>6. Sound((inFlight \o queue) \o entries, accepted + Len(entries))
  BY <1>0, <1>2, <1>5, AppendSound DEF IInv, TypeOK
<1>7. CASE worker # "none" \/ queue \o entries = <<>>
  <2>1. /\ sleep' = 0 /\ queue' = queue \o entries /\ inFlight' = inFlight
        /\ worker' = worker /\ tokenWait' = tokenWait
    BY <1>4, <1>7 DEF EnsureWorker, Wake
  <2>2. TypeOK'
    BY <1>0, <1>1, <1>2, <1>3, <1>5, <2>1 DEF TypeOK
  <2>3. Phases' /\ DrainedMeansEmpty'
    BY <1>3, <2>1 DEF IInv, Phases, DrainedMeansEmpty
  <2>4. LedgerBalances' /\ RowsWithinLimits'
    BY <1>0, <1>1, <1>2, <1>3, <1>5, <2>1
       DEF IInv, TypeOK, LedgerBalances, RowsWithinLimits, PendingRows
  <2>5. Sound(inFlight \o queue, accepted)'
    BY <1>3, <1>5a, <1>6, <2>1
  <2>6. NoOversleep'
    BY <2>1, <2>2, WokenDoesNotOversleep
  <2> QED BY <2>2, <2>3, <2>4, <2>5, <2>6 DEF IInv
<1>8. CASE ~(worker # "none" \/ queue \o entries = <<>>)
  <2>1. RunWorker(queue \o entries, queuedBytes + Bytes(entries), backoff, "none")
    BY <1>4, <1>8 DEF EnsureWorker
  <2>2. inFlight = <<>>
    BY <1>8 DEF IInv, Phases
  <2>3. Sound(queue \o entries, accepted')
    BY <1>3, <1>5, <1>5a, <1>6, <2>2, ConcatEmptySeq
  <2>4. /\ unknown' = 0 /\ ~abandonInFlight
        /\ accepted' \in Nat /\ committed' \in Nat /\ dropped' \in Nat /\ unknown' \in Nat
        /\ exponential' \in Nat /\ exited' \in BOOLEAN /\ backoff \in Nat
    BY <1>0, <1>1, <1>2, <1>3 DEF IInv, TypeOK, Phases
  <2>5. accepted' = committed' + dropped' + unknown' + Len(queue \o entries)
    BY <1>0, <1>1, <1>2, <1>3, <1>5, <2>2 DEF IInv, TypeOK, LedgerBalances, PendingRows
  <2>6. Len(queue \o entries) <= MaxQueueRows
    BY <1>0, <1>1, <1>2, <1>3, <1>5
  <2>7. drain' = "none"
    BY <1>3
  <2> QED BY <1>0, <1>3, <1>5, <2>1, <2>3, <2>4, <2>5, <2>6, <2>7, RunKeeps
<1> QED BY <1>7, <1>8

\* The worker runs on with what was pending when nothing is in flight.
LEMMA ResumeKeeps ==
    ASSUME IInv, Resume
    PROVE  IInv'
<1>1. /\ RunWorker(queue, queuedBytes, backoff, drain) /\ worker = "waiting"
      /\ backoff' = backoff /\ exponential' = exponential /\ drain' = drain
      /\ abandonInFlight' = abandonInFlight /\ exited' = exited /\ accepted' = accepted
      /\ committed' = committed /\ dropped' = dropped /\ unknown' = unknown
  BY DEF Resume, pace, ledger
<1> QED BY <1>1, RerunKeeps

\* The end of an export: the batch leaves the buffer.
LEMMA SettledKeeps ==
    ASSUME IInv, NEW ok \in BOOLEAN, ExportSettled(ok)
    PROVE  IInv'
<1>1. /\ RunWorker(queue, queuedBytes, 0, drain) /\ NotifyEmpty(queue, <<>>)
      /\ backoff' = 0 /\ exponential' = 0 /\ ~abandonInFlight
      /\ abandonInFlight' = abandonInFlight /\ exited' = exited /\ accepted' = accepted
      /\ unknown' = unknown
  BY DEF ExportSettled, NextIteration
<1>2. /\ TypeOK /\ Len(queue) \in Nat /\ Len(inFlight) \in Nat /\ MaxQueueRows \in Nat
  BY OptionsAssumption, LenProperties DEF IInv, TypeOK
<1>3. committed' \in Nat /\ dropped' \in Nat
      /\ committed' + dropped' = committed + dropped + Len(inFlight)
  BY <1>2 DEF ExportSettled, TypeOK
<1>4. Sound(queue, accepted')
  BY <1>1, <1>2, SuffixSound DEF IInv, TypeOK
<1>5. accepted' = committed' + dropped' + unknown' + Len(queue)
  BY <1>1, <1>2, <1>3 DEF IInv, TypeOK, LedgerBalances, PendingRows
<1>6. Len(queue) <= MaxQueueRows
  BY <1>2 DEF IInv, RowsWithinLimits, PendingRows
<1>7. drain = "drained" => queue = <<>>
  BY <1>2, EmptySeq DEF IInv, TypeOK, DrainedMeansEmpty, PendingRows
<1>8. queue \in Seq(Entries)
  BY <1>2 DEF TypeOK
<1> QED BY <1>1, <1>3, <1>4, <1>5, <1>6, <1>7, <1>8, NotifiedRunKeeps

\* A rate-limited export: the batch goes back to the head of the queue.
LEMMA RateLimitedKeeps ==
    ASSUME IInv, NEW after \in RetryAfters, ExportRateLimited(after)
    PROVE  IInv'
<1> DEFINE b == Greatest(Doubled, Least(MaxBackoff, after))
<1>1. /\ RunWorker(inFlight \o queue, RequeuedBytes, b, drain)
      /\ NotifyEmpty(inFlight \o queue, <<>>)
      /\ backoff' = b /\ exponential' = Doubled /\ ~abandonInFlight
      /\ abandonInFlight' = abandonInFlight /\ exited' = exited /\ accepted' = accepted
      /\ unknown' = unknown /\ committed' = committed /\ dropped' = dropped
  BY DEF ExportRateLimited, NextIteration, Requeued
<1>2. /\ TypeOK /\ Len(queue) \in Nat /\ Len(inFlight) \in Nat /\ MaxQueueRows \in Nat
      /\ inFlight \o queue \in Seq(Entries)
      /\ Len(inFlight \o queue) = Len(inFlight) + Len(queue)
  BY OptionsAssumption, LenProperties, ConcatProperties DEF IInv, TypeOK
<1>3. Doubled \in Nat /\ b \in Nat
  BY <1>2, OptionsAssumption DEF Doubled, TypeOK, Greatest, Least
<1>4. Sound(inFlight \o queue, accepted')
  BY <1>1 DEF IInv
<1>5. accepted' = committed' + dropped' + unknown' + Len(inFlight \o queue)
  BY <1>1, <1>2 DEF IInv, TypeOK, LedgerBalances, PendingRows
<1>6. Len(inFlight \o queue) <= MaxQueueRows
  BY <1>2 DEF IInv, RowsWithinLimits, PendingRows
<1>7. committed' \in Nat /\ dropped' \in Nat
  BY <1>1, <1>2 DEF TypeOK
<1>8. drain = "drained" => inFlight \o queue = <<>>
  BY <1>2, EmptySeq DEF IInv, DrainedMeansEmpty, PendingRows
<1> HIDE DEF b
<1> QED BY <1>1, <1>2, <1>3, <1>4, <1>5, <1>6, <1>7, <1>8, NotifiedRunKeeps

\* The end of an export that a drain gave up.
LEMMA AbandonedKeeps ==
    ASSUME IInv, ExportAbandoned
    PROVE  IInv'
<1>1. /\ queue' = queue /\ inFlight' = <<>> /\ worker' = "ended" /\ sleep' = sleep
      /\ tokenWait' = tokenWait /\ backoff' = backoff /\ exponential' = exponential
      /\ drain' = drain /\ abandonInFlight' = abandonInFlight /\ exited' = exited
      /\ accepted' = accepted /\ committed' = committed /\ dropped' = dropped
      /\ unknown' = unknown /\ abandonInFlight
  BY DEF ExportAbandoned, pace, ledger
<1>2. queue = <<>> /\ inFlight = <<>>
  BY <1>1 DEF IInv, Phases
<1>3. TypeOK' /\ Phases'
  BY <1>1, <1>2 DEF IInv, TypeOK, Phases
<1>4. LedgerBalances' /\ Sound(inFlight \o queue, accepted)' /\ RowsWithinLimits'
      /\ DrainedMeansEmpty'
  BY <1>1, <1>2 DEF IInv, LedgerBalances, RowsWithinLimits, DrainedMeansEmpty
<1>5. NoOversleep'
  BY <1>1 DEF NoOversleep
<1> QED BY <1>3, <1>4, <1>5 DEF IInv

\* The finally block of the worker.
LEMMA FinallyKeeps ==
    ASSUME IInv, WorkerFinally
    PROVE  IInv'
<1>1. /\ worker = "ended" /\ backoff' = backoff /\ exponential' = exponential
      /\ abandonInFlight' = abandonInFlight /\ exited' = exited /\ accepted' = accepted
      /\ committed' = committed /\ dropped' = dropped /\ unknown' = unknown
      /\ NotifyEmpty(queue, inFlight)
  BY DEF WorkerFinally, pace, ledger
<1>2. inFlight = <<>> /\ Len(inFlight) = 0
  BY <1>1 DEF IInv, Phases
<1>3. CASE Restarts
  <2>1. RunWorker(queue, queuedBytes, backoff, drain) /\ queue # <<>>
    BY <1>3 DEF WorkerFinally, Restarts
  <2>2. Len(queue) \in Nat /\ Len(queue) > 0
    BY <2>1, EmptySeq, LenProperties DEF IInv, TypeOK
  <2>3. drain' = drain
    BY <1>1, <1>2, <2>2 DEF NotifyEmpty, PendingRows
  <2> QED BY <1>1, <2>1, <2>3, RerunKeeps
<1>4. CASE ~Restarts
  <2>1. /\ worker' = "none" /\ queue' = queue /\ inFlight' = inFlight
        /\ sleep' = sleep /\ tokenWait' = tokenWait
    BY <1>4 DEF WorkerFinally, pool
  <2>2. drain' = drain \/ (drain = "waiting" /\ drain' = "drained" /\ PendingRows(queue, inFlight) = 0)
    BY <1>1 DEF NotifyEmpty
  <2>3. TypeOK' /\ Phases'
    BY <1>1, <1>2, <2>1, <2>2 DEF IInv, TypeOK, Phases
  <2>4. LedgerBalances' /\ Sound(inFlight \o queue, accepted)' /\ RowsWithinLimits'
    BY <1>1, <2>1 DEF IInv, LedgerBalances, RowsWithinLimits
  <2>5. DrainedMeansEmpty'
    BY <1>1, <2>1, <2>2 DEF IInv, DrainedMeansEmpty, Phases
  <2>6. NoOversleep'
    BY <2>1 DEF NoOversleep
  <2> QED BY <2>3, <2>4, <2>5, <2>6 DEF IInv
<1> QED BY <1>3, <1>4

\* The first signal.
LEMMA DrainBeginsKeeps ==
    ASSUME IInv, DrainBegins
    PROVE  IInv'
<1>1. /\ drain = "none" /\ backoff' = backoff /\ exponential' = exponential
      /\ abandonInFlight' = abandonInFlight /\ exited' = exited /\ accepted' = accepted
      /\ committed' = committed /\ dropped' = dropped /\ unknown' = unknown
      /\ EnsureWorker(queue, queuedBytes, "waiting")
      /\ drain' = IF PendingRows(queue, inFlight) = 0 THEN "drained" ELSE "waiting"
  BY DEF DrainBegins, pace, ledger
<1>2. CASE worker # "none" \/ queue = <<>>
  <2>1. /\ sleep' = 0 /\ queue' = queue /\ inFlight' = inFlight
        /\ worker' = worker /\ tokenWait' = tokenWait
    BY <1>1, <1>2 DEF EnsureWorker, Wake
  <2>2. TypeOK' /\ Phases'
    BY <1>1, <2>1 DEF IInv, TypeOK, Phases
  <2>3. LedgerBalances' /\ Sound(inFlight \o queue, accepted)' /\ RowsWithinLimits'
    BY <1>1, <2>1 DEF IInv, LedgerBalances, RowsWithinLimits
  <2>4. DrainedMeansEmpty'
    BY <1>1, <2>1 DEF IInv, DrainedMeansEmpty, Phases
  <2>5. NoOversleep'
    BY <2>1, <2>2, WokenDoesNotOversleep
  <2> QED BY <2>2, <2>3, <2>4, <2>5 DEF IInv
<1>3. CASE ~(worker # "none" \/ queue = <<>>)
  <2>1. RunWorker(queue, queuedBytes, backoff, "waiting") /\ queue # <<>> /\ worker = "none"
    BY <1>1, <1>3 DEF EnsureWorker
  <2>2. Len(queue) \in Nat /\ Len(queue) > 0 /\ inFlight = <<>> /\ Len(inFlight) = 0
    BY <2>1, EmptySeq, LenProperties DEF IInv, TypeOK, Phases
  <2>3. drain' = "waiting"
    BY <1>1, <2>2 DEF PendingRows
  <2>4. /\ TypeOK /\ Sound(queue, accepted) /\ unknown = 0 /\ ~abandonInFlight
        /\ accepted = committed + dropped + unknown + Len(queue)
    BY <1>1, <2>2, ConcatEmptySeq DEF IInv, TypeOK, Phases, LedgerBalances, PendingRows
  <2>5. Len(queue) <= MaxQueueRows
    BY <2>2, OptionsAssumption DEF IInv, RowsWithinLimits, PendingRows
  <2>6. queue \in Seq(Entries) /\ backoff \in Nat /\ exponential' \in Nat /\ exited' \in BOOLEAN
        /\ accepted' \in Nat /\ committed' \in Nat /\ dropped' \in Nat /\ unknown' \in Nat
    BY <1>1, <2>4 DEF TypeOK
  <2> QED BY <1>1, <2>1, <2>3, <2>4, <2>5, <2>6, RunKeeps
<1> QED BY <1>2, <1>3

\* The timeout of drain: what is queued is dropped, what is in flight given up.
LEMMA TimesOutKeeps ==
    ASSUME IInv, DrainTimesOut
    PROVE  IInv'
<1>1. /\ drain' = "timedOut" /\ dropped' = dropped + Len(queue)
      /\ unknown' = unknown + Len(inFlight) /\ queue' = <<>> /\ inFlight' = <<>>
      /\ abandonInFlight' = TRUE /\ sleep' = 0 /\ worker' = worker
      /\ tokenWait' = tokenWait /\ backoff' = backoff /\ exponential' = exponential
      /\ exited' = exited /\ accepted' = accepted /\ committed' = committed
  BY DEF DrainTimesOut, Wake, pace
<1>2. Len(queue) \in Nat /\ Len(inFlight) \in Nat /\ MaxQueueRows \in Nat /\ MaxBatchRows \in Nat
  BY OptionsAssumption, LenProperties DEF IInv, TypeOK
<1>3. TypeOK' /\ Phases'
  BY <1>1, <1>2 DEF IInv, TypeOK, Phases
<1>4. LedgerBalances' /\ RowsWithinLimits'
  BY <1>1, <1>2 DEF IInv, TypeOK, LedgerBalances, RowsWithinLimits, PendingRows
<1>5. Sound(inFlight \o queue, accepted)'
  <2>1. <<>> \o <<>> = <<>>
    BY ConcatEmptySeq, EmptySeq
  <2> QED BY <1>1, <2>1 DEF Sound, Ordered
<1>6. DrainedMeansEmpty'
  BY <1>1 DEF DrainedMeansEmpty
<1>7. NoOversleep'
  BY <1>1, <1>3, WokenDoesNotOversleep
<1> QED BY <1>3, <1>4, <1>5, <1>6, <1>7 DEF IInv

\* The exit of the process.
LEMMA ExitKeeps ==
    ASSUME IInv, Exit
    PROVE  IInv'
<1>1. /\ UNCHANGED <<queue, queuedBytes, inFlight, worker, sleep, tokenWait, backoff,
                     exponential, drain, abandonInFlight, accepted, committed, dropped,
                     unknown>>
      /\ exited' = TRUE
  BY DEF Exit, pool, loop, pace, ledger
<1>2. TypeOK'
  BY <1>1 DEF IInv, TypeOK
<1> QED BY <1>1, <1>2 DEF IInv, Phases, LedgerBalances, RowsWithinLimits,
                          DrainedMeansEmpty, NoOversleep

\* Getting older moves nothing.
LEMMA OlderFacts ==
    ASSUME NEW q \in Seq(Entries)
    PROVE  /\ Older(q) \in Seq(Entries) /\ Len(Older(q)) = Len(q)
           /\ \A i \in DOMAIN q : /\ Older(q)[i].id = q[i].id
                                  /\ Older(q)[i].age = Least(MaxBatchAge, q[i].age + 1)
<1> DEFINE older(x) == [x EXCEPT !.age = Least(MaxBatchAge, @ + 1)]
<1>1. ASSUME NEW x \in Entries
      PROVE  /\ older(x) \in Entries /\ older(x).id = x.id
             /\ older(x).age = Least(MaxBatchAge, x.age + 1)
  <2>1. Least(MaxBatchAge, x.age + 1) \in Nat
    BY OptionsAssumption DEF Entries, Least
  <2>2. x = [id |-> x.id, bytes |-> x.bytes, age |-> x.age]
        /\ x.id \in Nat /\ x.bytes \in Nat
    BY DEF Entries
  <2>3. older(x) = [id |-> x.id, bytes |-> x.bytes, age |-> Least(MaxBatchAge, x.age + 1)]
    BY <2>2
  <2> QED BY <2>1, <2>2, <2>3 DEF Entries
<1>2. Older(q) = [i \in DOMAIN q |-> older(q[i])]
  BY DEF Older
<1>3. \A i \in DOMAIN q : q[i] \in Entries
  OBVIOUS
<1> HIDE DEF older
<1>4. Len(q) \in Nat /\ DOMAIN q = 1..Len(q)
  OBVIOUS
<1>5. Older(q) \in Seq(Entries) /\ Len(Older(q)) = Len(q)
  BY <1>1, <1>2, <1>3, <1>4
<1> QED BY <1>1, <1>2, <1>3, <1>5

\* Time passes: a wait shrinks by no more than a tick.
LEMMA TickKeeps ==
    ASSUME IInv, Tick
    PROVE  IInv'
<1>1. /\ queue' = Older(queue) /\ inFlight' = Older(inFlight)
      /\ sleep' = Left(sleep) /\ tokenWait' = Left(tokenWait)
      /\ backoff' = Left(backoff)
      /\ queuedBytes' = queuedBytes /\ worker' = worker /\ exponential' = exponential
      /\ drain' = drain /\ abandonInFlight' = abandonInFlight /\ exited' = exited
      /\ accepted' = accepted /\ committed' = committed /\ dropped' = dropped
      /\ unknown' = unknown
  BY DEF Tick, ledger
<1>2. /\ TypeOK /\ queue \in Seq(Entries) /\ inFlight \in Seq(Entries)
      /\ Len(queue) \in Nat /\ Len(inFlight) \in Nat
  BY LenProperties DEF IInv, TypeOK
<1>3. /\ queue' \in Seq(Entries) /\ inFlight' \in Seq(Entries)
      /\ Len(queue') = Len(queue) /\ Len(inFlight') = Len(inFlight)
      /\ \A i \in DOMAIN queue : queue'[i].id = queue[i].id
      /\ \A i \in DOMAIN inFlight : inFlight'[i].id = inFlight[i].id
  BY <1>1, <1>2, OlderFacts
<1>4. TypeOK'
  BY <1>1, <1>2, <1>3 DEF TypeOK, Left, Greatest
<1>5. Phases'
  <2>1. /\ queue = <<>> => queue' = <<>>
        /\ inFlight = <<>> => inFlight' = <<>>
    BY <1>2, <1>3, EmptySeq
  <2> QED BY <1>1, <2>1 DEF IInv, Phases
<1>6. LedgerBalances' /\ RowsWithinLimits' /\ DrainedMeansEmpty'
  BY <1>1, <1>3 DEF IInv, LedgerBalances, RowsWithinLimits, DrainedMeansEmpty, PendingRows
<1>7. Sound(inFlight \o queue, accepted)'
  <2> DEFINE p == inFlight \o queue
             n == inFlight' \o queue'
  <2>1. /\ DOMAIN p = 1..(Len(inFlight) + Len(queue)) /\ DOMAIN n = DOMAIN p
        /\ DOMAIN inFlight = 1..Len(inFlight) /\ DOMAIN queue = 1..Len(queue)
    BY <1>2, <1>3
  <2>2. ASSUME NEW i \in DOMAIN p PROVE n[i].id = p[i].id
    <3>1. CASE i <= Len(inFlight)
      <4>1. n[i] = inFlight'[i] /\ p[i] = inFlight[i] /\ i \in DOMAIN inFlight
        BY <1>2, <1>3, <2>1, <3>1, ConcatProperties
      <4> QED BY <4>1, <1>3
    <3>2. CASE i > Len(inFlight)
      <4> DEFINE k == i - Len(inFlight)
      <4>1. n[i] = queue'[k] /\ p[i] = queue[k] /\ k \in DOMAIN queue
        BY <1>2, <1>3, <2>1, <3>2, ConcatProperties
      <4> QED BY <4>1, <1>3
    <3> QED BY <1>2, <2>1, <3>1, <3>2
  <2>3. Sound(p, accepted)
    BY DEF IInv
  <2> HIDE DEF p, n
  <2>4. Sound(n, accepted)
    BY <2>1, <2>2, <2>3 DEF Sound, Ordered
  <2> QED BY <1>1, <2>4 DEF n
<1>8. NoOversleep'
  <2> SUFFICES ASSUME worker' = "waiting", queue' # <<>>
               PROVE  sleep' <= WaitBeforeNextAttempt(queue', queuedBytes', tokenWait',
                                                      backoff', drain')
    BY DEF NoOversleep
  <2>1. queue # <<>> /\ Len(queue) >= 1
    BY <1>2, <1>3, EmptySeq
  <2>2. sleep <= WaitBeforeNextAttempt(queue, queuedBytes, tokenWait, backoff, drain)
    BY <1>1, <2>1 DEF IInv, NoOversleep
  <2>3. queue[1] \in Entries /\ 1 \in DOMAIN queue
    BY <1>2, <2>1
  <2>4. /\ queue[1].age \in Nat
        /\ queue'[1].age = Least(MaxBatchAge, queue[1].age + 1)
    BY <1>1, <1>2, <2>3, OlderFacts DEF Entries
  <2>5. BatchThresholdReached(queue', queuedBytes') <=> BatchThresholdReached(queue, queuedBytes)
    BY <1>1, <1>3 DEF BatchThresholdReached
  <2>6. MaxBatchAge \in Nat /\ sleep \in Nat /\ tokenWait \in Nat /\ backoff \in Nat
    BY <1>2, OptionsAssumption DEF TypeOK
  <2> QED BY <1>1, <2>2, <2>4, <2>5, <2>6 DEF WaitBeforeNextAttempt, Left, Greatest, Least
<1> QED BY <1>4, <1>5, <1>6, <1>7, <1>8 DEF IInv

-----------------------------------------------------------------------------
(* Bytes. *)

\* No entry is larger than a batch may be.
Sized(entries) == \A i \in DOMAIN entries : entries[i].bytes <= MaxBatchBytes

\* The limits of bytes are inductive once no entry exceeds a batch: the batch
\* takeBatch makes of a single entry fits for no other reason.
BytesInv == Sized(queue) /\ Sized(inFlight) /\ BytesWithinLimits

\* The sizes of what is pending add up in the naturals.
LEMMA PendingNats ==
    ASSUME TypeOK, BytesInv
    PROVE  /\ Bytes(queue) \in Nat /\ Bytes(inFlight) \in Nat /\ queuedBytes = Bytes(queue)
           /\ MaxQueueBytes \in Nat /\ MaxBatchBytes \in Nat /\ MaxBatchBytes <= MaxQueueBytes
           /\ Bytes(queue) + Bytes(inFlight) <= MaxQueueBytes
           /\ Bytes(queue) <= MaxQueueBytes /\ Bytes(inFlight) <= MaxBatchBytes
<1>1. /\ MaxQueueBytes \in Nat /\ MaxBatchBytes \in Nat /\ MaxBatchBytes <= MaxQueueBytes
  BY OptionsAssumption
<1>2. Bytes(queue) \in Nat /\ Bytes(inFlight) \in Nat
  BY BytesNat DEF TypeOK
<1>3. /\ queuedBytes = Bytes(queue) /\ queuedBytes + Bytes(inFlight) <= MaxQueueBytes
      /\ Bytes(inFlight) <= MaxBatchBytes
  BY DEF BytesInv, BytesWithinLimits, PendingBytes
<1> QED BY <1>1, <1>2, <1>3

\* takeBatch moves its bytes out of the count with its entries.
LEMMA RunKeepsBytes ==
    ASSUME NEW q \in Seq(Entries), Sized(q), NEW qb, qb = Bytes(q), qb <= MaxQueueBytes,
           NEW blocked, NEW d, RunWorker(q, qb, blocked, d)
    PROVE  BytesInv'
<1> DEFINE wait == WaitBeforeNextAttempt(q, qb, tokenWait, blocked, d)
<1>0. MaxQueueBytes \in Nat /\ MaxBatchBytes \in Nat /\ MaxBatchBytes <= MaxQueueBytes
  BY OptionsAssumption
<1>1. Bytes(q) \in Nat /\ Len(q) \in Nat /\ DOMAIN q = 1..Len(q)
  BY BytesNat
<1>2. CASE queue' = q /\ queuedBytes' = qb /\ inFlight' = <<>>
  <2>1. Sized(<<>>)
    BY DEF Sized
  <2>2. Bytes(inFlight') = 0
    BY <1>2, BytesEmpty
  <2> QED BY <1>0, <1>1, <1>2, <2>1, <2>2 DEF BytesInv, BytesWithinLimits, PendingBytes
<1>3. CASE \E n \in 1..Len(q) : /\ IsBatch(q, n)
                                /\ inFlight' = SubSeq(q, 1, n)
                                /\ queue' = SubSeq(q, n + 1, Len(q))
                                /\ queuedBytes' = qb - Bytes(SubSeq(q, 1, n))
  <2>1. PICK n \in 1..Len(q) : /\ IsBatch(q, n)
                               /\ inFlight' = SubSeq(q, 1, n)
                               /\ queue' = SubSeq(q, n + 1, Len(q))
                               /\ queuedBytes' = qb - Bytes(SubSeq(q, 1, n))
    BY <1>3
  <2> DEFINE b == SubSeq(q, 1, n)
             r == SubSeq(q, n + 1, Len(q))
  <2>2. /\ b \in Seq(Entries) /\ Len(b) = n
        /\ r \in Seq(Entries) /\ Len(r) = Len(q) - n
    <3>1. Len(q) \in Nat
      OBVIOUS
    <3>2. /\ SubSeq(q, 1, n) \in Seq(Entries) /\ Len(SubSeq(q, 1, n)) = n
          /\ SubSeq(q, n + 1, Len(q)) \in Seq(Entries)
          /\ Len(SubSeq(q, n + 1, Len(q))) = Len(q) - n
      BY <3>1, SubSeqProperties
    <3> QED BY <3>2
  <2>3. b \o r = q
    <3>1. SubSeq(q, 1, n) \o SubSeq(q, n + 1, Len(q)) = SubSeq(q, 1, Len(q))
      <4>1. 1 \in 1..(Len(q) + 1) /\ n \in (1 - 1)..Len(q) /\ Len(q) \in n..Len(q)
        BY <1>1
      <4> QED BY <4>1, ConcatAdjacentSubSeq
    <3> QED BY <3>1, SubSeqFull
  <2>4. n > 1 => Bytes(b) <= MaxBatchBytes
    BY <2>1 DEF IsBatch
  <2>5. inFlight' = b /\ queue' = r /\ queuedBytes' = qb - Bytes(b)
    BY <2>1
  <2> HIDE DEF b, r
  <2>6. Bytes(q) = Bytes(b) + Bytes(r) /\ Bytes(b) \in Nat /\ Bytes(r) \in Nat
    BY <2>2, <2>3, BytesConcat, BytesNat
  <2>7. Sized(b) /\ Sized(r)
    <3>1. DOMAIN b = 1..n /\ DOMAIN r = 1..(Len(q) - n)
      BY <2>2
    <3>2. \A i \in 1..n : i \in DOMAIN q
      BY <1>1
    <3>3. \A i \in 1..(Len(q) - n) : n + i \in DOMAIN q
      BY <1>1
    <3>4. \A i \in 1..n : b[i] = q[i]
      BY <2>2, <2>3, ConcatProperties
    <3>5. ASSUME NEW i \in 1..(Len(q) - n) PROVE r[i] = q[n + i]
      <4>1. (b \o r)[n + i] = r[(n + i) - n] /\ (n + i) - n = i
        BY <1>1, <2>2, ConcatProperties
      <4> QED BY <2>3, <4>1
    <3> QED BY <3>1, <3>2, <3>3, <3>4, <3>5 DEF Sized
  <2>8. Bytes(b) <= MaxBatchBytes
    <3>1. CASE n > 1
      BY <2>4, <3>1
    <3>2. CASE n = 1
      <4>1. Bytes(b) = b[1].bytes /\ 1 \in DOMAIN b
        BY <2>2, <3>2, BytesSingle
      <4> QED BY <2>7, <4>1 DEF Sized
    <3> QED BY <3>1, <3>2
  <2>9. /\ queuedBytes' = Bytes(queue') /\ Bytes(inFlight') = Bytes(b)
        /\ queuedBytes' + Bytes(inFlight') <= MaxQueueBytes
    BY <1>0, <2>5, <2>6
  <2> QED BY <2>5, <2>7, <2>8, <2>9 DEF BytesInv, BytesWithinLimits, PendingBytes
<1>4. (q = <<>> \/ abandonInFlight) => (queue' = q /\ queuedBytes' = qb /\ inFlight' = <<>>)
  BY DEF RunWorker
<1>5. (~(q = <<>> \/ abandonInFlight) /\ wait > 0)
         => (queue' = q /\ queuedBytes' = qb /\ inFlight' = <<>>)
  BY DEF RunWorker
<1>6. (~(q = <<>> \/ abandonInFlight) /\ ~(wait > 0))
         => \E n \in 1..Len(q) : /\ IsBatch(q, n)
                                 /\ inFlight' = SubSeq(q, 1, n)
                                 /\ queue' = SubSeq(q, n + 1, Len(q))
                                 /\ queuedBytes' = qb - Bytes(SubSeq(q, 1, n))
  BY DEF RunWorker
<1> QED BY <1>2, <1>3, <1>4, <1>5, <1>6

\* A run of the worker with the queue it has.
LEMMA RerunKeepsBytes ==
    ASSUME TypeOK, BytesInv, NEW blocked, NEW d, RunWorker(queue, queuedBytes, blocked, d)
    PROVE  BytesInv'
<1>1. queue \in Seq(Entries) /\ Sized(queue)
  BY DEF TypeOK, BytesInv
<1> QED BY <1>1, PendingNats, RunKeepsBytes

\* Two sized sequences end to end.
LEMMA ConcatSized ==
    ASSUME NEW s \in Seq(Entries), NEW t \in Seq(Entries), Sized(s), Sized(t)
    PROVE  s \o t \in Seq(Entries) /\ Sized(s \o t)
<1>1. /\ Len(s) \in Nat /\ Len(t) \in Nat /\ DOMAIN s = 1..Len(s) /\ DOMAIN t = 1..Len(t)
      /\ s \o t \in Seq(Entries) /\ DOMAIN (s \o t) = 1..(Len(s) + Len(t))
  OBVIOUS
<1>2. ASSUME NEW i \in DOMAIN (s \o t) PROVE (s \o t)[i].bytes <= MaxBatchBytes
  <2>1. CASE i <= Len(s)
    <3>1. (s \o t)[i] = s[i] /\ i \in DOMAIN s
      BY <1>1, <2>1
    <3> QED BY <3>1 DEF Sized
  <2>2. CASE i > Len(s)
    <3>1. (s \o t)[i] = t[i - Len(s)] /\ i - Len(s) \in DOMAIN t
      BY <1>1, <2>2, ConcatProperties
    <3> QED BY <3>1 DEF Sized
  <2> QED BY <1>1, <2>1, <2>2
<1> QED BY <1>1, <1>2 DEF Sized

LEMMA EnqueueKeepsBytes ==
    ASSUME IInv, BytesInv, NEW sizes \in Envelopes, Enqueue(sizes)
    PROVE  BytesInv'
<1> DEFINE rows    == Fitting(sizes)
           entries == [i \in 1..Len(rows) |->
                          [id |-> accepted + i, bytes |-> rows[i], age |-> 0]]
<1>0. TypeOK /\ queue \in Seq(Entries) /\ inFlight \in Seq(Entries) /\ accepted \in Nat
  BY DEF IInv, TypeOK
<1>1. rows \in Seq(Nat) /\ Len(rows) \in Nat /\ \A i \in 1..Len(rows) : rows[i] <= MaxBatchBytes
  <2>1. sizes \in Seq(Nat)
    BY OptionsAssumption
  <2> HIDE DEF rows
  <2>2. rows \in Seq(Nat) /\ \A i \in DOMAIN rows : rows[i] <= MaxBatchBytes
    BY <2>1, FittingFacts DEF rows
  <2> QED BY <2>2
<1>2. PendingBytes + Bytes(entries) <= MaxQueueBytes
  BY DEF Enqueue, HasRoom
<1>3. EnsureWorker(queue \o entries, queuedBytes + Bytes(entries), "none")
  BY DEF Enqueue
<1> HIDE DEF rows
<1>4. entries \in Seq(Entries) /\ Sized(entries)
  <2>1. entries \in Seq(Entries)
    BY <1>0, <1>1 DEF Entries
  <2>2. \A i \in DOMAIN entries : i \in 1..Len(rows) /\ entries[i].bytes = rows[i]
    OBVIOUS
  <2> QED BY <1>1, <2>1, <2>2 DEF Sized
<1> HIDE DEF entries
<1>5. Bytes(entries) \in Nat
  BY <1>4, BytesNat
<1> DEFINE q == queue \o entries
           qb == queuedBytes + Bytes(entries)
<1>6. q \in Seq(Entries) /\ Sized(q)
  BY <1>0, <1>4, ConcatSized DEF BytesInv
<1>7. /\ Bytes(queue) \in Nat /\ Bytes(inFlight) \in Nat /\ queuedBytes = Bytes(queue)
      /\ Bytes(inFlight) <= MaxBatchBytes /\ MaxQueueBytes \in Nat
  BY <1>0, PendingNats
<1>8. qb = Bytes(q)
  BY <1>0, <1>4, <1>7, BytesConcat
<1>9. qb + Bytes(inFlight) <= MaxQueueBytes /\ qb \in Nat
  BY <1>2, <1>5, <1>7 DEF PendingBytes
<1> HIDE DEF q, qb
<1>10. EnsureWorker(q, qb, "none")
  BY <1>3 DEF q, qb
<1>11. CASE worker # "none" \/ q = <<>>
  <2>1. queue' = q /\ queuedBytes' = qb /\ inFlight' = inFlight
    BY <1>10, <1>11 DEF EnsureWorker
  <2> QED BY <1>6, <1>7, <1>8, <1>9, <2>1 DEF BytesInv, BytesWithinLimits, PendingBytes
<1>12. CASE ~(worker # "none" \/ q = <<>>)
  <2>1. RunWorker(q, qb, backoff, "none")
    BY <1>10, <1>12 DEF EnsureWorker
  <2>2. qb <= MaxQueueBytes
    BY <1>7, <1>9
  <2> QED BY <1>6, <1>8, <2>1, <2>2, RunKeepsBytes
<1> QED BY <1>11, <1>12

LEMMA RateLimitedKeepsBytes ==
    ASSUME IInv, BytesInv, NEW after \in RetryAfters, ExportRateLimited(after)
    PROVE  BytesInv'
<1> DEFINE q == inFlight \o queue
           qb == queuedBytes + Bytes(inFlight)
<1>0. TypeOK /\ queue \in Seq(Entries) /\ inFlight \in Seq(Entries)
  BY DEF IInv, TypeOK
<1>1. PICK blocked : RunWorker(q, qb, blocked, drain)
  BY DEF ExportRateLimited, NextIteration, Requeued, RequeuedBytes
<1>2. q \in Seq(Entries) /\ Sized(q)
  BY <1>0, ConcatSized DEF BytesInv
<1>3. Bytes(q) = Bytes(inFlight) + Bytes(queue)
  BY <1>0, BytesConcat
<1> HIDE DEF q
<1>4. qb = Bytes(q) /\ qb <= MaxQueueBytes
  BY <1>0, <1>3, PendingNats
<1> HIDE DEF qb
<1> QED BY <1>1, <1>2, <1>4, RunKeepsBytes

\* Time changes no size.
LEMMA TickKeepsBytes ==
    ASSUME IInv, BytesInv, Tick
    PROVE  BytesInv'
<1>1. /\ queue' = Older(queue) /\ inFlight' = Older(inFlight) /\ queuedBytes' = queuedBytes
  BY DEF Tick
<1>2. ASSUME NEW s \in Seq(Entries), Sized(s)
      PROVE  Bytes(Older(s)) = Bytes(s) /\ Sized(Older(s))
  <2>1. Older(s) \in Seq(Entries) /\ Len(Older(s)) = Len(s)
    BY OlderFacts
  <2>2. ASSUME NEW i \in 1..Len(s) PROVE Older(s)[i].bytes = s[i].bytes
    <3>1. s[i] \in Entries /\ i \in DOMAIN s
      OBVIOUS
    <3>2. Older(s)[i] = [s[i] EXCEPT !.age = Least(MaxBatchAge, @ + 1)]
      BY <3>1 DEF Older
    <3> QED BY <3>1, <3>2 DEF Entries
  <2> DEFINE t == Older(s)
  <2> HIDE DEF t
  <2>3. t \in Seq(Entries) /\ Len(s) = Len(t) /\ \A i \in 1..Len(s) : s[i].bytes = t[i].bytes
    BY <2>1, <2>2 DEF t
  <2>4. Bytes(t) = Bytes(s)
    BY <2>3, BytesSame
  <2>5. Sized(t)
    BY <1>2, <2>3 DEF Sized
  <2> QED BY <2>4, <2>5 DEF t
<1>3. queue \in Seq(Entries) /\ inFlight \in Seq(Entries) /\ Sized(queue) /\ Sized(inFlight)
  BY DEF IInv, TypeOK, BytesInv
<1>4. /\ Bytes(queue') = Bytes(queue) /\ Bytes(inFlight') = Bytes(inFlight)
      /\ Sized(queue') /\ Sized(inFlight')
  BY <1>1, <1>2, <1>3
<1> QED BY <1>1, <1>4 DEF BytesInv, BytesWithinLimits, PendingBytes

\* The actions that run the worker, wake it or empty something.
LEMMA OthersKeepBytes ==
    ASSUME IInv, BytesInv,
           \/ Resume \/ WorkerFinally \/ ExportAbandoned \/ DrainBegins \/ DrainTimesOut \/ Exit
           \/ \E ok \in BOOLEAN : ExportSettled(ok)
    PROVE  BytesInv'
<1>0. TypeOK
  BY DEF IInv
<1>1. Sized(<<>>) /\ Bytes(<<>>) = 0
  BY BytesEmpty DEF Sized
<1>2. ASSUME NEW blocked, NEW d, RunWorker(queue, queuedBytes, blocked, d) PROVE BytesInv'
  BY <1>0, <1>2, RerunKeepsBytes
<1>3. ASSUME UNCHANGED <<queue, queuedBytes, inFlight>> PROVE BytesInv'
  BY <1>3 DEF BytesInv, BytesWithinLimits, PendingBytes
<1>4. CASE Resume
  BY <1>2, <1>4 DEF Resume
<1>5. CASE WorkerFinally
  BY <1>2, <1>3, <1>5 DEF WorkerFinally, pool
<1>6. CASE ExportAbandoned
  <2>1. queue' = queue /\ queuedBytes' = queuedBytes /\ inFlight' = <<>>
    BY <1>6 DEF ExportAbandoned
  <2>2. Bytes(inFlight') = 0
    BY <1>1, <2>1
  <2>3. /\ queuedBytes = Bytes(queue) /\ Bytes(queue) \in Nat /\ Bytes(queue) <= MaxQueueBytes
        /\ MaxBatchBytes \in Nat
    BY <1>0, PendingNats
  <2> QED BY <1>1, <2>1, <2>2, <2>3 DEF BytesInv, BytesWithinLimits, PendingBytes
<1>7. CASE DrainBegins
  BY <1>2, <1>3, <1>7 DEF DrainBegins, EnsureWorker
<1>8. CASE DrainTimesOut
  <2>1. queue' = <<>> /\ queuedBytes' = 0 /\ inFlight' = <<>>
    BY <1>8 DEF DrainTimesOut
  <2>2. Bytes(inFlight') = 0 /\ Bytes(queue') = 0
    BY <1>1, <2>1
  <2>3. MaxQueueBytes \in Nat /\ MaxBatchBytes \in Nat
    BY OptionsAssumption
  <2> QED BY <1>1, <2>1, <2>2, <2>3 DEF BytesInv, BytesWithinLimits, PendingBytes
<1>9. CASE Exit
  BY <1>3, <1>9 DEF Exit, pool
<1>10. CASE \E ok \in BOOLEAN : ExportSettled(ok)
  BY <1>2, <1>10 DEF ExportSettled, NextIteration
<1> QED BY <1>4, <1>5, <1>6, <1>7, <1>8, <1>9, <1>10

-----------------------------------------------------------------------------
(* Theorems. *)

\* The invariant holds of every reachable state.
THEOREM Invariance == Spec => []IInv
<1>1. Init => IInv
  <2> SUFFICES ASSUME Init PROVE IInv
    OBVIOUS
  <2>1. <<>> \o <<>> = <<>> /\ Len(<<>>) = 0
    BY ConcatEmptySeq, EmptySeq
  <2>2. TypeOK /\ Phases
    <3>1. <<>> \in Seq(Entries)
      OBVIOUS
    <3> QED BY <3>1 DEF Init, TypeOK, Phases
  <2>3. Sound(inFlight \o queue, accepted)
    BY <2>1 DEF Init, Sound, Ordered
  <2>4. LedgerBalances /\ RowsWithinLimits /\ DrainedMeansEmpty /\ NoOversleep
    BY <2>1, OptionsAssumption
       DEF Init, LedgerBalances, RowsWithinLimits, DrainedMeansEmpty, NoOversleep, PendingRows
  <2> QED BY <2>2, <2>3, <2>4 DEF IInv
<1>2. IInv /\ [Next]_vars => IInv'
  <2> SUFFICES ASSUME IInv, [Next]_vars PROVE IInv'
    OBVIOUS
  <2>1. CASE Next
    BY <2>1, EnqueueKeeps, ResumeKeeps, SettledKeeps, RateLimitedKeeps, AbandonedKeeps,
       FinallyKeeps, DrainBeginsKeeps, TimesOutKeeps, ExitKeeps, TickKeeps DEF Next
  <2>2. CASE UNCHANGED vars
    BY <2>2 DEF vars, pool, loop, pace, ledger, IInv, TypeOK, Phases, LedgerBalances,
                RowsWithinLimits, DrainedMeansEmpty, NoOversleep
  <2> QED BY <2>1, <2>2
<1> QED BY <1>1, <1>2, PTL DEF Spec

\* The variables keep their types.
THEOREM TypeCorrect == Spec => []TypeOK
<1>1. IInv => TypeOK
  BY DEF IInv
<1> QED BY <1>1, Invariance, PTL

\* Every accepted row is accounted for exactly once, at all times.
THEOREM LedgerAlwaysBalances == Spec => []LedgerBalances
<1>1. IInv => LedgerBalances
  BY DEF IInv
<1> QED BY <1>1, Invariance, PTL

\* Rows are exported in the order of acceptance, across any number of
\* rate-limited attempts.
THEOREM OrderIsKept == Spec => []FirstInFirstOut
<1>1. IInv => FirstInFirstOut
  BY DEF IInv, Sound, FirstInFirstOut
<1> QED BY <1>1, Invariance, PTL

\* The limits of rows hold at all times.
THEOREM RowLimitsHold == Spec => []RowsWithinLimits
<1>1. IInv => RowsWithinLimits
  BY DEF IInv
<1> QED BY <1>1, Invariance, PTL

\* A drain that reports "drained" lost no row.
THEOREM DrainedIsHonest == Spec => []DrainedMeansEmpty
<1>1. IInv => DrainedMeansEmpty
  BY DEF IInv
<1> QED BY <1>1, Invariance, PTL

\* No wake-up is lost: the worker never sleeps past a due attempt.
THEOREM NoLostWakeup == Spec => []NoOversleep
<1>1. IInv => NoOversleep
  BY DEF IInv
<1> QED BY <1>1, Invariance, PTL

\* The count of queued bytes is exact, and what is pending and what is exported
\* fit the limits of bytes, at all times.
THEOREM ByteLimitsHold == Spec => []BytesWithinLimits
<1>1. Init => BytesInv
  <2> SUFFICES ASSUME Init PROVE BytesInv
    OBVIOUS
  <2>1. queue = <<>> /\ queuedBytes = 0 /\ inFlight = <<>>
    BY DEF Init
  <2>2. Bytes(queue) = 0 /\ Bytes(inFlight) = 0
    BY <2>1, BytesEmpty
  <2>3. MaxQueueBytes \in Nat /\ MaxBatchBytes \in Nat
    BY OptionsAssumption
  <2> QED BY <2>1, <2>2, <2>3 DEF BytesInv, BytesWithinLimits, PendingBytes, Sized
<1>2. IInv /\ BytesInv /\ [Next]_vars => BytesInv'
  <2> SUFFICES ASSUME IInv, BytesInv, [Next]_vars PROVE BytesInv'
    OBVIOUS
  <2>1. CASE Next
    BY <2>1, EnqueueKeepsBytes, RateLimitedKeepsBytes, TickKeepsBytes, OthersKeepBytes DEF Next
  <2>2. CASE UNCHANGED vars
    BY <2>2 DEF vars, pool, BytesInv, BytesWithinLimits, PendingBytes
  <2> QED BY <2>1, <2>2
<1>3. BytesInv => BytesWithinLimits
  BY DEF BytesInv
<1> QED BY <1>1, <1>2, <1>3, Invariance, PTL DEF Spec

=============================================================================
