------------------------- MODULE RuntimeOutboxProofs -------------------------
(***************************************************************************)
(* What the runtime outcome outbox promises for all caps, launches,        *)
(* daemon instances and faults.                                            *)
(*                                                                         *)
(* Part one: what folding, sealing, sending, acknowledging and takeover do *)
(* to one queue.  Part two: the handlers as relations between contexts,    *)
(* whatever write storage fails.  Part three: the invariant of delivery.   *)
(* Part four: the invariant of what is remembered, where a human recovery  *)
(* is not torn, and what it means for the start gate.                      *)
(***************************************************************************)
EXTENDS RuntimeOutbox, SetInduction, FiniteSetTheorems, SequenceTheorems, TLAPS

-----------------------------------------------------------------------------
\* The shape of entries and queues.

\* The frame an entry was made from: itself, or the one that gave rise to it.
Origin(e) == IF e.t = "normal" THEN <<e.inst, e.seq>> ELSE <<e.id[2], e.id[3]>>

Positive == Nat \ {0}
Frames == Positive \X Positive

NormalEntry == [t : {"normal"}, inst : Positive, seq : Positive, turn : BOOLEAN, epoch : Nat]
MarkerRecord ==
    [t : {"gap", "cross"}, id : {"gap", "cross"} \X Positive \X Positive, insts : SUBSET Nat,
     frames : SUBSET Frames, epoch : Nat, sealed : BOOLEAN]
MarkerEntry ==
    {m \in MarkerRecord : /\ Origin(m) \in m.frames
                          /\ m.t = "gap" => \E i \in Nat : m.insts = {i}}
Entry == NormalEntry \cup MarkerEntry
Queue == [entries : Seq(Entry), sending : BOOLEAN, epoch : Nat, human : Nat]

\* No two entries stand for the same frame.
Distinct(s) == \A j, k \in DOMAIN s : j # k => Origin(s[j]) # Origin(s[k])

\* The frames of an instance are queued in their order.
Ascending(s) ==
    \A j, k \in DOMAIN s :
        j < k /\ s[j].t = "normal" /\ s[k].t = "normal" /\ s[j].inst = s[k].inst => s[j].seq < s[k].seq

Fixed(e) == e.t = "normal" \/ e.sealed

\* What is in flight can no longer change.
HeadFixed(q) == q.sending => q.entries # <<>> /\ Fixed(q.entries[1])

\* A frame w that went out against a frame n of queue q.
FrameAgainst(q, n, w, A) ==
    w.inst = n.inst => /\ w.seq < n.seq \/ w = n
                       /\ <<w.inst, w.seq>> \in A \/ w \in InFlight(q)

\* Queue q against the entries W that went out; A are the frames the server applied.
Against(q, W, A) ==
    \A e \in Held(q), w \in W :
        /\ e.t = "normal" /\ w.t = "normal" => FrameAgainst(q, e, w, A)
        /\ e.t = "normal" /\ w.t # "normal" => Origin(e) # Origin(w)
        /\ e.t # "normal" /\ w.t # "normal" /\ Origin(e) = Origin(w) => e = w

QueueOK(q, W, A) ==
    q \in Queue /\ Distinct(q.entries) /\ Ascending(q.entries) /\ HeadFixed(q) /\ Against(q, W, A)

AllFixed(W) == \A w \in W : Fixed(w)

\* u is s with some entries that could still change replaced by markers for
\* the same frame.
Revises(s, u) ==
    /\ DOMAIN u = DOMAIN s
    /\ \A k \in DOMAIN s :
         \/ u[k] = s[k]
         \/ u[k].t # "normal" /\ Origin(u[k]) = Origin(s[k]) /\ (s[k].t = "normal" \/ ~s[k].sealed)

LEMMA EntryShape ==
    ASSUME NEW e \in Entry
    PROVE  /\ e.t = "normal" => e \in NormalEntry
           /\ e.t # "normal" => e \in MarkerEntry /\ e \in MarkerRecord
           /\ Origin(e) \in Frames
  BY DEF Entry, NormalEntry, MarkerEntry, MarkerRecord, Origin, Frames, Positive

\* Revising a queue and taking entries out of it keeps it in order.
LEMMA RevisedQueue ==
    ASSUME NEW q, NEW W, NEW A, QueueOK(q, W, A), AllFixed(W), NEW r \in Queue,
           NEW u \in Seq(Entry), Revises(q.entries, u), NEW es, NEW f,
           EmbedsUpTo(r.entries, u, Len(q.entries), es, f),
           r.sending => q.entries # <<>> /\ u[1] \notin es /\ Fixed(u[1]),
           q.sending => \/ r.sending /\ u[1] = q.entries[1]
                        \/ q.entries[1].t = "normal" => Origin(q.entries[1]) \in A
    PROVE  /\ QueueOK(r, W, A)
           /\ Held(r) = {u[k] : k \in DOMAIN u} \ es
           /\ r.sending => r.entries # <<>> /\ r.entries[1] = u[1]
<1> DEFINE s == q.entries
<1>0. /\ s \in Seq(Entry) /\ Len(s) \in Nat /\ DOMAIN s = 1..Len(s) /\ DOMAIN u = 1..Len(s)
      /\ r.entries \in Seq(Entry) /\ DOMAIN r.entries = 1..Len(r.entries) /\ Len(r.entries) \in Nat
      /\ Len(u) = Len(s)
  BY DEF QueueOK, Queue, Revises
<1>1. PICK t : t = r.entries
  OBVIOUS
<1>2. /\ f \in [DOMAIN t -> 1..Len(s)] /\ \A j, k \in DOMAIN t : j < k => f[j] < f[k]
      /\ \A k \in DOMAIN t : t[k] = u[f[k]] /\ u[f[k]] \notin es
      /\ \A j \in 1..Len(s) : u[j] \notin es => \E k \in DOMAIN t : f[k] = j
  BY <1>0, <1>1 DEF EmbedsUpTo
<1>3. Held(r) = {u[k] : k \in DOMAIN u} \ es
  <2>1. Held(r) = {t[k] : k \in DOMAIN t}
    BY <1>1 DEF Held, ToSet
  <2>2. ASSUME NEW e \in Held(r) PROVE e \in {u[k] : k \in DOMAIN u} \ es
    BY <1>0, <1>2, <2>1
  <2>3. ASSUME NEW j \in DOMAIN u, u[j] \notin es PROVE u[j] \in Held(r)
    BY <1>0, <1>2, <2>1, <2>3
  <2> QED BY <2>2, <2>3
<1>4. \A k \in DOMAIN s : s[k] \in Entry /\ u[k] \in Entry
  BY <1>0
<1>5. ASSUME NEW k \in DOMAIN s
      PROVE  Origin(u[k]) = Origin(s[k]) /\ (u[k].t = "normal" => u[k] = s[k])
  BY DEF Revises
<1>6. Distinct(t)
  <2> SUFFICES ASSUME NEW j \in DOMAIN t, NEW k \in DOMAIN t, j # k PROVE Origin(t[j]) # Origin(t[k])
    BY DEF Distinct
  <2>1. j \in Nat /\ k \in Nat /\ (j < k \/ k < j)
    BY <1>0, <1>1
  <2>2. f[j] \in 1..Len(s) /\ f[k] \in 1..Len(s) /\ f[j] # f[k]
    BY <1>0, <1>2, <2>1
  <2>3. Origin(s[f[j]]) # Origin(s[f[k]])
    BY <1>0, <2>2 DEF QueueOK, Distinct
  <2>4. Origin(u[f[j]]) = Origin(s[f[j]]) /\ Origin(u[f[k]]) = Origin(s[f[k]])
    BY <1>0, <1>5, <2>2
  <2> QED BY <1>2, <2>3, <2>4
<1>7. Ascending(t)
  <2> SUFFICES ASSUME NEW j \in DOMAIN t, NEW k \in DOMAIN t,
                      j < k, t[j].t = "normal", t[k].t = "normal", t[j].inst = t[k].inst
               PROVE  t[j].seq < t[k].seq
    BY DEF Ascending
  <2>1. f[j] \in DOMAIN s /\ f[k] \in DOMAIN s /\ f[j] < f[k]
    BY <1>0, <1>2
  <2>2. t[j] = s[f[j]] /\ t[k] = s[f[k]]
    BY <1>2, <1>5, <2>1
  <2> QED BY <2>1, <2>2 DEF QueueOK, Ascending
<1>8. r.sending => r.entries # <<>> /\ r.entries[1] = u[1]
  <2> SUFFICES ASSUME r.sending PROVE t # <<>> /\ t[1] = u[1]
    BY <1>1
  <2>1. 1 \in 1..Len(s) /\ u[1] \notin es
    BY <1>0
  <2>2. PICK k \in DOMAIN t : f[k] = 1
    BY <1>2, <2>1
  <2>3. 1 \in DOMAIN t /\ k \in Nat /\ k >= 1
    BY <1>0, <1>1
  <2>4. k = 1
    <3> SUFFICES ASSUME 1 < k PROVE FALSE
      BY <2>3
    <3>1. f[1] < f[k] /\ f[1] \in 1..Len(s)
      BY <1>2, <2>3
    <3> QED BY <1>0, <2>2, <3>1
  <2>5. t # <<>>
    BY <2>3
  <2> QED BY <1>2, <2>2, <2>4, <2>5
<1>9. HeadFixed(r)
  BY <1>8 DEF HeadFixed
<1>10. Against(r, W, A)
  <2> SUFFICES ASSUME NEW e \in Held(r), NEW w \in W
               PROVE  /\ e.t = "normal" /\ w.t = "normal" => FrameAgainst(r, e, w, A)
                      /\ e.t = "normal" /\ w.t # "normal" => Origin(e) # Origin(w)
                      /\ e.t # "normal" /\ w.t # "normal" /\ Origin(e) = Origin(w) => e = w
    BY DEF Against
  <2>1. PICK k \in DOMAIN s : e = u[k]
    BY <1>0, <1>3
  <2>2. s[k] \in Held(q)
    BY DEF Held, ToSet
  <2>3. /\ s[k].t = "normal" /\ w.t = "normal" => FrameAgainst(q, s[k], w, A)
        /\ s[k].t = "normal" /\ w.t # "normal" => Origin(s[k]) # Origin(w)
        /\ s[k].t # "normal" /\ w.t # "normal" /\ Origin(s[k]) = Origin(w) => s[k] = w
    BY <2>2 DEF QueueOK, Against
  <2>4. Origin(e) = Origin(s[k]) /\ (e.t = "normal" => e = s[k])
    BY <1>5, <2>1
  <2>5. ASSUME e.t = "normal", w.t = "normal" PROVE FrameAgainst(r, e, w, A)
    <3> SUFFICES ASSUME w.inst = e.inst, <<w.inst, w.seq>> \notin A PROVE (w.seq < e.seq \/ w = e) /\ w \in InFlight(r)
      BY <2>3, <2>4, <2>5 DEF FrameAgainst
    <3>1. (w.seq < e.seq \/ w = e) /\ w \in InFlight(q)
      BY <2>3, <2>4, <2>5 DEF FrameAgainst
    <3>2. q.sending /\ w = q.entries[1]
      BY <3>1 DEF InFlight
    <3>3. Origin(w) \notin A
      BY <2>5 DEF Origin
    <3>4. r.sending /\ u[1] = w
      BY <2>5, <3>2, <3>3
    <3> QED BY <1>8, <3>1, <3>4 DEF InFlight
  <2>6. ASSUME e.t = "normal", w.t # "normal" PROVE Origin(e) # Origin(w)
    BY <2>3, <2>4, <2>6
  <2>7. ASSUME e.t # "normal", w.t # "normal", Origin(e) = Origin(w) PROVE e = w
    <3>1. s[k].t # "normal" /\ s[k] = w
      BY <2>3, <2>4, <2>7
    <3>2. w.sealed
      BY <2>7 DEF AllFixed, Fixed
    <3> QED BY <2>1, <3>1, <3>2 DEF Revises
  <2> QED BY <2>5, <2>6, <2>7
<1> QED BY <1>1, <1>3, <1>6, <1>7, <1>8, <1>9, <1>10 DEF QueueOK

-----------------------------------------------------------------------------
\* The edits of a queue.

\* r is q with x for e and without es, and with the same entry in flight.
Edited(q, r, e, x, es) ==
    /\ r.sending = q.sending /\ r.epoch = q.epoch /\ r.human = q.human
    /\ Held(r) = ((Held(q) \ {e}) \cup {x}) \ es
    /\ q.sending => r.entries # <<>> /\ r.entries[1] = q.entries[1]

LEMMA HeldShape ==
    ASSUME NEW q \in Queue
    PROVE  /\ Held(q) \subseteq Entry /\ IsFiniteSet(Held(q))
           /\ q.entries \in Seq(Entry) /\ Len(q.entries) \in Nat /\ DOMAIN q.entries = 1..Len(q.entries)
           /\ \A k \in DOMAIN q.entries : q.entries[k] \in Held(q)
           /\ q.sending \in BOOLEAN /\ q.epoch \in Nat /\ q.human \in Nat
<1>1. /\ q.entries \in Seq(Entry) /\ Len(q.entries) \in Nat /\ DOMAIN q.entries = 1..Len(q.entries)
      /\ q.sending \in BOOLEAN /\ q.epoch \in Nat /\ q.human \in Nat
  BY DEF Queue
<1>2. PICK s : s = q.entries
  OBVIOUS
<1>3. Held(q) = {s[k] : k \in 1..Len(s)}
  BY <1>1, <1>2 DEF Held, ToSet
<1>4. \A k \in 1..Len(s) : s[k] \in Entry
  BY <1>1, <1>2
<1>5. IsFiniteSet({s[k] : k \in 1..Len(s)})
  <2>1. IsFiniteSet(1..Len(s))
    BY <1>1, <1>2, FS_Interval
  <2>2. s \in Surjection(1..Len(s), {s[k] : k \in 1..Len(s)})
    BY <1>1, <1>2 DEF Surjection
  <2> QED BY <2>1, <2>2, FS_Surjection
<1> QED BY <1>1, <1>2, <1>3, <1>4, <1>5

LEMMA PositionIs ==
    ASSUME NEW q, NEW e \in Held(q)
    PROVE  Position(q, e) \in DOMAIN q.entries /\ q.entries[Position(q, e)] = e
<1>1. \E k \in DOMAIN q.entries : q.entries[k] = e
  BY DEF Held, ToSet
<1> QED BY <1>1 DEF Position

\* Some member of a set of entries comes first.
LEMMA FirstIs ==
    ASSUME NEW q \in Queue, NEW es, es \subseteq Held(q), es # {}
    PROVE  First(q, es) \in es
<1> DEFINE S == {Position(q, e) : e \in es}
<1>1. \A e \in es : Position(q, e) \in Nat
  BY PositionIs, HeldShape
<1>2. S \subseteq Nat /\ S # {}
  BY <1>1
<1>3. PICK m \in S : \A k \in S : ~(k < m)
  BY <1>2, LeastMember
<1>4. PICK e \in es : m = Position(q, e)
  OBVIOUS
<1>5. \A g \in es : Position(q, e) <= Position(q, g)
  BY <1>1, <1>3, <1>4
<1> QED BY <1>5 DEF First

LEMMA WithoutShape ==
    ASSUME NEW q \in Queue, NEW es
    PROVE  LET r == Without(q, es)
           IN  /\ r \in Queue /\ r.sending = q.sending /\ r.epoch = q.epoch /\ r.human = q.human
               /\ \E f : EmbedsUpTo(r.entries, q.entries, Len(q.entries), es, f)
<1>1. PICK s : s = q.entries
  OBVIOUS
<1>2. PICK o : o = Others(s, es)
  OBVIOUS
<1>3. s \in Seq(Entry)
  BY <1>1, HeldShape
<1>4. PICK T : T = Entry
  OBVIOUS
<1>5. o \in Seq(T) /\ \E f : EmbedsUpTo(o, s, Len(s), es, f)
  BY <1>2, <1>3, <1>4, OthersFacts
<1>6. Without(q, es) = [q EXCEPT !.entries = o]
  BY <1>1, <1>2 DEF Without
<1>7. /\ Without(q, es) \in Queue /\ Without(q, es).sending = q.sending
      /\ Without(q, es).epoch = q.epoch /\ Without(q, es).human = q.human /\ Without(q, es).entries = o
  BY <1>4, <1>5, <1>6 DEF Queue
<1> QED BY <1>1, <1>5, <1>7

\* Entries that are not in flight are taken out.
LEMMA WithoutKeeps ==
    ASSUME NEW q, NEW W, NEW A, QueueOK(q, W, A), AllFixed(W), NEW es,
           q.sending => q.entries[1] \notin es
    PROVE  LET r == Without(q, es)
           IN  /\ QueueOK(r, W, A) /\ Held(r) = Held(q) \ es
               /\ r.sending = q.sending /\ r.epoch = q.epoch /\ r.human = q.human
               /\ q.sending => r.entries # <<>> /\ r.entries[1] = q.entries[1]
<1>0. q \in Queue
  BY DEF QueueOK
<1>1. PICK r : r = Without(q, es)
  OBVIOUS
<1>2. PICK f : /\ r \in Queue /\ r.sending = q.sending /\ r.epoch = q.epoch /\ r.human = q.human
               /\ EmbedsUpTo(r.entries, q.entries, Len(q.entries), es, f)
  BY <1>0, <1>1, WithoutShape
<1>3. PICK u : u = q.entries
  OBVIOUS
<1>4. u \in Seq(Entry) /\ Revises(q.entries, u)
  BY <1>0, <1>3, HeldShape DEF Revises
<1>5. r.sending => q.entries # <<>> /\ u[1] \notin es /\ Fixed(u[1])
  BY <1>2, <1>3 DEF QueueOK, HeadFixed
<1>6. EmbedsUpTo(r.entries, u, Len(q.entries), es, f)
  BY <1>2, <1>3
<1>7. q.sending => r.sending /\ u[1] = q.entries[1]
  BY <1>2, <1>3
<1>8. /\ QueueOK(r, W, A) /\ Held(r) = {u[k] : k \in DOMAIN u} \ es
      /\ r.sending => r.entries # <<>> /\ r.entries[1] = u[1]
  BY <1>2, <1>4, <1>5, <1>6, <1>7, RevisedQueue
<1>9. Held(q) = {u[k] : k \in DOMAIN u}
  BY <1>3 DEF Held, ToSet
<1> QED BY <1>1, <1>2, <1>3, <1>8, <1>9

\* x in the place of e.
LEMMA Replaced ==
    ASSUME NEW q, NEW W, NEW A, QueueOK(q, W, A), AllFixed(W), NEW es, NEW r \in Queue,
           r.sending = q.sending, r.epoch = q.epoch, r.human = q.human,
           NEW p \in DOMAIN q.entries, NEW x \in MarkerEntry, Origin(x) = Origin(q.entries[p]),
           q.entries[p].t = "normal" \/ ~q.entries[p].sealed,
           q.sending => p # 1 /\ q.entries[1] \notin es,
           NEW f, EmbedsUpTo(r.entries, [q.entries EXCEPT ![p] = x], Len(q.entries), es, f)
    PROVE  QueueOK(r, W, A) /\ Edited(q, r, q.entries[p], x, es)
<1>0. q \in Queue
  BY DEF QueueOK
<1>1. PICK s : s = q.entries
  OBVIOUS
<1>2. PICK u : u = [s EXCEPT ![p] = x]
  OBVIOUS
<1>3. s \in Seq(Entry) /\ Len(s) \in Nat /\ DOMAIN s = 1..Len(s) /\ p \in 1..Len(s) /\ x \in Entry
  BY <1>0, <1>1, HeldShape DEF Entry
<1>4. u \in Seq(Entry) /\ DOMAIN u = DOMAIN s /\ u[p] = x /\ \A k \in DOMAIN s : k # p => u[k] = s[k]
  BY <1>2, <1>3
<1>5. x.t # "normal"
  BY DEF MarkerEntry, MarkerRecord
<1>6. Revises(q.entries, u)
  BY <1>1, <1>4, <1>5 DEF Revises
<1>7. q.sending => q.entries # <<>> /\ u[1] = q.entries[1] /\ u[1] \notin es /\ Fixed(u[1])
  <2> SUFFICES ASSUME q.sending PROVE q.entries # <<>> /\ u[1] = q.entries[1] /\ u[1] \notin es /\ Fixed(u[1])
    OBVIOUS
  <2>1. s # <<>> /\ Fixed(s[1]) /\ p # 1
    BY <1>1 DEF QueueOK, HeadFixed
  <2>2. 1 \in DOMAIN s
    BY <1>3, <2>1
  <2> QED BY <1>1, <1>4, <2>1, <2>2
<1>8. EmbedsUpTo(r.entries, u, Len(q.entries), es, f)
  BY <1>1, <1>2
<1>9. /\ QueueOK(r, W, A) /\ Held(r) = {u[k] : k \in DOMAIN u} \ es
      /\ r.sending => r.entries # <<>> /\ r.entries[1] = u[1]
  <2>1. /\ q.sending => \/ r.sending /\ u[1] = q.entries[1]
                        \/ q.entries[1].t = "normal" => Origin(q.entries[1]) \in A
        /\ r.sending => q.entries # <<>> /\ u[1] \notin es /\ Fixed(u[1])
    BY <1>7
  <2> QED BY SMTT(60), <1>4, <1>6, <1>8, <2>1, RevisedQueue
<1>10. {u[k] : k \in DOMAIN u} = (Held(q) \ {s[p]}) \cup {x}
  <2>1. Held(q) = {s[k] : k \in DOMAIN s}
    BY <1>1 DEF Held, ToSet
  <2>2. \A k \in DOMAIN s : k # p => s[k] # s[p]
    BY <1>1 DEF QueueOK, Distinct
  <2> QED BY <1>1, <1>4, <2>1, <2>2
<1> QED BY <1>1, <1>7, <1>9, <1>10 DEF Edited

\* An open marker takes in more frames, and es are taken out.
LEMMA GrownKeeps ==
    ASSUME NEW q, NEW W, NEW A, QueueOK(q, W, A), AllFixed(W), NEW es,
           NEW m \in Markers(q), ~m.sealed, NEW i \in Nat, NEW frames \in SUBSET Frames,
           m.t = "gap" => m.insts = {i}, q.sending => q.entries[1] \notin es
    PROVE  LET r == Without(Grown(q, m, i, frames), es)
               x == [m EXCEPT !.frames = @ \cup frames, !.insts = @ \cup {i}]
           IN  QueueOK(r, W, A) /\ Edited(q, r, m, x, es) /\ x \in MarkerEntry
<1>0. q \in Queue /\ m \in Held(q) /\ m.t # "normal"
  BY DEF QueueOK, Markers
<1>1. PICK x : x = [m EXCEPT !.frames = @ \cup frames, !.insts = @ \cup {i}]
  OBVIOUS
<1>2. PICK p : p = Position(q, m)
  OBVIOUS
<1>3. p \in DOMAIN q.entries /\ q.entries[p] = m
  BY <1>0, <1>2, PositionIs
<1>4. m \in MarkerEntry /\ m \in MarkerRecord
  BY <1>0, HeldShape, EntryShape
<1>5. /\ x \in MarkerRecord /\ x.t = m.t /\ x.id = m.id
      /\ x.frames = m.frames \cup frames /\ x.insts = m.insts \cup {i} /\ x.sealed = m.sealed
  BY <1>1, <1>4 DEF MarkerRecord
<1>6. Origin(x) = Origin(m)
  BY <1>0, <1>5 DEF Origin
<1>7. x \in MarkerEntry
  BY <1>4, <1>5, <1>6 DEF MarkerEntry
<1>8. PICK v : v = Grown(q, m, i, frames)
  OBVIOUS
<1>9. PICK u : u = [q.entries EXCEPT ![p] = x]
  OBVIOUS
<1>10. v = [q EXCEPT !.entries = u]
  BY <1>1, <1>2, <1>8, <1>9 DEF Grown
<1>11. u \in Seq(Entry) /\ Len(u) = Len(q.entries)
  BY <1>0, <1>3, <1>7, <1>9, HeldShape DEF Entry
<1>12. /\ v \in Queue /\ v.entries = u /\ v.sending = q.sending /\ v.epoch = q.epoch /\ v.human = q.human
  BY <1>0, <1>10, <1>11 DEF Queue
<1>13. PICK r : r = Without(v, es)
  OBVIOUS
<1>14. PICK f : /\ r \in Queue /\ r.sending = q.sending /\ r.epoch = q.epoch /\ r.human = q.human
                /\ EmbedsUpTo(r.entries, v.entries, Len(v.entries), es, f)
  BY <1>12, <1>13, WithoutShape
<1>15. EmbedsUpTo(r.entries, [q.entries EXCEPT ![p] = x], Len(q.entries), es, f)
  BY <1>9, <1>11, <1>12, <1>14
<1>16. q.sending => p # 1 /\ q.entries[1] \notin es
  BY <1>0, <1>3 DEF QueueOK, HeadFixed, Fixed
<1>17. QueueOK(r, W, A) /\ Edited(q, r, q.entries[p], x, es)
  BY <1>3, <1>6, <1>7, <1>14, <1>15, <1>16, Replaced
<1> QED BY <1>1, <1>3, <1>7, <1>8, <1>13, <1>17

\* What InsertAt returns.
LEMMA InsertedAt ==
    ASSUME NEW T, NEW s \in Seq(T), NEW p \in 1..Len(s), NEW x \in T
    PROVE  LET t == InsertAt(s, p, x)
           IN  /\ t \in Seq(T) /\ Len(t) = Len(s) + 1 /\ t[p] = x
               /\ \A j \in 1..(p - 1) : t[j] = s[j]
               /\ \A j \in (p + 1)..(Len(s) + 1) : t[j] = s[j - 1]
<1>0. Len(s) \in Nat /\ p \in Nat /\ p >= 1 /\ p <= Len(s)
  OBVIOUS
<1>1. PICK a : a = SubSeq(s, 1, p - 1)
  OBVIOUS
<1>2. PICK b : b = SubSeq(s, p, Len(s))
  OBVIOUS
<1>3. a \in Seq(T) /\ Len(a) = p - 1 /\ \A j \in 1..(p - 1) : a[j] = s[j]
  BY <1>0, <1>1, SubSeqProperties
<1>4. b \in Seq(T) /\ Len(b) = Len(s) - p + 1 /\ \A j \in 1..(Len(s) - p + 1) : b[j] = s[p + j - 1]
  BY <1>0, <1>2, SubSeqProperties
<1>5. PICK c : c = a \o <<x>>
  OBVIOUS
<1>6. c \in Seq(T) /\ Len(c) = p /\ c[p] = x /\ \A j \in 1..(p - 1) : c[j] = s[j]
  <2>1. <<x>> \in Seq(T) /\ Len(<<x>>) = 1
    OBVIOUS
  <2>2. c \in Seq(T) /\ Len(c) = p
    BY <1>0, <1>3, <1>5, <2>1, ConcatProperties
  <2>3. c[p] = x
    BY <1>0, <1>3, <1>5
  <2>4. ASSUME NEW j \in 1..(p - 1) PROVE c[j] = s[j]
    BY <1>0, <1>3, <1>5
  <2> QED BY <2>2, <2>3, <2>4
<1>7. PICK t : t = c \o b
  OBVIOUS
<1>8. InsertAt(s, p, x) = t
  BY <1>1, <1>2, <1>5, <1>7 DEF InsertAt
<1>9. t \in Seq(T) /\ Len(t) = Len(s) + 1
  <2>1. t \in Seq(T) /\ Len(t) = Len(c) + Len(b)
    BY <1>4, <1>6, <1>7, ConcatProperties
  <2>2. Len(t) = p + (Len(s) - p + 1)
    BY <1>4, <1>6, <2>1
  <2> QED BY <1>0, <2>1, <2>2
<1>10. t[p] = x /\ \A j \in 1..(p - 1) : t[j] = s[j]
  <2>1. ASSUME NEW j \in 1..p PROVE t[j] = c[j]
    BY <1>0, <1>4, <1>6, <1>7
  <2> QED BY <1>0, <1>6, <2>1
<1>11. ASSUME NEW j \in (p + 1)..(Len(s) + 1) PROVE t[j] = s[j - 1]
  <2>1. t[j] = b[j - p] /\ j - p \in 1..(Len(s) - p + 1) /\ p + (j - p) - 1 = j - 1
    BY <1>0, <1>4, <1>6, <1>7
  <2> QED BY <1>4, <2>1
<1> QED BY <1>8, <1>9, <1>10, <1>11

\* Inserting x before e and taking e out puts x in its place.
LEMMA InsertedEmbeds ==
    ASSUME NEW s, s \in Seq(Entry), NEW p \in 1..Len(s), NEW x \in Entry, NEW es,
           s[p] \in es, x \notin es, NEW r, r \in Seq(Entry), NEW f,
           EmbedsUpTo(r, InsertAt(s, p, x), Len(s) + 1, es, f)
    PROVE  \E g : EmbedsUpTo(r, [s EXCEPT ![p] = x], Len(s), es, g)
<1>0. Len(s) \in Nat /\ p \in Nat /\ p >= 1 /\ p <= Len(s) /\ DOMAIN s = 1..Len(s)
  OBVIOUS
<1>1. PICK t : t = InsertAt(s, p, x)
  OBVIOUS
<1>2. /\ t[p] = x /\ \A j \in 1..(p - 1) : t[j] = s[j]
      /\ \A j \in (p + 1)..(Len(s) + 1) : t[j] = s[j - 1]
  <2>1. PICK T : T = Entry
    OBVIOUS
  <2> QED BY <1>1, <2>1, InsertedAt
<1>3. PICK u : u = [s EXCEPT ![p] = x]
  OBVIOUS
<1>4. u[p] = x /\ \A k \in 1..Len(s) : k # p => u[k] = s[k]
  BY <1>0, <1>3
<1>5. /\ f \in [DOMAIN r -> 1..(Len(s) + 1)] /\ \A j, k \in DOMAIN r : j < k => f[j] < f[k]
      /\ \A k \in DOMAIN r : r[k] = t[f[k]] /\ t[f[k]] \notin es
      /\ \A j \in 1..(Len(s) + 1) : t[j] \notin es => \E k \in DOMAIN r : f[k] = j
  BY <1>1 DEF EmbedsUpTo
<1> DEFINE back(j) == IF j <= p THEN j ELSE j - 1
           g == [k \in DOMAIN r |-> back(f[k])]
<1>6. ASSUME NEW k \in DOMAIN r
      PROVE  /\ f[k] \in 1..(Len(s) + 1) /\ f[k] # p + 1
             /\ back(f[k]) \in 1..Len(s) /\ t[f[k]] = u[back(f[k])]
  <2>1. f[k] \in 1..(Len(s) + 1) /\ t[f[k]] \notin es
    BY <1>5
  <2>2. t[p + 1] = s[p]
    BY <1>0, <1>2
  <2>3. f[k] # p + 1
    BY <2>1, <2>2
  <2>4. PICK j : j = f[k]
    OBVIOUS
  <2>5. CASE j < p
    <3>1. j \in 1..(p - 1) /\ j \in 1..Len(s) /\ back(j) = j /\ j # p
      BY <1>0, <2>1, <2>4, <2>5
    <3> QED BY <1>2, <1>4, <2>1, <2>3, <2>4, <3>1
  <2>6. CASE j = p
    <3>1. back(j) = p
      BY <2>6
    <3> QED BY <1>0, <1>2, <1>4, <2>1, <2>3, <2>4, <2>6, <3>1
  <2>7. CASE j > p
    <3>1. /\ j \in (p + 1)..(Len(s) + 1) /\ j - 1 \in 1..Len(s) /\ back(j) = j - 1 /\ j - 1 # p
      BY <1>0, <2>1, <2>3, <2>4, <2>7
    <3> QED BY <1>2, <1>4, <2>1, <2>3, <2>4, <3>1
  <2> QED BY <1>0, <2>1, <2>4, <2>5, <2>6, <2>7
<1>7. DOMAIN g = DOMAIN r /\ \A k \in DOMAIN r : g[k] = back(f[k])
  OBVIOUS
<1>8. g \in [DOMAIN r -> 1..Len(s)]
  BY <1>6
<1> HIDE DEF g
<1>9. ASSUME NEW j \in DOMAIN r, NEW k \in DOMAIN r, j < k PROVE g[j] < g[k]
  <2>1. PICK a, b : a = f[j] /\ b = f[k]
    OBVIOUS
  <2>2. a \in Nat /\ b \in Nat /\ a < b /\ a # p + 1 /\ b # p + 1
    BY <1>0, <1>5, <1>6, <1>9, <2>1
  <2>3. back(a) < back(b)
    BY <1>0, <2>2
  <2> QED BY <1>7, <2>1, <2>3
<1>10. ASSUME NEW k \in DOMAIN r PROVE r[k] = u[g[k]] /\ u[g[k]] \notin es
  <2> HIDE DEF back
  <2> QED BY <1>5, <1>6, <1>7
<1>11. ASSUME NEW j \in 1..Len(s), u[j] \notin es PROVE \E k \in DOMAIN r : g[k] = j
  <2>1. CASE j <= p
    <3>1. t[j] = u[j] /\ j \in 1..(Len(s) + 1)
      BY <1>0, <1>2, <1>4, <2>1
    <3>2. PICK k \in DOMAIN r : f[k] = j
      BY <1>5, <1>11, <3>1
    <3> QED BY <1>7, <2>1, <3>2
  <2>2. CASE j > p
    <3>1. j + 1 \in (p + 1)..(Len(s) + 1) /\ j + 1 \in 1..(Len(s) + 1) /\ (j + 1) - 1 = j /\ j # p
      BY <1>0, <2>2
    <3>2. t[j + 1] = u[j]
      BY <1>2, <1>4, <3>1
    <3>3. PICK k \in DOMAIN r : f[k] = j + 1
      BY <1>5, <1>11, <3>1, <3>2
    <3>4. back(j + 1) = j
      BY <1>0, <2>2
    <3> QED BY <1>7, <3>3, <3>4
  <2> QED BY <1>0, <2>1, <2>2
<1>12. EmbedsUpTo(r, u, Len(s), es, g)
  BY <1>8, <1>9, <1>10, <1>11 DEF EmbedsUpTo
<1> QED BY <1>3, <1>12

\* A marker takes the place of an entry that could still change.
LEMMA BeforeKeeps ==
    ASSUME NEW q, NEW W, NEW A, QueueOK(q, W, A), AllFixed(W), NEW es, NEW e \in Held(q), e \in es,
           e.t = "normal" \/ ~e.sealed, NEW x \in MarkerEntry, x \notin es, Origin(x) = Origin(e),
           q.sending => q.entries[1] \notin es
    PROVE  LET r == Without(Before(q, e, x), es)
           IN  QueueOK(r, W, A) /\ Edited(q, r, e, x, es)
<1>0. q \in Queue
  BY DEF QueueOK
<1>1. PICK p : p = Position(q, e)
  OBVIOUS
<1>2. PICK s : s = q.entries
  OBVIOUS
<1>3. p \in 1..Len(s) /\ s[p] = e /\ s \in Seq(Entry) /\ Len(s) \in Nat /\ x \in Entry /\ DOMAIN s = 1..Len(s)
  BY <1>0, <1>1, <1>2, PositionIs, HeldShape DEF Entry
<1>4. PICK t : t = InsertAt(s, p, x)
  OBVIOUS
<1>5. t \in Seq(Entry) /\ Len(t) = Len(s) + 1
  <2>1. PICK T : T = Entry
    OBVIOUS
  <2> QED BY <1>3, <1>4, <2>1, InsertedAt
<1>6. PICK v : v = Before(q, e, x)
  OBVIOUS
<1>7. v = [q EXCEPT !.entries = t]
  BY <1>1, <1>2, <1>4, <1>6 DEF Before
<1>8. v \in Queue /\ v.entries = t /\ v.sending = q.sending /\ v.epoch = q.epoch /\ v.human = q.human
  BY <1>0, <1>5, <1>7 DEF Queue
<1>9. PICK r : r = Without(v, es)
  OBVIOUS
<1>10. PICK f : /\ r \in Queue /\ r.sending = q.sending /\ r.epoch = q.epoch /\ r.human = q.human
                /\ EmbedsUpTo(r.entries, v.entries, Len(v.entries), es, f)
  BY <1>8, <1>9, WithoutShape
<1>11. PICK z : z = r.entries
  OBVIOUS
<1>12. z \in Seq(Entry) /\ EmbedsUpTo(z, InsertAt(s, p, x), Len(s) + 1, es, f)
  BY <1>4, <1>5, <1>8, <1>10, <1>11, HeldShape
<1>13. PICK g : EmbedsUpTo(z, [s EXCEPT ![p] = x], Len(s), es, g)
  BY <1>3, <1>12, InsertedEmbeds
<1>14. q.sending => p # 1 /\ q.entries[1] \notin es
  BY <1>2, <1>3
<1>15. QueueOK(r, W, A) /\ Edited(q, r, q.entries[p], x, es)
  <2>1. EmbedsUpTo(r.entries, [q.entries EXCEPT ![p] = x], Len(q.entries), es, g)
    BY <1>2, <1>11, <1>13
  <2>2. p \in DOMAIN q.entries /\ q.entries[p] = e
    BY <1>2, <1>3
  <2> QED BY <1>10, <1>14, <2>1, <2>2, Replaced
<1> QED BY <1>2, <1>3, <1>6, <1>9, <1>15

-----------------------------------------------------------------------------
\* The slots of the markers.

MarkerCaps(q) ==
    /\ Cardinality(GapInstances(q)) <= GapInstancesMax
    /\ \A i \in GapInstances(q) : Cardinality(GapsOf(q, i)) <= GapsPerInstanceMax
    /\ Cardinality(Crosses(q)) <= CrossMax

LEMMA CapNumbers ==
    NormalCap \in Nat /\ GapInstancesMax \in Nat /\ GapsPerInstanceMax \in Nat /\ CrossMax \in Nat /\ NormalCap # 0
  BY CapsAssumption

\* A member of a finite set is replaced.
LEMMA SwapCardinality ==
    ASSUME NEW S, IsFiniteSet(S), NEW a \in S, NEW b
    PROVE  /\ IsFiniteSet((S \ {a}) \cup {b}) /\ Cardinality((S \ {a}) \cup {b}) \in Nat
           /\ Cardinality((S \ {a}) \cup {b}) <= Cardinality(S)
<1>1. IsFiniteSet(S \ {a}) /\ Cardinality(S \ {a}) = Cardinality(S) - 1
  BY FS_RemoveElement
<1>2. PICK R : R = S \ {a}
  OBVIOUS
<1>3. /\ IsFiniteSet(R \cup {b})
      /\ Cardinality(R \cup {b}) = IF b \in R THEN Cardinality(R) ELSE Cardinality(R) + 1
  BY <1>1, <1>2, FS_AddElement
<1>4. Cardinality(R) \in Nat /\ Cardinality(S) \in Nat /\ Cardinality(R) = Cardinality(S) - 1
  BY <1>1, <1>2, FS_CardinalityType
<1> QED BY <1>2, <1>3, <1>4

LEMMA SlotsFinite ==
    ASSUME NEW q \in Queue
    PROVE  /\ IsFiniteSet(Normals(q)) /\ Cardinality(Normals(q)) \in Nat
           /\ IsFiniteSet(Markers(q))
           /\ IsFiniteSet(GapInstances(q)) /\ Cardinality(GapInstances(q)) \in Nat
           /\ \A i : IsFiniteSet(GapsOf(q, i)) /\ Cardinality(GapsOf(q, i)) \in Nat
           /\ IsFiniteSet(Crosses(q)) /\ Cardinality(Crosses(q)) \in Nat
<1>1. IsFiniteSet(Held(q)) /\ Held(q) \subseteq Entry
  BY HeldShape
<1>2. Normals(q) \subseteq Held(q) /\ Markers(q) \subseteq Held(q) /\ Crosses(q) \subseteq Held(q)
  BY DEF Normals, Markers, Crosses
<1>3. IsFiniteSet(Normals(q)) /\ IsFiniteSet(Markers(q)) /\ IsFiniteSet(Crosses(q))
  BY <1>1, <1>2, FS_Subset
<1>4. ASSUME NEW i PROVE IsFiniteSet(GapsOf(q, i)) /\ Cardinality(GapsOf(q, i)) \in Nat
  <2>1. GapsOf(q, i) \subseteq Held(q)
    BY DEF GapsOf, Markers
  <2>2. IsFiniteSet(GapsOf(q, i))
    BY <1>1, <2>1, FS_Subset
  <2> QED BY <2>2, FS_CardinalityType
<1>5. IsFiniteSet(GapInstances(q))
  <2> DEFINE G == {m \in Markers(q) : m.t = "gap"}
             f == [m \in G |-> CHOOSE i \in Nat : m.insts = {i}]
  <2>1. IsFiniteSet(G)
    BY <1>3, FS_Subset
  <2>2. ASSUME NEW m \in G PROVE \E i \in Nat : m.insts = {i}
    <3>1. m \in Entry /\ m.t # "normal" /\ m.t = "gap"
      BY <1>1, <1>2 DEF Markers
    <3> QED BY <3>1, EntryShape DEF MarkerEntry
  <2>3. ASSUME NEW m \in G PROVE m.insts = {f[m]}
    <3>1. m.insts = {CHOOSE i \in Nat : m.insts = {i}}
      BY <2>2
    <3> QED BY <3>1
  <2> HIDE DEF f
  <2>4. GapInstances(q) = {f[m] : m \in G}
    BY <2>3 DEF GapInstances
  <2>5. f \in Surjection(G, {f[m] : m \in G})
    BY DEF Surjection, f
  <2> QED BY <2>1, <2>4, <2>5, FS_Surjection
<1> QED BY <1>3, <1>4, <1>5, FS_CardinalityType

\* Fewer markers need fewer slots.
LEMMA FewerMarkers ==
    ASSUME NEW q \in Queue, NEW r \in Queue, MarkerCaps(q),
           {m \in Markers(r) : m.t = "gap"} \subseteq {m \in Markers(q) : m.t = "gap"},
           Cardinality(Crosses(r)) <= CrossMax
    PROVE  MarkerCaps(r)
<1>1. GapInstances(r) \subseteq GapInstances(q)
  BY DEF GapInstances
<1>2. Cardinality(GapInstances(r)) <= GapInstancesMax
  <2>1. Cardinality(GapInstances(r)) <= Cardinality(GapInstances(q))
    BY <1>1, SlotsFinite, FS_Subset
  <2> QED BY <2>1, SlotsFinite, CapNumbers DEF MarkerCaps
<1>3. ASSUME NEW i \in GapInstances(r) PROVE Cardinality(GapsOf(r, i)) <= GapsPerInstanceMax
  <2>1. GapsOf(r, i) \subseteq GapsOf(q, i)
    BY DEF GapsOf
  <2>2. Cardinality(GapsOf(r, i)) <= Cardinality(GapsOf(q, i))
    BY <2>1, SlotsFinite, FS_Subset
  <2>3. Cardinality(GapsOf(q, i)) <= GapsPerInstanceMax
    BY <1>1 DEF MarkerCaps
  <2> QED BY <2>2, <2>3, SlotsFinite, CapNumbers
<1> QED BY <1>2, <1>3 DEF MarkerCaps

\* A gap takes the place of one of the same instance.
LEMMA GapSwapped ==
    ASSUME NEW q \in Queue, NEW r \in Queue, MarkerCaps(q), NEW m \in Markers(q), NEW x, NEW i,
           m.t = "gap", x.t = "gap", m.insts = {i}, x.insts = {i},
           Markers(r) = (Markers(q) \ {m}) \cup {x}
    PROVE  MarkerCaps(r)
<1>1. GapInstances(r) = GapInstances(q)
  <2>1. ASSUME NEW j PROVE j \in GapInstances(r) <=> j \in GapInstances(q)
    BY DEF GapInstances
  <2> QED BY <2>1
<1>2. ASSUME NEW j \in GapInstances(r) PROVE Cardinality(GapsOf(r, j)) <= GapsPerInstanceMax
  <2>0. Cardinality(GapsOf(q, j)) <= GapsPerInstanceMax
    BY <1>1 DEF MarkerCaps
  <2>1. CASE j = i
    <3>1. GapsOf(r, j) = (GapsOf(q, j) \ {m}) \cup {x} /\ m \in GapsOf(q, j)
      BY <2>1 DEF GapsOf
    <3>2. PICK S : S = GapsOf(q, j)
      OBVIOUS
    <3>3. IsFiniteSet(S) /\ m \in S
      BY <3>1, <3>2, SlotsFinite
    <3>4. Cardinality((S \ {m}) \cup {x}) <= Cardinality(S)
      BY <3>3, SwapCardinality
    <3> QED BY <2>0, <3>1, <3>2, <3>4, SlotsFinite, CapNumbers
  <2>2. CASE j # i
    <3>1. GapsOf(r, j) = GapsOf(q, j)
      BY <2>2 DEF GapsOf
    <3> QED BY <2>0, <3>1
  <2> QED BY <2>1, <2>2
<1>3. Crosses(r) = Crosses(q)
  BY DEF Crosses
<1> QED BY <1>1, <1>2, <1>3 DEF MarkerCaps

\* A gap is added where there is a slot for it.
LEMMA GapAdded ==
    ASSUME NEW q \in Queue, NEW r \in Queue, MarkerCaps(q), NEW x, NEW i,
           x.t = "gap", x.insts = {i}, Markers(r) = Markers(q) \cup {x},
           Cardinality(GapsOf(q, i)) < GapsPerInstanceMax,
           GapsOf(q, i) # {} \/ Cardinality(GapInstances(q)) < GapInstancesMax
    PROVE  MarkerCaps(r)
<1>1. GapInstances(r) = GapInstances(q) \cup {i}
  <2>1. ASSUME NEW j PROVE j \in GapInstances(r) <=> j \in GapInstances(q) \cup {i}
    BY DEF GapInstances
  <2> QED BY <2>1
<1>2. Cardinality(GapInstances(r)) <= GapInstancesMax
  <2>1. CASE GapsOf(q, i) # {}
    <3>1. i \in GapInstances(q)
      BY <2>1 DEF GapInstances, GapsOf
    <3>2. GapInstances(r) = GapInstances(q)
      BY <1>1, <3>1
    <3> QED BY <3>2 DEF MarkerCaps
  <2>2. CASE Cardinality(GapInstances(q)) < GapInstancesMax
    <3>1. PICK S : S = GapInstances(q)
      OBVIOUS
    <3>2. IsFiniteSet(S) /\ Cardinality(S) \in Nat /\ Cardinality(S) < GapInstancesMax
      BY <2>2, <3>1, SlotsFinite
    <3>3. Cardinality(S \cup {i}) = IF i \in S THEN Cardinality(S) ELSE Cardinality(S) + 1
      BY <3>2, FS_AddElement
    <3> QED BY <1>1, <3>1, <3>2, <3>3, CapNumbers
  <2> QED BY <2>1, <2>2
<1>3. ASSUME NEW j \in GapInstances(r) PROVE Cardinality(GapsOf(r, j)) <= GapsPerInstanceMax
  <2>1. CASE j = i
    <3>1. GapsOf(r, j) = GapsOf(q, j) \cup {x}
      BY <2>1 DEF GapsOf
    <3>2. PICK S : S = GapsOf(q, j)
      OBVIOUS
    <3>3. IsFiniteSet(S) /\ Cardinality(S) \in Nat /\ Cardinality(S) < GapsPerInstanceMax
      BY <2>1, <3>2, SlotsFinite
    <3>4. Cardinality(S \cup {x}) = IF x \in S THEN Cardinality(S) ELSE Cardinality(S) + 1
      BY <3>3, FS_AddElement
    <3> QED BY <3>1, <3>2, <3>3, <3>4, CapNumbers
  <2>2. CASE j # i
    <3>1. GapsOf(r, j) = GapsOf(q, j) /\ j \in GapInstances(q)
      BY <1>1, <2>2 DEF GapsOf
    <3> QED BY <3>1 DEF MarkerCaps
  <2> QED BY <2>1, <2>2
<1>4. Crosses(r) = Crosses(q)
  BY DEF Crosses
<1> QED BY <1>2, <1>3, <1>4 DEF MarkerCaps

\* A cross entry takes the place of one, or is added where there is a slot.
LEMMA CrossChanged ==
    ASSUME NEW q \in Queue, NEW r \in Queue, MarkerCaps(q), NEW x, x.t = "cross", NEW gaps,
           \A g \in gaps : g.t = "gap",
           \/ \E m \in Crosses(q) : Markers(r) = ((Markers(q) \ {m}) \cup {x}) \ gaps
           \/ Cardinality(Crosses(q)) < CrossMax /\ Markers(r) = (Markers(q) \cup {x}) \ gaps
    PROVE  MarkerCaps(r)
<1>1. Crosses(q) \subseteq Markers(q) /\ \A m \in Crosses(q) : m.t = "cross"
  BY DEF Crosses
<1>2. {m \in Markers(r) : m.t = "gap"} \subseteq {m \in Markers(q) : m.t = "gap"}
  BY <1>1
<1>3. PICK S : S = Crosses(q)
  OBVIOUS
<1>4. IsFiniteSet(S) /\ Cardinality(S) \in Nat /\ Cardinality(S) <= CrossMax
  BY <1>3, SlotsFinite DEF MarkerCaps
<1>5. CASE \E m \in Crosses(q) : Markers(r) = ((Markers(q) \ {m}) \cup {x}) \ gaps
  <2>1. PICK m \in S : Markers(r) = ((Markers(q) \ {m}) \cup {x}) \ gaps
    BY <1>3, <1>5
  <2>2. Crosses(r) = (S \ {m}) \cup {x}
    BY <1>3, <2>1 DEF Crosses
  <2>3. Cardinality((S \ {m}) \cup {x}) \in Nat /\ Cardinality((S \ {m}) \cup {x}) <= Cardinality(S)
    BY <1>4, SwapCardinality
  <2>4. Cardinality(Crosses(r)) <= CrossMax
    BY <1>4, <2>2, <2>3, CapNumbers
  <2> QED BY <1>2, <2>4, FewerMarkers
<1>6. CASE Cardinality(Crosses(q)) < CrossMax /\ Markers(r) = (Markers(q) \cup {x}) \ gaps
  <2>1. Crosses(r) = S \cup {x}
    BY <1>3, <1>6 DEF Crosses
  <2>2. Cardinality(S \cup {x}) = IF x \in S THEN Cardinality(S) ELSE Cardinality(S) + 1
    BY <1>4, FS_AddElement
  <2>3. Cardinality(Crosses(r)) <= CrossMax
    BY <1>3, <1>4, <1>6, <2>1, <2>2, CapNumbers
  <2> QED BY <1>2, <2>3, FewerMarkers
<1> QED BY <1>5, <1>6

-----------------------------------------------------------------------------
\* Folding.

MarkerFrames(q) == UNION {m.frames : m \in Markers(q)}

\* The frames a queue still accounts for.
Evidence(q) == {Origin(n) : n \in Normals(q)} \cup MarkerFrames(q)

\* r holds the frames of q but gone, and its markers account for what those of q do.
Carries(q, r, gone) ==
    /\ r.sending = q.sending /\ r.epoch = q.epoch /\ r.human = q.human
    /\ q.sending => r.entries # <<>> /\ r.entries[1] = q.entries[1]
    /\ Normals(r) = Normals(q) \ gone
    /\ MarkerFrames(q) \subseteq MarkerFrames(r)
    /\ Evidence(r) \subseteq Evidence(q)
    /\ \A m \in Markers(r) : m \in Markers(q) \/ m.epoch = q.epoch

\* Entries of a queue by kind.
LEMMA Kinds ==
    ASSUME NEW q \in Queue
    PROVE  /\ Held(q) = Normals(q) \cup Markers(q)
           /\ \A n \in Normals(q) : n \in NormalEntry /\ n.t = "normal" /\ n \in Held(q)
           /\ \A m \in Markers(q) : m \in MarkerEntry /\ m \in MarkerRecord /\ m.t # "normal" /\ m \in Held(q)
<1>1. Held(q) \subseteq Entry
  BY HeldShape
<1>2. /\ Held(q) = Normals(q) \cup Markers(q)
      /\ \A n \in Normals(q) : n \in Held(q) /\ n.t = "normal"
      /\ \A m \in Markers(q) : m \in Held(q) /\ m.t # "normal"
  BY DEF Normals, Markers
<1> QED BY <1>1, <1>2, EntryShape

\* An edit in terms of kinds: es are frames or gaps, x is a marker.
LEMMA EditedKinds ==
    ASSUME NEW q \in Queue, NEW r \in Queue, NEW e \in Held(q), NEW x, x.t # "normal", NEW es,
           x \notin es, Edited(q, r, e, x, es)
    PROVE  /\ Normals(r) = (Normals(q) \ {e}) \ es
           /\ Markers(r) = ((Markers(q) \ {e}) \ es) \cup {x}
  BY DEF Edited, Normals, Markers

\* A marker m is replaced by x, which accounts for the frames of m, of the
\* markers in es, and for new ones.
LEMMA EditedCarries ==
    ASSUME NEW q \in Queue, NEW r \in Queue, NEW e \in Held(q), NEW x \in MarkerEntry, NEW es,
           x \notin es, Edited(q, r, e, x, es), x.epoch = q.epoch,
           e.t # "normal" => e.frames \subseteq x.frames,
           \A m \in es \cap Markers(q) : m.frames \subseteq x.frames,
           x.frames \subseteq Evidence(q)
    PROVE  Carries(q, r, es \cup {e}) /\ x.frames \subseteq MarkerFrames(r)
<1>0. x.t # "normal"
  BY DEF MarkerEntry, MarkerRecord
<1>1. Normals(r) = (Normals(q) \ {e}) \ es /\ Markers(r) = ((Markers(q) \ {e}) \ es) \cup {x}
  BY <1>0, EditedKinds
<1>2. x.frames \subseteq MarkerFrames(r)
  BY <1>1 DEF MarkerFrames
<1>3. MarkerFrames(q) \subseteq MarkerFrames(r)
  <2> SUFFICES ASSUME NEW m \in Markers(q), NEW y \in m.frames PROVE y \in MarkerFrames(r)
    BY DEF MarkerFrames
  <2>1. CASE m = e \/ m \in es
    <3>1. y \in x.frames
      BY <2>1 DEF Markers
    <3> QED BY <1>2, <3>1
  <2>2. CASE m # e /\ m \notin es
    BY <1>1, <2>2 DEF MarkerFrames
  <2> QED BY <2>1, <2>2
<1>4. Evidence(r) \subseteq Evidence(q)
  <2>1. Normals(r) \subseteq Normals(q)
    BY <1>1
  <2>2. MarkerFrames(r) \subseteq MarkerFrames(q) \cup x.frames
    BY <1>1 DEF MarkerFrames
  <2> QED BY <2>1, <2>2 DEF Evidence
<1>5. \A m \in Markers(r) : m \in Markers(q) \/ m.epoch = q.epoch
  BY <1>1
<1> QED BY <1>1, <1>2, <1>3, <1>4, <1>5 DEF Carries, Edited

\* What the provers need of open markers.
LEMMA OpenIs ==
    ASSUME NEW q \in Queue, NEW ms, ms \subseteq Markers(q)
    PROVE  /\ Open(q, ms) \subseteq ms /\ Open(q, ms) \subseteq Held(q)
           /\ \A m \in Open(q, ms) : ~m.sealed /\ m.epoch = q.epoch /\ m \in MarkerEntry /\ m.t # "normal"
  BY Kinds DEF Open, Markers

\* Merging the gaps of an instance into the cross entry.
LEMMA MergeKeeps ==
    ASSUME NEW q, NEW W, NEW A, QueueOK(q, W, A), AllFixed(W), MarkerCaps(q), CrossSlot(q),
           NEW i, NEW j \in Mergeable(q, i)
    PROVE  LET r == MergeIntoCross(q, j)
           IN  QueueOK(r, W, A) /\ MarkerCaps(r) /\ Carries(q, r, {})
<1>0. q \in Queue
  BY DEF QueueOK
<1>1. PICK gaps : gaps = GapsOf(q, j)
  OBVIOUS
<1>2. PICK frames : frames = UNION {m.frames : m \in gaps}
  OBVIOUS
<1>3. PICK first : first = First(q, gaps)
  OBVIOUS
<1>4. PICK cross : cross = Open(q, Crosses(q))
  OBVIOUS
<1>5. /\ gaps \subseteq Markers(q) /\ gaps \subseteq Held(q) /\ gaps # {}
      /\ \A m \in gaps : ~m.sealed /\ m.epoch = q.epoch /\ m \in MarkerEntry /\ m.t = "gap" /\ j \in m.insts
  <2>1. gaps \subseteq Markers(q) /\ \A m \in gaps : m.t = "gap" /\ j \in m.insts
    BY <1>1 DEF GapsOf
  <2>2. gaps # {}
    BY <1>1 DEF Mergeable, GapInstances, GapsOf
  <2>3. Open(q, gaps) = gaps
    BY <1>1 DEF Mergeable
  <2> QED BY <1>0, <2>1, <2>2, <2>3, OpenIs
<1>6. first \in gaps
  BY <1>0, <1>3, <1>5, FirstIs
<1>7. first.insts \subseteq Nat /\ j \in Nat /\ \A m \in gaps : m.frames \subseteq Frames
  BY <1>5, <1>6 DEF MarkerEntry, MarkerRecord
<1>8. frames \in SUBSET Frames
  BY <1>2, <1>7
<1>9. q.sending => q.entries[1] \notin gaps
  BY <1>5 DEF QueueOK, HeadFixed, Fixed
<1>10. frames \subseteq MarkerFrames(q) /\ \A m \in gaps : m.frames \subseteq frames
  BY <1>2, <1>5 DEF MarkerFrames
<1>11. CASE cross # {}
  <2>1. PICK m : m = First(q, cross)
    OBVIOUS
  <2>2. Crosses(q) \subseteq Markers(q) /\ \A k \in Crosses(q) : k.t = "cross"
    BY DEF Crosses
  <2>3. cross \subseteq Crosses(q) /\ cross \subseteq Held(q) /\ \A k \in cross : ~k.sealed /\ k.epoch = q.epoch
    BY <1>0, <1>4, <2>2, OpenIs
  <2>4. m \in cross /\ m \in Markers(q) /\ m \in Held(q) /\ m.t = "cross" /\ ~m.sealed /\ m.epoch = q.epoch /\ m \in Crosses(q)
    BY <1>0, <1>11, <2>1, <2>2, <2>3, FirstIs
  <2>5. PICK x : x = [m EXCEPT !.frames = @ \cup frames, !.insts = @ \cup {j}]
    OBVIOUS
  <2>6. PICK r : r = Without(Grown(q, m, j, frames), gaps)
    OBVIOUS
  <2>7. QueueOK(r, W, A) /\ Edited(q, r, m, x, gaps) /\ x \in MarkerEntry
    BY <1>7, <1>8, <1>9, <2>4, <2>5, <2>6, GrownKeeps
  <2>8. m \in MarkerRecord
    BY <1>0, <2>4, Kinds
  <2>9. x.t = "cross" /\ x.frames = m.frames \cup frames /\ x.epoch = q.epoch
    BY <2>4, <2>5, <2>8 DEF MarkerRecord
  <2>10. x \notin gaps /\ r \in Queue
    BY <1>5, <2>7, <2>9 DEF QueueOK
  <2>11. m.frames \subseteq MarkerFrames(q)
    BY <2>4 DEF MarkerFrames
  <2>12. Carries(q, r, gaps \cup {m})
    <3>1. x.frames \subseteq Evidence(q) /\ m.frames \subseteq x.frames /\ \A k \in gaps : k.frames \subseteq x.frames
      BY <1>10, <2>9, <2>11 DEF Evidence
    <3> QED BY <1>0, <2>4, <2>7, <2>9, <2>10, <3>1, EditedCarries
  <2>13. Normals(q) \ (gaps \cup {m}) = Normals(q) \ {}
    BY <1>5, <2>4 DEF Normals
  <2>14. Carries(q, r, {})
    BY <2>12, <2>13 DEF Carries
  <2>15. Markers(r) = ((Markers(q) \ {m}) \cup {x}) \ gaps
    <3>1. Markers(r) = ((Markers(q) \ {m}) \ gaps) \cup {x}
      BY <1>0, <2>4, <2>7, <2>9, <2>10, EditedKinds
    <3> QED BY <2>10, <3>1
  <2>16. MarkerCaps(r)
    BY <1>0, <1>5, <2>4, <2>9, <2>10, <2>15, CrossChanged
  <2>17. MergeIntoCross(q, j) = r
    BY <1>1, <1>2, <1>4, <1>11, <2>1, <2>6 DEF MergeIntoCross
  <2> QED BY <2>7, <2>14, <2>16, <2>17
<1>12. CASE cross = {}
  <2>1. PICK id : id = <<"cross", first.id[2], first.id[3]>>
    OBVIOUS
  <2>2. first \in MarkerRecord /\ first \in MarkerEntry /\ first \in Held(q) /\ first.t = "gap" /\ ~first.sealed
    BY <1>5, <1>6 DEF MarkerEntry
  <2>3. first.id \in {"gap", "cross"} \X Positive \X Positive
    BY <2>2 DEF MarkerRecord
  <2>4. id \in {"gap", "cross"} \X Positive \X Positive /\ id[2] = first.id[2] /\ id[3] = first.id[3]
    BY <2>1, <2>3
  <2>5. PICK x : x = Marker("cross", id, {j}, frames, q.epoch)
    OBVIOUS
  <2>6. /\ x.t = "cross" /\ x.id = id /\ x.frames = frames /\ x.epoch = q.epoch /\ x \in MarkerRecord
    BY <1>0, <1>7, <1>8, <2>4, <2>5, HeldShape DEF Marker, MarkerRecord
  <2>7. Origin(x) = Origin(first)
    BY <2>2, <2>4, <2>6 DEF Origin
  <2>8. x \in MarkerEntry
    BY <1>6, <1>10, <2>2, <2>6, <2>7 DEF MarkerEntry
  <2>9. x \notin gaps
    BY <1>5, <2>6
  <2>10. PICK r : r = Without(Before(q, first, x), gaps)
    OBVIOUS
  <2>11. QueueOK(r, W, A) /\ Edited(q, r, first, x, gaps)
    BY <1>6, <1>9, <2>2, <2>7, <2>8, <2>9, <2>10, BeforeKeeps
  <2>12. r \in Queue
    BY <2>11 DEF QueueOK
  <2>13. Carries(q, r, gaps \cup {first})
    <3>1. x.frames \subseteq Evidence(q) /\ first.frames \subseteq x.frames /\ \A k \in gaps : k.frames \subseteq x.frames
      BY <1>6, <1>10, <2>6 DEF Evidence
    <3> QED BY <1>0, <2>2, <2>6, <2>8, <2>9, <2>11, <2>12, <3>1, EditedCarries
  <2>14. Normals(q) \ (gaps \cup {first}) = Normals(q) \ {}
    BY <1>5, <1>6 DEF Normals
  <2>15. Carries(q, r, {})
    BY <2>13, <2>14 DEF Carries
  <2>16. Markers(r) = (Markers(q) \cup {x}) \ gaps
    <3>1. Markers(r) = ((Markers(q) \ {first}) \ gaps) \cup {x}
      BY <1>0, <2>2, <2>6, <2>9, <2>11, <2>12, EditedKinds
    <3> QED BY <1>6, <2>9, <3>1
  <2>17. Cardinality(Crosses(q)) < CrossMax
    BY <1>4, <1>12 DEF CrossSlot
  <2>18. MarkerCaps(r)
    BY <1>0, <1>5, <2>6, <2>12, <2>16, <2>17, CrossChanged
  <2>19. MergeIntoCross(q, j) = r
    BY <1>1, <1>2, <1>3, <1>4, <1>12, <2>1, <2>5, <2>10 DEF MergeIntoCross
  <2> QED BY <2>11, <2>15, <2>18, <2>19
<1> QED BY <1>11, <1>12

\* An open marker takes in frame n.
LEMMA FoldGrown ==
    ASSUME NEW q, NEW W, NEW A, QueueOK(q, W, A), AllFixed(W), MarkerCaps(q),
           NEW n \in Normals(q), n \notin InFlight(q),
           NEW m \in Markers(q), ~m.sealed, m.epoch = q.epoch, m.t = "gap" => n.inst \in m.insts
    PROVE  LET r == Without(Grown(q, m, n.inst, {Frame(n)}), {n})
           IN  QueueOK(r, W, A) /\ MarkerCaps(r) /\ Carries(q, r, {n}) /\ Frame(n) \in MarkerFrames(r)
<1>0. q \in Queue
  BY DEF QueueOK
<1>1. n \in NormalEntry /\ n.t = "normal" /\ n \in Held(q) /\ Origin(n) = Frame(n) /\ Frame(n) \in Frames /\ n.inst \in Nat
  <2>1. n \in NormalEntry /\ n.t = "normal" /\ n \in Held(q)
    BY <1>0, Kinds
  <2> QED BY <2>1 DEF NormalEntry, Origin, Frame, Frames, Positive
<1>2. m \in MarkerRecord /\ m \in MarkerEntry /\ m.t # "normal" /\ m \in Held(q)
  BY <1>0, Kinds
<1>3. m.t = "gap" => m.insts = {n.inst}
  BY <1>2 DEF MarkerEntry
<1>4. PICK i : i = n.inst
  OBVIOUS
<1>5. PICK frames : frames = {Frame(n)}
  OBVIOUS
<1>6. PICK es : es = {n}
  OBVIOUS
<1>7. PICK x : x = [m EXCEPT !.frames = @ \cup frames, !.insts = @ \cup {i}]
  OBVIOUS
<1>8. PICK r : r = Without(Grown(q, m, i, frames), es)
  OBVIOUS
<1>9. q.sending => q.entries[1] \notin es
  BY <1>6 DEF InFlight
<1>10. QueueOK(r, W, A) /\ Edited(q, r, m, x, es) /\ x \in MarkerEntry
  BY <1>1, <1>3, <1>4, <1>5, <1>7, <1>8, <1>9, GrownKeeps
<1>11. x.t = m.t /\ x.frames = m.frames \cup frames /\ x.insts = m.insts \cup {i} /\ x.epoch = q.epoch
  BY <1>2, <1>7 DEF MarkerRecord
<1>12. r \in Queue /\ x \notin es /\ x.t # "normal"
  BY <1>1, <1>2, <1>6, <1>10, <1>11 DEF QueueOK
<1>13. Carries(q, r, es \cup {m}) /\ x.frames \subseteq MarkerFrames(r)
  <2>1. x.frames \subseteq Evidence(q)
    <3>1. Frame(n) \in Evidence(q)
      BY <1>1 DEF Evidence
    <3>2. m.frames \subseteq Evidence(q)
      BY DEF Evidence, MarkerFrames
    <3> QED BY <1>5, <1>11, <3>1, <3>2
  <2>2. \A k \in es \cap Markers(q) : k.frames \subseteq x.frames
    BY <1>1, <1>6 DEF Markers
  <2> QED BY <1>0, <1>2, <1>10, <1>11, <1>12, <2>1, <2>2, EditedCarries
<1>14. Normals(q) \ (es \cup {m}) = Normals(q) \ {n}
  BY <1>2, <1>6 DEF Normals
<1>15. Carries(q, r, {n})
  BY <1>13, <1>14 DEF Carries
<1>16. Markers(r) = (Markers(q) \ {m}) \cup {x}
  <2>1. Markers(r) = ((Markers(q) \ {m}) \ es) \cup {x}
    BY <1>0, <1>2, <1>10, <1>12, EditedKinds
  <2>2. n \notin Markers(q)
    BY <1>1 DEF Markers
  <2> QED BY <1>6, <2>1, <2>2
<1>17. MarkerCaps(r)
  <2>1. CASE m.t = "gap"
    <3>1. x.t = "gap" /\ m.insts = {i} /\ x.insts = {i}
      BY <1>3, <1>4, <1>11, <2>1
    <3> QED BY <1>0, <1>12, <1>16, <2>1, <3>1, GapSwapped
  <2>2. CASE m.t = "cross"
    <3>1. m \in Crosses(q) /\ x.t = "cross"
      BY <1>11, <2>2 DEF Crosses
    <3>2. PICK gaps : gaps = {}
      OBVIOUS
    <3>3. Markers(r) = ((Markers(q) \ {m}) \cup {x}) \ gaps /\ \A g \in gaps : g.t = "gap"
      BY <1>16, <3>2
    <3> QED BY <1>0, <1>12, <3>1, <3>3, CrossChanged
  <2> QED BY <1>2, <2>1, <2>2 DEF MarkerRecord
<1>18. Frame(n) \in MarkerFrames(r)
  BY <1>5, <1>11, <1>13
<1> QED BY <1>4, <1>5, <1>6, <1>8, <1>10, <1>15, <1>17, <1>18

\* A new marker takes the place of frame n.
LEMMA FoldFresh ==
    ASSUME NEW q, NEW W, NEW A, QueueOK(q, W, A), AllFixed(W), MarkerCaps(q),
           NEW n \in Normals(q), n \notin InFlight(q), NEW t \in {"gap", "cross"},
           t = "gap" => /\ Cardinality(GapsOf(q, n.inst)) < GapsPerInstanceMax
                        /\ GapsOf(q, n.inst) # {} \/ Cardinality(GapInstances(q)) < GapInstancesMax,
           t = "cross" => Cardinality(Crosses(q)) < CrossMax
    PROVE  LET r == Without(Before(q, n, Marker(t, <<t, n.inst, n.seq>>, {n.inst}, {Frame(n)}, q.epoch)), {n})
           IN  QueueOK(r, W, A) /\ MarkerCaps(r) /\ Carries(q, r, {n}) /\ Frame(n) \in MarkerFrames(r)
<1>0. q \in Queue
  BY DEF QueueOK
<1>1. /\ n \in NormalEntry /\ n.t = "normal" /\ n \in Held(q) /\ Origin(n) = Frame(n) /\ Frame(n) = <<n.inst, n.seq>>
      /\ Frame(n) \in Frames /\ n.inst \in Positive /\ n.seq \in Positive /\ n.inst \in Nat
  <2>1. n \in NormalEntry /\ n.t = "normal" /\ n \in Held(q)
    BY <1>0, Kinds
  <2> QED BY <2>1 DEF NormalEntry, Origin, Frame, Frames, Positive
<1>2. PICK x : x = Marker(t, <<t, n.inst, n.seq>>, {n.inst}, {Frame(n)}, q.epoch)
  OBVIOUS
<1>3. PICK es : es = {n}
  OBVIOUS
<1>4. /\ x \in MarkerRecord /\ x.t = t /\ x.id = <<t, n.inst, n.seq>> /\ x.frames = {Frame(n)}
      /\ x.insts = {n.inst} /\ x.epoch = q.epoch
  BY <1>0, <1>1, <1>2, HeldShape DEF Marker, MarkerRecord
<1>5. Origin(x) = Frame(n) /\ x.t # "normal"
  BY <1>1, <1>4 DEF Origin
<1>6. x \in MarkerEntry
  BY <1>1, <1>4, <1>5 DEF MarkerEntry
<1>7. x \notin es /\ n \in es
  BY <1>1, <1>3, <1>5
<1>8. PICK r : r = Without(Before(q, n, x), es)
  OBVIOUS
<1>9. q.sending => q.entries[1] \notin es
  BY <1>3 DEF InFlight
<1>10. QueueOK(r, W, A) /\ Edited(q, r, n, x, es)
  BY <1>1, <1>5, <1>6, <1>7, <1>8, <1>9, BeforeKeeps
<1>11. r \in Queue
  BY <1>10 DEF QueueOK
<1>12. Carries(q, r, es \cup {n}) /\ x.frames \subseteq MarkerFrames(r)
  <2>1. x.frames \subseteq Evidence(q)
    BY <1>1, <1>4 DEF Evidence
  <2>2. \A k \in es \cap Markers(q) : k.frames \subseteq x.frames
    BY <1>1, <1>3 DEF Markers
  <2> QED BY <1>0, <1>1, <1>4, <1>6, <1>7, <1>10, <1>11, <2>1, <2>2, EditedCarries
<1>13. Carries(q, r, {n})
  <2>1. es \cup {n} = {n}
    BY <1>3
  <2> QED BY <1>12, <2>1
<1>14. Markers(r) = Markers(q) \cup {x}
  <2>1. Markers(r) = ((Markers(q) \ {n}) \ es) \cup {x}
    BY <1>0, <1>1, <1>5, <1>7, <1>10, <1>11, EditedKinds
  <2>2. n \notin Markers(q)
    BY <1>1 DEF Markers
  <2> QED BY <1>3, <2>1, <2>2
<1>15. MarkerCaps(r)
  <2>1. CASE t = "gap"
    <3>1. PICK i : i = n.inst
      OBVIOUS
    <3>2. x.t = "gap" /\ x.insts = {i}
      BY <1>4, <2>1, <3>1
    <3> QED BY <1>0, <1>11, <1>14, <2>1, <3>1, <3>2, GapAdded
  <2>2. CASE t = "cross"
    <3>1. PICK gaps : gaps = {}
      OBVIOUS
    <3>2. x.t = "cross" /\ Markers(r) = (Markers(q) \cup {x}) \ gaps /\ \A g \in gaps : g.t = "gap"
      BY <1>4, <1>14, <2>2, <3>1
    <3> QED BY <1>0, <1>11, <2>2, <3>2, CrossChanged
  <2> QED BY <2>1, <2>2
<1> QED BY <1>2, <1>3, <1>4, <1>8, <1>10, <1>12, <1>13, <1>15

LEMMA FoldIntoKeeps ==
    ASSUME NEW q, NEW W, NEW A, QueueOK(q, W, A), AllFixed(W), MarkerCaps(q),
           NEW n \in Normals(q), n \notin InFlight(q), NEW r \in FoldInto(q, n)
    PROVE  QueueOK(r, W, A) /\ MarkerCaps(r) /\ Carries(q, r, {n}) /\ Frame(n) \in MarkerFrames(r)
<1> DEFINE i == n.inst
           gap == Open(q, GapsOf(q, i))
           cross == Open(q, Crosses(q))
           fresh(t) == Marker(t, <<t, i, n.seq>>, {i}, {Frame(n)}, q.epoch)
           slot == /\ Cardinality(GapsOf(q, i)) < GapsPerInstanceMax
                   /\ GapsOf(q, i) # {} \/ Cardinality(GapInstances(q)) < GapInstancesMax
           grow(m) == Without(Grown(q, m, i, {Frame(n)}), {n})
           put(t) == Without(Before(q, n, fresh(t)), {n})
<1>0. q \in Queue
  BY DEF QueueOK
<1>1. GapsOf(q, i) \subseteq Markers(q) /\ Crosses(q) \subseteq Markers(q)
  BY DEF GapsOf, Crosses
<1>2. /\ gap \subseteq Markers(q) /\ gap \subseteq Held(q) /\ cross \subseteq Markers(q) /\ cross \subseteq Held(q)
      /\ \A m \in gap \cup cross : ~m.sealed /\ m.epoch = q.epoch
      /\ \A m \in gap : i \in m.insts
      /\ \A m \in cross : m.t = "cross"
  <2>1. /\ gap \subseteq GapsOf(q, i) /\ gap \subseteq Held(q) /\ \A m \in gap : ~m.sealed /\ m.epoch = q.epoch
    BY <1>0, <1>1, OpenIs
  <2>2. /\ cross \subseteq Crosses(q) /\ cross \subseteq Held(q) /\ \A m \in cross : ~m.sealed /\ m.epoch = q.epoch
    BY <1>0, <1>1, OpenIs
  <2>3. (\A m \in GapsOf(q, i) : i \in m.insts) /\ (\A m \in Crosses(q) : m.t = "cross")
    BY DEF GapsOf, Crosses
  <2> HIDE DEF gap, cross
  <2> QED BY <1>1, <2>1, <2>2, <2>3
<1>3. \/ gap # {} /\ r = grow(First(q, gap))
      \/ slot /\ r = put("gap")
      \/ cross # {} /\ r = grow(First(q, cross))
      \/ cross = {} /\ CrossSlot(q) /\ r = put("cross")
  <2> HIDE DEF gap, cross, grow, put, slot
  <2>1. r \in (CASE gap # {} -> {grow(First(q, gap))}
                 [] gap = {} /\ slot -> {put("gap")}
                 [] OTHER -> CASE cross # {} -> {grow(First(q, cross))}
                               [] cross = {} /\ CrossSlot(q) -> {put("cross")}
                               [] OTHER -> {})
    BY DEF FoldInto, gap, cross, grow, put, slot
  <2> QED BY <2>1
<1>4. CASE gap # {} /\ r = grow(First(q, gap))
  <2>1. PICK m : m = First(q, gap)
    OBVIOUS
  <2>2. m \in gap
    <3> HIDE DEF gap
    <3> QED BY <1>0, <1>2, <1>4, <2>1, FirstIs
  <2>3. m \in Markers(q) /\ ~m.sealed /\ m.epoch = q.epoch /\ n.inst \in m.insts
    <3> HIDE DEF gap
    <3> QED BY <1>2, <2>2
  <2>4. r = Without(Grown(q, m, n.inst, {Frame(n)}), {n})
    BY <1>4, <2>1
  <2> QED BY <2>3, <2>4, FoldGrown
<1>5. CASE cross # {} /\ r = grow(First(q, cross))
  <2>1. PICK m : m = First(q, cross)
    OBVIOUS
  <2>2. m \in cross
    <3> HIDE DEF cross
    <3> QED BY <1>0, <1>2, <1>5, <2>1, FirstIs
  <2>3. m \in Markers(q) /\ ~m.sealed /\ m.epoch = q.epoch /\ m.t # "gap"
    <3> HIDE DEF cross
    <3> QED BY <1>2, <2>2
  <2>4. r = Without(Grown(q, m, n.inst, {Frame(n)}), {n})
    BY <1>5, <2>1
  <2> QED BY <2>3, <2>4, FoldGrown
<1>6. CASE slot /\ r = put("gap")
  <2>1. PICK t : t = "gap"
    OBVIOUS
  <2>2. r = Without(Before(q, n, Marker(t, <<t, n.inst, n.seq>>, {n.inst}, {Frame(n)}, q.epoch)), {n})
    BY <1>6, <2>1
  <2>3. /\ t \in {"gap", "cross"} /\ t # "cross"
        /\ Cardinality(GapsOf(q, n.inst)) < GapsPerInstanceMax
        /\ GapsOf(q, n.inst) # {} \/ Cardinality(GapInstances(q)) < GapInstancesMax
    BY <1>6, <2>1
  <2> QED BY <2>2, <2>3, FoldFresh
<1>7. CASE cross = {} /\ CrossSlot(q) /\ r = put("cross")
  <2>1. PICK t : t = "cross"
    OBVIOUS
  <2>2. r = Without(Before(q, n, Marker(t, <<t, n.inst, n.seq>>, {n.inst}, {Frame(n)}, q.epoch)), {n})
    BY <1>7, <2>1
  <2>3. t \in {"gap", "cross"} /\ t # "gap" /\ Cardinality(Crosses(q)) < CrossMax
    BY <1>7, <2>1 DEF CrossSlot
  <2> QED BY <2>2, <2>3, FoldFresh
<1> QED BY <1>3, <1>4, <1>5, <1>6, <1>7

LEMMA CarriesOn ==
    ASSUME NEW q, NEW r, NEW s, NEW gone, Carries(q, r, {}), Carries(r, s, gone)
    PROVE  Carries(q, s, gone)
  BY DEF Carries

\* foldEntry
LEMMA FoldKeeps ==
    ASSUME NEW q, NEW W, NEW A, QueueOK(q, W, A), AllFixed(W), MarkerCaps(q),
           NEW n \in Normals(q), n \notin InFlight(q), NEW r \in Fold(q, n)
    PROVE  QueueOK(r, W, A) /\ MarkerCaps(r) /\ Carries(q, r, {n}) /\ Frame(n) \in MarkerFrames(r)
<1> DEFINE full == GapsOf(q, n.inst) = {} /\ Cardinality(GapInstances(q)) >= GapInstancesMax
           merge == Mergeable(q, n.inst)
           place(j) == Position(q, First(q, GapsOf(q, j)))
           oldest == CHOOSE j \in merge : \A k \in merge : place(j) <= place(k)
           room == full /\ merge # {} /\ CrossSlot(q)
<1>0. q \in Queue
  BY DEF QueueOK
<1>1. r \in FoldInto(IF room THEN MergeIntoCross(q, oldest) ELSE q, n)
  BY DEF Fold
<1>2. CASE room
  <2>1. \A j \in merge : place(j) \in Nat
    <3> SUFFICES ASSUME NEW j \in merge PROVE place(j) \in Nat
      OBVIOUS
    <3>1. GapsOf(q, j) \subseteq Held(q) /\ GapsOf(q, j) # {}
      BY DEF Mergeable, GapInstances, GapsOf, Markers
    <3>2. First(q, GapsOf(q, j)) \in Held(q)
      BY <1>0, <3>1, FirstIs
    <3> QED BY <1>0, <3>2, PositionIs, HeldShape
  <2>2. oldest \in merge
    <3> DEFINE S == {place(j) : j \in merge}
    <3> HIDE DEF place, merge
    <3>1. S \subseteq Nat /\ S # {}
      BY <1>2, <2>1
    <3>2. PICK p \in S : \A k \in S : ~(k < p)
      BY <3>1, LeastMember
    <3>3. PICK j \in merge : p = place(j)
      OBVIOUS
    <3>4. \A k \in merge : place(j) <= place(k)
      BY <2>1, <3>2, <3>3
    <3> QED BY <3>4
  <2> HIDE DEF oldest, place
  <2>3. PICK s : s = MergeIntoCross(q, oldest)
    OBVIOUS
  <2>4. QueueOK(s, W, A) /\ MarkerCaps(s) /\ Carries(q, s, {})
    <3>1. PICK i, j : i = n.inst /\ j = oldest
      OBVIOUS
    <3>2. j \in Mergeable(q, i) /\ CrossSlot(q)
      BY <1>2, <2>2, <3>1
    <3> QED BY <2>3, <3>1, <3>2, MergeKeeps
  <2>5. n \in Normals(s) /\ n \notin InFlight(s)
    BY <2>4 DEF Carries, InFlight
  <2>6. r \in FoldInto(s, n)
    BY <1>1, <1>2, <2>3
  <2>7. QueueOK(r, W, A) /\ MarkerCaps(r) /\ Carries(s, r, {n}) /\ Frame(n) \in MarkerFrames(r)
    BY <2>4, <2>5, <2>6, FoldIntoKeeps
  <2>8. Carries(q, r, {n})
    <3>1. PICK g : g = {n}
      OBVIOUS
    <3> QED BY <2>4, <2>7, <3>1, CarriesOn
  <2> QED BY <2>7, <2>8
<1>3. CASE ~room
  <2> HIDE DEF room
  <2>1. r \in FoldInto(q, n)
    BY <1>1, <1>3
  <2> QED BY <2>1, FoldIntoKeeps
<1> QED BY <1>2, <1>3

\* A completed turn is dropped, perhaps counted in a gap.
LEMMA DropKeeps ==
    ASSUME NEW q, NEW W, NEW A, QueueOK(q, W, A), AllFixed(W), MarkerCaps(q),
           NEW n \in Normals(q), n \notin InFlight(q)
    PROVE  LET r == DropTurn(q, n)
           IN  QueueOK(r, W, A) /\ MarkerCaps(r) /\ Carries(q, r, {n})
<1> DEFINE gap == Open(q, GapsOf(q, n.inst))
<1>0. q \in Queue
  BY DEF QueueOK
<1>1. GapsOf(q, n.inst) \subseteq Markers(q) /\ \A m \in GapsOf(q, n.inst) : n.inst \in m.insts
  BY DEF GapsOf
<1>2. gap \subseteq GapsOf(q, n.inst) /\ gap \subseteq Held(q) /\ \A m \in gap : ~m.sealed /\ m.epoch = q.epoch
  BY <1>0, <1>1, OpenIs
<1>3. CASE gap # {} /\ n.epoch = q.epoch
  <2>1. PICK m : m = First(q, gap)
    OBVIOUS
  <2>2. DropTurn(q, n) = Without(Grown(q, m, n.inst, {Frame(n)}), {n})
    BY <1>3, <2>1 DEF DropTurn
  <2> HIDE DEF gap
  <2>3. m \in gap
    BY <1>0, <1>2, <1>3, <2>1, FirstIs
  <2>4. m \in Markers(q) /\ ~m.sealed /\ m.epoch = q.epoch /\ n.inst \in m.insts
    BY <1>1, <1>2, <2>3
  <2>5. PICK r : r = Without(Grown(q, m, n.inst, {Frame(n)}), {n})
    OBVIOUS
  <2>6. QueueOK(r, W, A) /\ MarkerCaps(r) /\ Carries(q, r, {n})
    BY <2>4, <2>5, FoldGrown
  <2> QED BY <2>2, <2>5, <2>6
<1>4. CASE ~(gap # {} /\ n.epoch = q.epoch)
  <2>1. PICK es : es = {n}
    OBVIOUS
  <2>2. PICK r : r = Without(q, es)
    OBVIOUS
  <2>3. DropTurn(q, n) = r
    BY <1>4, <2>1, <2>2 DEF DropTurn
  <2>4. q.sending => q.entries[1] \notin es
    BY <2>1 DEF InFlight
  <2>5. /\ QueueOK(r, W, A) /\ Held(r) = Held(q) \ es
        /\ r.sending = q.sending /\ r.epoch = q.epoch /\ r.human = q.human
        /\ q.sending => r.entries # <<>> /\ r.entries[1] = q.entries[1]
    BY <2>2, <2>4, WithoutKeeps
  <2>6. Normals(r) = Normals(q) \ {n} /\ Markers(r) = Markers(q)
    <3>1. n.t = "normal"
      BY DEF Normals
    <3> QED BY <2>1, <2>5, <3>1 DEF Normals, Markers
  <2>7. MarkerFrames(r) = MarkerFrames(q) /\ Evidence(r) \subseteq Evidence(q)
    BY <2>6 DEF MarkerFrames, Evidence
  <2>8. Carries(q, r, {n})
    BY <2>5, <2>6, <2>7 DEF Carries
  <2>9. GapInstances(r) = GapInstances(q) /\ Crosses(r) = Crosses(q) /\ \A i : GapsOf(r, i) = GapsOf(q, i)
    BY <2>6 DEF GapInstances, Crosses, GapsOf
  <2>10. MarkerCaps(r)
    BY <2>9 DEF MarkerCaps
  <2> QED BY <2>3, <2>5, <2>8, <2>10
<1> QED BY <1>3, <1>4

-----------------------------------------------------------------------------
\* Appending.

\* Frame n is later than every frame of its instance in q and among those that
\* went out, and of the latter only one in flight is not applied.
Latest(n, q, W, A) ==
    /\ \A x \in Evidence(q) : x[1] = n.inst => x[2] < n.seq
    /\ \A w \in W : /\ Origin(w)[1] = n.inst => Origin(w)[2] < n.seq
                    /\ w.t = "normal" /\ w.inst = n.inst => Origin(w) \in A \/ w \in InFlight(q)

LEMMA OriginsHeld ==
    ASSUME NEW q \in Queue, NEW e \in Held(q)
    PROVE  Origin(e) \in Evidence(q) /\ (e.t = "normal" => Origin(e) = <<e.inst, e.seq>>)
<1>1. CASE e.t = "normal"
  <2>1. e \in Normals(q)
    BY <1>1 DEF Normals
  <2> QED BY <1>1, <2>1 DEF Evidence, Origin
<1>2. CASE e.t # "normal"
  <2>1. e \in Markers(q)
    BY <1>2 DEF Markers
  <2>2. Origin(e) \in e.frames
    BY <2>1, Kinds DEF MarkerEntry
  <2> QED BY <1>2, <2>1, <2>2 DEF Evidence, MarkerFrames
<1> QED BY <1>1, <1>2

AddedTo(q, n) == [q EXCEPT !.entries = Append(@, n)]

LEMMA AppendKeeps ==
    ASSUME NEW q, NEW W, NEW A, QueueOK(q, W, A), NEW n \in NormalEntry, Latest(n, q, W, A),
           NEW r, r = AddedTo(q, n)
    PROVE  /\ QueueOK(r, W, A) /\ Normals(r) = Normals(q) \cup {n} /\ Markers(r) = Markers(q)
           /\ r.sending = q.sending /\ r.epoch = q.epoch /\ r.human = q.human
           /\ q.sending => r.entries # <<>> /\ r.entries[1] = q.entries[1]
<1>0. q \in Queue
  BY DEF QueueOK
<1>1. PICK s : s = q.entries
  OBVIOUS
<1>2. PICK u : u = Append(s, n)
  OBVIOUS
<1>3. s \in Seq(Entry) /\ Len(s) \in Nat /\ DOMAIN s = 1..Len(s) /\ n \in Entry
  BY <1>0, <1>1, HeldShape DEF Entry
<1>4. /\ u \in Seq(Entry) /\ Len(u) = Len(s) + 1 /\ DOMAIN u = 1..(Len(s) + 1)
      /\ u[Len(s) + 1] = n /\ \A j \in 1..Len(s) : u[j] = s[j]
  BY <1>2, <1>3, AppendProperties
<1>5. r \in Queue /\ r.entries = u /\ r.sending = q.sending /\ r.epoch = q.epoch /\ r.human = q.human
  <2>1. r = [q EXCEPT !.entries = u]
    BY <1>1, <1>2 DEF AddedTo
  <2> QED BY <1>0, <1>4, <2>1 DEF Queue
<1>6. \A k \in DOMAIN u : k = Len(s) + 1 \/ k \in DOMAIN s
  BY <1>3, <1>4
<1>7. Held(r) = Held(q) \cup {n}
  <2>1. Held(r) = {u[k] : k \in DOMAIN u} /\ Held(q) = {s[k] : k \in DOMAIN s}
    BY <1>1, <1>5 DEF Held, ToSet
  <2>2. Len(s) + 1 \in DOMAIN u /\ \A k \in DOMAIN s : k \in DOMAIN u
    BY <1>3, <1>4
  <2>3. ASSUME NEW e \in Held(r) PROVE e \in Held(q) \cup {n}
    BY <1>3, <1>4, <1>6, <2>1
  <2>4. ASSUME NEW k \in DOMAIN s PROVE s[k] \in Held(r)
    BY <1>3, <1>4, <2>1, <2>2
  <2>5. n \in Held(r)
    BY <1>4, <2>1, <2>2
  <2> QED BY <2>1, <2>3, <2>4, <2>5
<1>8. n.t = "normal" /\ n.inst \in Positive /\ n.seq \in Positive /\ Origin(n) = <<n.inst, n.seq>>
  BY DEF NormalEntry, Origin
<1>9. Normals(r) = Normals(q) \cup {n} /\ Markers(r) = Markers(q)
  BY <1>7, <1>8 DEF Normals, Markers
<1>10. q.sending => r.entries # <<>> /\ r.entries[1] = q.entries[1] /\ q.entries # <<>>
  <2> SUFFICES ASSUME q.sending PROVE u # <<>> /\ u[1] = s[1] /\ s # <<>>
    BY <1>1, <1>5
  <2>1. s # <<>>
    BY <1>1 DEF QueueOK, HeadFixed
  <2>2. 1 \in 1..Len(s)
    BY <1>3, <2>1
  <2> QED BY <1>3, <1>4, <2>1, <2>2
<1>11. HeadFixed(r)
  BY <1>5, <1>10 DEF QueueOK, HeadFixed
<1>12. InFlight(r) = InFlight(q)
  BY <1>5, <1>10 DEF InFlight
<1>13. ASSUME NEW k \in DOMAIN s
       PROVE  /\ Origin(s[k]) # Origin(n) /\ s[k] \in Held(q)
              /\ s[k].t = "normal" /\ s[k].inst = n.inst => s[k].seq < n.seq
  <2>1. s[k] \in Held(q)
    BY <1>1 DEF Held, ToSet
  <2>2. Origin(s[k]) \in Evidence(q) /\ (s[k].t = "normal" => Origin(s[k]) = <<s[k].inst, s[k].seq>>)
    BY <1>0, <2>1, OriginsHeld
  <2>3. Origin(s[k])[1] = n.inst => Origin(s[k])[2] < n.seq
    BY <2>2 DEF Latest
  <2>4. Origin(s[k]) # Origin(n)
    BY <1>8, <2>3 DEF Positive
  <2>5. s[k].t = "normal" /\ s[k].inst = n.inst => s[k].seq < n.seq
    BY <2>2, <2>3
  <2> QED BY <2>1, <2>4, <2>5
<1>14. Distinct(u)
  <2> SUFFICES ASSUME NEW j \in DOMAIN u, NEW k \in DOMAIN u, j # k PROVE Origin(u[j]) # Origin(u[k])
    BY DEF Distinct
  <2>1. CASE j \in DOMAIN s /\ k \in DOMAIN s
    BY <1>1, <1>3, <1>4, <2>1 DEF QueueOK, Distinct
  <2>2. CASE j = Len(s) + 1 /\ k \in DOMAIN s
    BY <1>3, <1>4, <1>13, <2>2
  <2>3. CASE k = Len(s) + 1 /\ j \in DOMAIN s
    BY <1>3, <1>4, <1>13, <2>3
  <2> QED BY <1>6, <2>1, <2>2, <2>3
<1>15. Ascending(u)
  <2> SUFFICES ASSUME NEW j \in DOMAIN u, NEW k \in DOMAIN u,
                      j < k, u[j].t = "normal", u[k].t = "normal", u[j].inst = u[k].inst
               PROVE  u[j].seq < u[k].seq
    BY DEF Ascending
  <2>1. CASE j \in DOMAIN s /\ k \in DOMAIN s
    BY <1>1, <1>3, <1>4, <2>1 DEF QueueOK, Ascending
  <2>2. CASE j = Len(s) + 1
    BY <1>3, <1>4, <2>2
  <2>3. CASE k = Len(s) + 1 /\ j \in DOMAIN s
    BY <1>3, <1>4, <1>13, <2>3
  <2> QED BY <1>6, <2>1, <2>2, <2>3
<1>16. Against(r, W, A)
  <2> SUFFICES ASSUME NEW e \in Held(r), NEW w \in W
               PROVE  /\ e.t = "normal" /\ w.t = "normal" => FrameAgainst(r, e, w, A)
                      /\ e.t = "normal" /\ w.t # "normal" => Origin(e) # Origin(w)
                      /\ e.t # "normal" /\ w.t # "normal" /\ Origin(e) = Origin(w) => e = w
    BY DEF Against
  <2>1. CASE e \in Held(q)
    BY <1>12, <2>1 DEF QueueOK, Against, FrameAgainst
  <2>2. CASE e = n
    <3>1. Origin(w)[1] = n.inst => Origin(w)[2] < n.seq
      BY DEF Latest
    <3>2. Origin(e) # Origin(w)
      BY <1>8, <2>2, <3>1 DEF Positive
    <3>3. ASSUME w.t = "normal", w.inst = n.inst PROVE w.seq < n.seq /\ (<<w.inst, w.seq>> \in A \/ w \in InFlight(r))
      <4>1. Origin(w) = <<w.inst, w.seq>>
        BY <3>3 DEF Origin
      <4> QED BY <1>12, <3>1, <3>3, <4>1 DEF Latest
    <3> QED BY <1>8, <2>2, <3>2, <3>3 DEF FrameAgainst
  <2> QED BY <1>7, <2>1, <2>2
<1> QED BY <1>5, <1>9, <1>10, <1>11, <1>14, <1>15, <1>16 DEF QueueOK

\* r is q with frame n; only completed turns may be missing.
Stored(q, r, n) ==
    /\ r.sending = q.sending /\ r.epoch = q.epoch /\ r.human = q.human
    /\ q.sending => r.entries # <<>> /\ r.entries[1] = q.entries[1]
    /\ Normals(r) \subseteq Normals(q) \cup {n}
    /\ \A m \in Markers(r) : m \in Markers(q) \/ m.epoch = q.epoch
    /\ Evidence(r) \subseteq Evidence(q) \cup {Frame(n)}
    /\ ~n.turn => Frame(n) \in Evidence(r)
    /\ \A x \in Evidence(q) : x \in Evidence(r) \/ \E k \in Normals(q) : k.turn /\ Origin(k) = x

\* The frame is added once there is room for it.
LEMMA AddKeeps ==
    ASSUME NEW q, q \in Queue, NEW p, NEW W, NEW A, QueueOK(p, W, A), MarkerCaps(p), NEW gone,
           Carries(q, p, gone), \A k \in gone \cap Normals(q) : k.turn \/ Origin(k) \in MarkerFrames(p),
           Cardinality(Normals(p)) < NormalCap, NEW n \in NormalEntry, Latest(n, q, W, A),
           NEW r, r = AddedTo(p, n)
    PROVE  QueueOK(r, W, A) /\ MarkerCaps(r) /\ Cardinality(Normals(r)) <= NormalCap /\ Stored(q, r, n)
<1>0. p \in Queue
  BY DEF QueueOK
<1>1. Latest(n, p, W, A)
  <2>1. InFlight(p) = InFlight(q) /\ Evidence(p) \subseteq Evidence(q)
    BY DEF Carries, InFlight
  <2> QED BY <2>1 DEF Latest
<1>2. /\ QueueOK(r, W, A) /\ Normals(r) = Normals(p) \cup {n} /\ Markers(r) = Markers(p)
      /\ r.sending = p.sending /\ r.epoch = p.epoch /\ r.human = p.human
      /\ p.sending => r.entries # <<>> /\ r.entries[1] = p.entries[1]
  <2>1. QueueOK(p, W, A) /\ n \in NormalEntry /\ r = AddedTo(p, n)
    OBVIOUS
  <2> QED BY ONLY <1>1, <2>1, AppendKeeps
<1>3. GapInstances(r) = GapInstances(p) /\ Crosses(r) = Crosses(p) /\ \A i : GapsOf(r, i) = GapsOf(p, i)
  BY <1>2 DEF GapInstances, Crosses, GapsOf
<1>4. MarkerCaps(r)
  BY <1>3 DEF MarkerCaps
<1>5. Cardinality(Normals(r)) <= NormalCap
  <2>1. PICK S : S = Normals(p)
    OBVIOUS
  <2>2. IsFiniteSet(S) /\ Cardinality(S) \in Nat /\ Cardinality(S) < NormalCap
    BY <1>0, <2>1, SlotsFinite
  <2>3. Cardinality(S \cup {n}) = IF n \in S THEN Cardinality(S) ELSE Cardinality(S) + 1
    BY <2>2, FS_AddElement
  <2>4. Normals(r) = S \cup {n} /\ NormalCap \in Nat
    BY <1>2, <2>1, CapNumbers
  <2> QED BY ONLY <2>2, <2>3, <2>4
<1>6. MarkerFrames(r) = MarkerFrames(p) /\ Origin(n) = Frame(n)
  BY <1>2 DEF MarkerFrames, Origin, Frame, NormalEntry
<1>7. Frame(n) \in Evidence(r) /\ Evidence(r) \subseteq Evidence(q) \cup {Frame(n)}
  BY <1>2, <1>6 DEF Evidence, Carries
<1>8. ASSUME NEW x \in Evidence(q) PROVE x \in Evidence(r) \/ \E k \in Normals(q) : k.turn /\ Origin(k) = x
  <2>1. CASE x \in MarkerFrames(q)
    BY <1>6, <2>1 DEF Carries, Evidence
  <2>2. CASE x \notin MarkerFrames(q)
    <3>1. PICK k \in Normals(q) : x = Origin(k)
      BY <2>2 DEF Evidence
    <3>2. CASE k \in gone
      BY <1>6, <3>1, <3>2 DEF Evidence
    <3>3. CASE k \notin gone
      BY <1>2, <3>1, <3>3 DEF Carries, Evidence
    <3> QED BY <3>2, <3>3
  <2> QED BY <2>1, <2>2
<1>9. Stored(q, r, n)
  BY <1>2, <1>7, <1>8 DEF Stored, Carries
<1> QED BY <1>2, <1>4, <1>5, <1>9

LEMMA CarriesItself ==
    ASSUME NEW q, q \in Queue, HeadFixed(q)
    PROVE  Carries(q, q, {})
  BY DEF Carries, HeadFixed

\* appendToOutbox
LEMMA AppendedKeeps ==
    ASSUME NEW q, NEW W, NEW A, QueueOK(q, W, A), AllFixed(W), MarkerCaps(q),
           Cardinality(Normals(q)) <= NormalCap, NEW n \in NormalEntry, Latest(n, q, W, A),
           NEW r \in Appended(q, n)
    PROVE  QueueOK(r, W, A) /\ MarkerCaps(r) /\ Cardinality(Normals(r)) <= NormalCap /\ Stored(q, r, n)
<1> DEFINE add(p) == AddedTo(p, n)
           folds == {f \in Foldable(q) : Fold(q, f) # {}}
           roomy == Cardinality(Normals(q)) < NormalCap
           tight == Cardinality(Normals(q)) >= NormalCap
<1>0. q \in Queue /\ HeadFixed(q)
  BY DEF QueueOK
<1>1. IsFiniteSet(Normals(q)) /\ Cardinality(Normals(q)) \in Nat /\ NormalCap \in Nat /\ NormalCap # 0
  BY <1>0, SlotsFinite, CapNumbers
<1>2. ASSUME NEW k \in Normals(q), NEW p, Normals(p) = Normals(q) \ {k}
      PROVE  Cardinality(Normals(p)) < NormalCap
  <2>1. PICK S : S = Normals(q)
    OBVIOUS
  <2>2. Cardinality(S \ {k}) = Cardinality(S) - 1
    BY <1>1, <2>1, FS_RemoveElement
  <2> QED BY <1>1, <1>2, <2>1, <2>2
<1>3. \/ roomy /\ r = add(q)
      \/ Droppable(q) # {} /\ r = add(DropTurn(q, First(q, Droppable(q))))
      \/ n.turn /\ r = q
      \/ folds # {} /\ \E p \in Fold(q, First(q, folds)) : r = add(p)
  <2> HIDE DEF add, folds, roomy, tight
  <2>1. r \in (CASE roomy -> {add(q)}
                 [] tight /\ Droppable(q) # {} -> {add(DropTurn(q, First(q, Droppable(q))))}
                 [] tight /\ Droppable(q) = {} /\ n.turn -> {q}
                 [] OTHER -> IF folds = {} THEN {} ELSE {add(p) : p \in Fold(q, First(q, folds))})
    BY DEF Appended, AddedTo, add, folds, roomy, tight
  <2> QED BY <2>1
<1>4. CASE roomy /\ r = add(q)
  <2>1. Carries(q, q, {}) /\ \A k \in {} \cap Normals(q) : k.turn \/ Origin(k) \in MarkerFrames(q)
    BY <1>0, CarriesItself
  <2>2. PICK gone : gone = {}
    OBVIOUS
  <2>3. Carries(q, q, gone) /\ \A k \in gone \cap Normals(q) : k.turn \/ Origin(k) \in MarkerFrames(q)
    BY <2>1, <2>2
  <2> QED BY <1>0, <1>4, <2>3, AddKeeps
<1>5. CASE Droppable(q) # {} /\ r = add(DropTurn(q, First(q, Droppable(q))))
  <2>1. PICK k : k = First(q, Droppable(q))
    OBVIOUS
  <2>2. Droppable(q) \subseteq Held(q)
    BY DEF Droppable, Normals
  <2>3. k \in Droppable(q)
    BY <1>0, <1>5, <2>1, <2>2, FirstIs
  <2>4. k \in Normals(q) /\ k \notin InFlight(q) /\ k.turn
    BY <2>3 DEF Droppable
  <2>5. PICK p : p = DropTurn(q, k)
    OBVIOUS
  <2>6. PICK gone : gone = {k}
    OBVIOUS
  <2>7. QueueOK(p, W, A) /\ MarkerCaps(p) /\ Carries(q, p, gone)
    BY <2>4, <2>5, <2>6, DropKeeps
  <2>8. Cardinality(Normals(p)) < NormalCap
    BY <1>2, <2>4, <2>6, <2>7 DEF Carries
  <2>9. \A j \in gone \cap Normals(q) : j.turn \/ Origin(j) \in MarkerFrames(p)
    BY <2>4, <2>6
  <2>10. r = add(p)
    BY <1>5, <2>1, <2>5
  <2> QED BY <1>0, <2>7, <2>8, <2>9, <2>10, AddKeeps
<1>6. CASE n.turn /\ r = q
  <2>1. Stored(q, q, n)
    BY <1>0, <1>6 DEF Stored, HeadFixed
  <2> QED BY <1>6, <2>1
<1>7. CASE folds # {} /\ \E p \in Fold(q, First(q, folds)) : r = add(p)
  <2>1. PICK k : k = First(q, folds)
    OBVIOUS
  <2>2. folds \subseteq Held(q)
    BY DEF Foldable, Normals
  <2>3. k \in folds
    <3> HIDE DEF folds
    <3> QED BY <1>0, <1>7, <2>1, <2>2, FirstIs
  <2>4. k \in Normals(q) /\ k \notin InFlight(q)
    BY <2>3 DEF Foldable
  <2>5. PICK p \in Fold(q, k) : r = add(p)
    BY <1>7, <2>1
  <2>6. PICK gone : gone = {k}
    OBVIOUS
  <2>7. QueueOK(p, W, A) /\ MarkerCaps(p) /\ Carries(q, p, gone) /\ Frame(k) \in MarkerFrames(p)
    BY <2>4, <2>5, <2>6, FoldKeeps
  <2>8. Cardinality(Normals(p)) < NormalCap
    BY <1>2, <2>4, <2>6, <2>7 DEF Carries
  <2>9. Origin(k) = Frame(k)
    BY <2>4 DEF Normals, Origin, Frame
  <2>10. \A j \in gone \cap Normals(q) : j.turn \/ Origin(j) \in MarkerFrames(p)
    BY <2>6, <2>7, <2>9
  <2> QED BY <1>0, <2>5, <2>7, <2>8, <2>10, AddKeeps
<1> QED BY <1>3, <1>4, <1>5, <1>6, <1>7

-----------------------------------------------------------------------------
\* Sealing, sending and acknowledging.

SealedForm(e) == IF e.t = "normal" THEN e ELSE [e EXCEPT !.sealed = TRUE]

\* m is m0, perhaps sealed since.
SameMarker(m0, m) ==
    m.t = m0.t /\ m.insts = m0.insts /\ m.frames = m0.frames /\ m.epoch = m0.epoch /\ SealedForm(m) = SealedForm(m0)

LEMMA SealedFormIs ==
    ASSUME NEW e \in Entry
    PROVE  /\ SealedForm(e) \in Entry /\ Origin(SealedForm(e)) = Origin(e) /\ Fixed(SealedForm(e))
           /\ Fixed(e) => SealedForm(e) = e
           /\ SealedForm(e).t = e.t /\ (e.t # "normal" => SealedForm(e) \in MarkerEntry /\ SameMarker(e, SealedForm(e)))
           /\ SealedForm(SealedForm(e)) = SealedForm(e)
<1>1. CASE e.t = "normal"
  BY <1>1 DEF SealedForm, Fixed
<1>2. CASE e.t # "normal"
  <2>1. e \in MarkerEntry /\ e \in MarkerRecord
    BY <1>2, EntryShape
  <2>2. PICK x : x = [e EXCEPT !.sealed = TRUE]
    OBVIOUS
  <2>3. /\ x \in MarkerRecord /\ x.t = e.t /\ x.id = e.id /\ x.insts = e.insts /\ x.frames = e.frames
        /\ x.epoch = e.epoch /\ x.sealed = TRUE
    BY <2>1, <2>2 DEF MarkerRecord
  <2>4. Origin(x) = Origin(e) /\ SealedForm(e) = x /\ Fixed(x)
    BY <1>2, <2>2, <2>3 DEF Origin, SealedForm, Fixed
  <2>5. x \in MarkerEntry /\ x \in Entry
    BY <2>1, <2>3, <2>4 DEF MarkerEntry, Entry
  <2>6. Fixed(e) => x = e
    BY <1>2, <2>1, <2>2 DEF Fixed, MarkerRecord
  <2>7. SealedForm(x) = x
    BY <1>2, <2>3 DEF SealedForm, MarkerRecord
  <2> QED BY <1>2, <2>3, <2>4, <2>5, <2>6, <2>7 DEF SameMarker
<1> QED BY <1>1, <1>2

\* u is s with some entries sealed.
Seals(s, u) ==
    /\ u \in Seq(Entry) /\ DOMAIN u = DOMAIN s
    /\ \A k \in DOMAIN s : u[k] = s[k] \/ u[k] = SealedForm(s[k])

LEMMA SealsPointwise ==
    ASSUME NEW s, s \in Seq(Entry), NEW u, Seals(s, u), NEW k \in DOMAIN s
    PROVE  /\ s[k] \in Entry /\ u[k] \in Entry /\ Origin(u[k]) = Origin(s[k]) /\ u[k].t = s[k].t
           /\ s[k].t = "normal" => u[k] = s[k]
           /\ Fixed(s[k]) => u[k] = s[k]
           /\ s[k].t # "normal" => SameMarker(s[k], u[k])
<1>1. s[k] \in Entry
  OBVIOUS
<1>2. PICK e, x : e = s[k] /\ x = u[k]
  OBVIOUS
<1>3. e \in Entry /\ (x = e \/ x = SealedForm(e))
  BY <1>1, <1>2 DEF Seals
<1>4. e.t # "normal" => SameMarker(e, e)
  BY DEF SameMarker
<1>5. e.t = "normal" => Fixed(e)
  BY DEF Fixed
<1> QED BY <1>2, <1>3, <1>4, <1>5, SealedFormIs

\* Counting entries after sealing.
LEMMA SealedCount ==
    ASSUME NEW s, s \in Seq(Entry), Distinct(s), NEW u, Seals(s, u), NEW X, NEW Y, IsFiniteSet(X),
           X \subseteq {s[k] : k \in DOMAIN s}, Y \subseteq {u[k] : k \in DOMAIN u},
           \A k \in DOMAIN s : s[k] \in X <=> u[k] \in Y
    PROVE  IsFiniteSet(Y) /\ Cardinality(Y) <= Cardinality(X)
<1> DEFINE at(e) == CHOOSE k \in DOMAIN s : s[k] = e
           f == [e \in X |-> u[at(e)]]
<1>1. ASSUME NEW e \in X PROVE at(e) \in DOMAIN s /\ s[at(e)] = e
  OBVIOUS
<1>2. ASSUME NEW k \in DOMAIN s, s[k] \in X PROVE at(s[k]) = k
  <2>1. at(s[k]) \in DOMAIN s /\ s[at(s[k])] = s[k]
    BY <1>2
  <2> HIDE DEF at
  <2> QED BY <2>1 DEF Distinct
<1> HIDE DEF at
<1>3. f \in [X -> Y]
  BY <1>1
<1>4. ASSUME NEW y \in Y PROVE \E e \in X : f[e] = y
  <2>1. PICK k \in DOMAIN s : u[k] = y
    BY DEF Seals
  <2>2. s[k] \in X /\ at(s[k]) = k
    BY <1>2, <2>1
  <2>3. f[s[k]] = y
    BY <2>1, <2>2
  <2> QED BY <2>2, <2>3
<1>5. f \in Surjection(X, Y)
  <2> HIDE DEF f
  <2> QED BY <1>3, <1>4 DEF Surjection
<1> QED BY <1>5, FS_Surjection

\* r is q with some markers sealed.
Sealing(q, r) ==
    /\ Normals(r) = Normals(q)
    /\ \A m \in Markers(r) : \E k \in Markers(q) : SameMarker(k, m)
    /\ \A k \in Markers(q) : \E m \in Markers(r) : SameMarker(k, m)

LEMMA SealedQueue ==
    ASSUME NEW q, NEW W, NEW A, QueueOK(q, W, A), AllFixed(W), NEW r \in Queue, Seals(q.entries, r.entries),
           r.sending => q.entries # <<>> /\ Fixed(r.entries[1]), q.sending => r.sending
    PROVE  /\ QueueOK(r, W, A) /\ Sealing(q, r) /\ (MarkerCaps(q) => MarkerCaps(r))
           /\ q.sending => r.entries[1] = q.entries[1]
<1>0. q \in Queue
  BY DEF QueueOK
<1>1. PICK s, u : s = q.entries /\ u = r.entries
  OBVIOUS
<1>2. /\ s \in Seq(Entry) /\ Len(s) \in Nat /\ DOMAIN s = 1..Len(s) /\ Seals(s, u)
      /\ u \in Seq(Entry) /\ DOMAIN u = DOMAIN s /\ DOMAIN u = 1..Len(s)
  BY <1>0, <1>1, HeldShape DEF Seals
<1>3. ASSUME NEW k \in DOMAIN s
      PROVE  /\ Origin(u[k]) = Origin(s[k]) /\ u[k].t = s[k].t
             /\ s[k].t = "normal" => u[k] = s[k]
             /\ Fixed(s[k]) => u[k] = s[k]
             /\ s[k].t # "normal" => SameMarker(s[k], u[k])
  BY <1>2, SealsPointwise
<1>4. Revises(s, u)
  BY <1>2, <1>3 DEF Revises, Fixed
<1>5. \E f : EmbedsUpTo(u, u, Len(s), {}, f)
  <2> DEFINE f == [k \in DOMAIN u |-> k]
  <2>1. f \in [DOMAIN u -> 1..Len(s)] /\ \A k \in DOMAIN u : f[k] = k
    BY <1>2
  <2> HIDE DEF f
  <2>2. EmbedsUpTo(u, u, Len(s), {}, f)
    BY <1>2, <2>1 DEF EmbedsUpTo
  <2> QED BY <2>2
<1>6. q.sending => s # <<>> /\ u[1] = s[1]
  <2> SUFFICES ASSUME q.sending PROVE s # <<>> /\ u[1] = s[1]
    OBVIOUS
  <2>1. s # <<>> /\ Fixed(s[1])
    BY <1>1 DEF QueueOK, HeadFixed
  <2>2. 1 \in DOMAIN s
    BY <1>2, <2>1
  <2> QED BY <1>3, <2>1, <2>2
<1>7. QueueOK(r, W, A)
  <2>1. PICK es, f : es = {} /\ EmbedsUpTo(r.entries, u, Len(q.entries), es, f)
    BY <1>1, <1>5
  <2>2. r.sending => q.entries # <<>> /\ u[1] \notin es /\ Fixed(u[1])
    BY <1>1, <2>1
  <2>3. q.sending => \/ r.sending /\ u[1] = q.entries[1]
                     \/ q.entries[1].t = "normal" => Origin(q.entries[1]) \in A
    BY <1>1, <1>6
  <2>4. Revises(q.entries, u)
    BY <1>1, <1>4
  <2> QED BY <1>2, <2>1, <2>2, <2>3, <2>4, RevisedQueue
<1>8. Held(q) = {s[k] : k \in DOMAIN s} /\ Held(r) = {u[k] : k \in DOMAIN u}
  BY <1>1 DEF Held, ToSet
<1>9. Sealing(q, r)
  <2>1. ASSUME NEW e \in Normals(q) PROVE e \in Normals(r)
    BY <1>2, <1>3, <1>8 DEF Normals
  <2>2. ASSUME NEW e \in Normals(r) PROVE e \in Normals(q)
    BY <1>2, <1>3, <1>8 DEF Normals
  <2>3. ASSUME NEW m \in Markers(r) PROVE \E k \in Markers(q) : SameMarker(k, m)
    <3>1. PICK j \in DOMAIN s : m = u[j] /\ m.t # "normal"
      BY <1>2, <1>8 DEF Markers
    <3>2. s[j] \in Markers(q) /\ SameMarker(s[j], m)
      BY <1>3, <1>8, <3>1 DEF Markers
    <3> QED BY <3>2
  <2>4. ASSUME NEW k \in Markers(q) PROVE \E m \in Markers(r) : SameMarker(k, m)
    <3>1. PICK j \in DOMAIN s : k = s[j] /\ k.t # "normal"
      BY <1>8 DEF Markers
    <3>2. u[j] \in Markers(r) /\ SameMarker(k, u[j])
      BY <1>2, <1>3, <1>8, <3>1 DEF Markers
    <3> QED BY <3>2
  <2> QED BY <2>1, <2>2, <2>3, <2>4 DEF Sealing
<1>10. ASSUME MarkerCaps(q) PROVE MarkerCaps(r)
  <2>1. GapInstances(r) = GapInstances(q)
    <3>1. ASSUME NEW i \in GapInstances(r) PROVE i \in GapInstances(q)
      BY <1>9 DEF Sealing, SameMarker, GapInstances
    <3>2. ASSUME NEW i \in GapInstances(q) PROVE i \in GapInstances(r)
      BY <1>9 DEF Sealing, SameMarker, GapInstances
    <3> QED BY <3>1, <3>2
  <2>2. Distinct(s)
    BY <1>1 DEF QueueOK
  <2>3. ASSUME NEW i \in GapInstances(r) PROVE Cardinality(GapsOf(r, i)) <= GapsPerInstanceMax
    <3>1. PICK X, Y : X = GapsOf(q, i) /\ Y = GapsOf(r, i)
      OBVIOUS
    <3>2. X \subseteq {s[k] : k \in DOMAIN s} /\ Y \subseteq {u[k] : k \in DOMAIN u}
      BY <1>8, <3>1 DEF GapsOf, Markers
    <3>3. ASSUME NEW k \in DOMAIN s PROVE s[k] \in X <=> u[k] \in Y
      <4>1. s[k] \in Held(q) /\ u[k] \in Held(r)
        BY <1>2, <1>8
      <4> QED BY <1>3, <3>1, <4>1 DEF GapsOf, Markers, SameMarker
    <3>4. IsFiniteSet(X)
      BY <1>0, <3>1, SlotsFinite
    <3>5. Cardinality(Y) <= Cardinality(X)
      BY <1>2, <2>2, <3>2, <3>3, <3>4, SealedCount
    <3>6. Cardinality(X) <= GapsPerInstanceMax /\ Cardinality(X) \in Nat /\ Cardinality(Y) \in Nat
      BY <1>0, <1>10, <2>1, <3>1, SlotsFinite DEF MarkerCaps
    <3> QED BY <3>1, <3>5, <3>6, CapNumbers
  <2>4. Cardinality(Crosses(r)) <= CrossMax
    <3>1. PICK X, Y : X = Crosses(q) /\ Y = Crosses(r)
      OBVIOUS
    <3>2. X \subseteq {s[k] : k \in DOMAIN s} /\ Y \subseteq {u[k] : k \in DOMAIN u}
      BY <1>8, <3>1 DEF Crosses, Markers
    <3>3. ASSUME NEW k \in DOMAIN s PROVE s[k] \in X <=> u[k] \in Y
      <4>1. s[k] \in Held(q) /\ u[k] \in Held(r)
        BY <1>2, <1>8
      <4> QED BY <1>3, <3>1, <4>1 DEF Crosses, Markers
    <3>4. IsFiniteSet(X)
      BY <1>0, <3>1, SlotsFinite
    <3>5. Cardinality(Y) <= Cardinality(X)
      BY <1>2, <2>2, <3>2, <3>3, <3>4, SealedCount
    <3>6. Cardinality(X) <= CrossMax /\ Cardinality(X) \in Nat /\ Cardinality(Y) \in Nat
      BY <1>0, <1>10, <3>1, SlotsFinite DEF MarkerCaps
    <3> QED BY <3>1, <3>5, <3>6, CapNumbers
  <2> QED BY <1>10, <2>1, <2>3, <2>4 DEF MarkerCaps
<1> QED BY <1>1, <1>6, <1>7, <1>9, <1>10

\* What is in flight may be counted among what went out.
LEMMA InFlightOut ==
    ASSUME NEW q, NEW W, NEW A, QueueOK(q, W, A)
    PROVE  QueueOK(q, W \cup InFlight(q), A) /\ AllFixed(InFlight(q)) /\ InFlight(q) \subseteq Held(q)
<1>0. q \in Queue
  BY DEF QueueOK
<1>1. PICK s : s = q.entries
  OBVIOUS
<1>2. s \in Seq(Entry) /\ Len(s) \in Nat /\ DOMAIN s = 1..Len(s) /\ Held(q) = {s[k] : k \in DOMAIN s}
  BY <1>0, <1>1, HeldShape DEF Held, ToSet
<1>3. ASSUME NEW w \in InFlight(q) PROVE q.sending /\ w = s[1] /\ 1 \in DOMAIN s /\ Fixed(w) /\ w \in Held(q)
  <2>1. q.sending /\ w = s[1] /\ s # <<>> /\ Fixed(w)
    BY <1>1 DEF InFlight, QueueOK, HeadFixed
  <2> QED BY <1>2, <2>1
<1>4. Against(q, W \cup InFlight(q), A)
  <2> SUFFICES ASSUME NEW e \in Held(q), NEW w \in InFlight(q)
               PROVE  /\ e.t = "normal" /\ w.t = "normal" => FrameAgainst(q, e, w, A)
                      /\ e.t = "normal" /\ w.t # "normal" => Origin(e) # Origin(w)
                      /\ e.t # "normal" /\ w.t # "normal" /\ Origin(e) = Origin(w) => e = w
    BY DEF QueueOK, Against
  <2>1. w = s[1] /\ 1 \in DOMAIN s
    BY <1>3
  <2>2. PICK k \in DOMAIN s : e = s[k]
    BY <1>2
  <2>3. CASE k = 1
    BY <2>1, <2>2, <2>3 DEF FrameAgainst
  <2>4. CASE k # 1
    <3>1. 1 < k
      BY <1>2, <2>4
    <3>2. Origin(s[1]) # Origin(s[k])
      BY <1>1, <2>1, <2>4 DEF QueueOK, Distinct
    <3>3. s[1].t = "normal" /\ s[k].t = "normal" /\ s[1].inst = s[k].inst => s[1].seq < s[k].seq
      BY <1>1, <2>1, <3>1 DEF QueueOK, Ascending
    <3> QED BY <2>1, <2>2, <3>2, <3>3 DEF FrameAgainst
  <2> QED BY <2>3, <2>4
<1> QED BY <1>3, <1>4 DEF QueueOK, AllFixed

\* sendOldest, the queue.
LEMMA SentKeeps ==
    ASSUME NEW q, NEW W, NEW A, QueueOK(q, W, A), AllFixed(W), MarkerCaps(q), q.entries # <<>>
    PROVE  LET r == Sent(q)
           IN  /\ QueueOK(r, W, A) /\ MarkerCaps(r) /\ Sealing(q, r)
               /\ r.sending /\ r.entries # <<>> /\ r.epoch = q.epoch /\ r.human = q.human
               /\ r.entries[1] = SealedForm(q.entries[1])
               /\ q.sending => r.entries[1] = q.entries[1]
<1>0. q \in Queue
  BY DEF QueueOK
<1>1. PICK s : s = q.entries
  OBVIOUS
<1>2. s \in Seq(Entry) /\ Len(s) \in Nat /\ DOMAIN s = 1..Len(s) /\ s # <<>> /\ 1 \in DOMAIN s /\ s[1] \in Entry
  BY <1>0, <1>1, HeldShape
<1>3. PICK x : x = SealedForm(s[1])
  OBVIOUS
<1>4. x \in Entry /\ Fixed(x)
  <2>1. PICK e : e = s[1] /\ e \in Entry
    BY <1>2
  <2> QED BY <1>3, <2>1, SealedFormIs
<1>5. PICK u : u = [s EXCEPT ![1] = x]
  OBVIOUS
<1>6. /\ u \in Seq(Entry) /\ DOMAIN u = DOMAIN s /\ u[1] = x /\ u # <<>>
      /\ \A k \in DOMAIN s : k # 1 => u[k] = s[k]
  BY <1>2, <1>4, <1>5
<1>7. Seals(s, u)
  BY <1>3, <1>6 DEF Seals
<1>8. PICK r : r = Sent(q)
  OBVIOUS
<1>9. r = [q EXCEPT !.sending = TRUE, !.entries = u]
  BY <1>1, <1>3, <1>5, <1>8 DEF Sent, SealedForm
<1>10. r \in Queue /\ r.sending /\ r.entries = u /\ r.epoch = q.epoch /\ r.human = q.human
  BY <1>0, <1>6, <1>9 DEF Queue
<1>11. Seals(q.entries, r.entries) /\ q.entries # <<>> /\ Fixed(r.entries[1])
  BY <1>1, <1>2, <1>4, <1>6, <1>7, <1>10
<1>12. /\ QueueOK(r, W, A) /\ Sealing(q, r) /\ MarkerCaps(r)
       /\ q.sending => r.entries[1] = q.entries[1]
  BY <1>10, <1>11, SealedQueue
<1> QED BY <1>1, <1>3, <1>6, <1>8, <1>10, <1>12

\* adoptTakeoverEpoch
LEMMA AdoptedKeeps ==
    ASSUME NEW q, NEW W, NEW A, QueueOK(q, W, A), AllFixed(W), MarkerCaps(q), NEW e \in Nat
    PROVE  LET r == Adopted(q, e)
           IN  /\ QueueOK(r, W, A) /\ MarkerCaps(r) /\ Sealing(q, r)
               /\ r.sending = q.sending /\ r.epoch = e /\ r.human = q.human
               /\ q.sending => r.entries # <<>> /\ r.entries[1] = q.entries[1]
<1>0. q \in Queue
  BY DEF QueueOK
<1>1. PICK s : s = q.entries
  OBVIOUS
<1>2. s \in Seq(Entry) /\ Len(s) \in Nat /\ DOMAIN s = 1..Len(s)
  BY <1>0, <1>1, HeldShape
<1>3. PICK u : u = [k \in DOMAIN s |-> SealedForm(s[k])]
  OBVIOUS
<1>4. \A k \in DOMAIN s : SealedForm(s[k]) \in Entry
  <2> SUFFICES ASSUME NEW k \in DOMAIN s PROVE SealedForm(s[k]) \in Entry
    OBVIOUS
  <2>1. PICK x : x = s[k] /\ x \in Entry
    BY <1>2
  <2> QED BY <2>1, SealedFormIs
<1>5. u \in Seq(Entry) /\ DOMAIN u = DOMAIN s /\ \A k \in DOMAIN s : u[k] = SealedForm(s[k])
  <2>1. u \in [1..Len(s) -> Entry]
    BY <1>2, <1>3, <1>4
  <2> QED BY <1>2, <1>3, <2>1, SeqDef
<1>6. Seals(s, u)
  BY <1>5 DEF Seals
<1>7. PICK r : r = Adopted(q, e)
  OBVIOUS
<1>8. r = [q EXCEPT !.epoch = e, !.entries = u]
  BY <1>1, <1>3, <1>7 DEF Adopted, SealedForm
<1>9. r \in Queue /\ r.entries = u /\ r.sending = q.sending /\ r.epoch = e /\ r.human = q.human
  BY <1>0, <1>5, <1>8 DEF Queue
<1>10. r.sending => q.entries # <<>> /\ Fixed(r.entries[1])
  <2> SUFFICES ASSUME q.sending PROVE q.entries # <<>> /\ Fixed(u[1])
    BY <1>9
  <2>1. s # <<>> /\ 1 \in DOMAIN s
    BY <1>1, <1>2 DEF QueueOK, HeadFixed
  <2>2. PICK x : x = s[1] /\ x \in Entry
    BY <1>2, <2>1
  <2>3. Fixed(SealedForm(x))
    BY <2>2, SealedFormIs
  <2> QED BY <1>1, <1>5, <2>1, <2>2, <2>3
<1>11. /\ QueueOK(r, W, A) /\ Sealing(q, r) /\ MarkerCaps(r)
       /\ q.sending => r.entries[1] = q.entries[1]
  <2>1. Seals(q.entries, r.entries) /\ (q.sending => r.sending)
    BY <1>1, <1>6, <1>9
  <2> QED BY <1>9, <1>10, <2>1, SealedQueue
<1>12. q.sending => r.entries # <<>>
  BY <1>9, <1>11 DEF QueueOK, HeadFixed
<1> QED BY <1>7, <1>9, <1>11, <1>12

\* r is q without the acknowledged entry e.
Acknowledges(q, r, e) ==
    /\ Held(r) = Held(q) \ {e} /\ r.epoch = q.epoch /\ r.human = q.human
    /\ InFlight(r) = InFlight(q) \ {e}

\* applyOutboxAck
LEMMA AckedKeeps ==
    ASSUME NEW q, NEW W, NEW A, QueueOK(q, W, A), AllFixed(W), MarkerCaps(q), NEW id,
           \E e \in Held(q) : Id(e) = id,
           \A e \in Held(q) : Id(e) = id /\ e.t = "normal" => Origin(e) \in A
    PROVE  /\ QueueOK(Acked(q, id), W, A) /\ MarkerCaps(Acked(q, id))
           /\ \E e \in Held(q) : Id(e) = id /\ Acknowledges(q, Acked(q, id), e)
<1>0. q \in Queue
  BY DEF QueueOK
<1>1. PICK e : e = CHOOSE k \in Held(q) : Id(k) = id
  OBVIOUS
<1>2. e \in Held(q) /\ Id(e) = id
  BY <1>1
<1>3. PICK es : es = {e}
  OBVIOUS
<1>4. PICK p : p = Without(q, es)
  OBVIOUS
<1>5. PICK f : /\ p \in Queue /\ p.sending = q.sending /\ p.epoch = q.epoch /\ p.human = q.human
               /\ EmbedsUpTo(p.entries, q.entries, Len(q.entries), es, f)
  BY <1>0, <1>4, WithoutShape
<1>6. PICK on : on = (q.sending /\ e \notin InFlight(q)) /\ on \in BOOLEAN
  OBVIOUS
<1>7. PICK r : r = [p EXCEPT !.sending = on]
  OBVIOUS
<1>8. Acked(q, id) = r
  BY <1>1, <1>3, <1>4, <1>5, <1>6, <1>7 DEF Acked, Queue
<1>9. /\ r \in Queue /\ r.entries = p.entries /\ r.sending = on /\ r.epoch = q.epoch /\ r.human = q.human
  BY <1>5, <1>6, <1>7 DEF Queue
<1>10. PICK u : u = q.entries
  OBVIOUS
<1>11. u \in Seq(Entry) /\ Revises(q.entries, u)
  BY <1>0, <1>10, HeldShape DEF Revises
<1>12. EmbedsUpTo(r.entries, u, Len(q.entries), es, f)
  BY <1>5, <1>9, <1>10
<1>13. r.sending => q.entries # <<>> /\ u[1] \notin es /\ Fixed(u[1])
  BY <1>3, <1>6, <1>9, <1>10 DEF QueueOK, HeadFixed, InFlight
<1>14. q.sending => \/ r.sending /\ u[1] = q.entries[1]
                    \/ q.entries[1].t = "normal" => Origin(q.entries[1]) \in A
  BY <1>2, <1>6, <1>9, <1>10 DEF InFlight
<1>15. /\ QueueOK(r, W, A) /\ Held(r) = {u[k] : k \in DOMAIN u} \ es
       /\ r.sending => r.entries # <<>> /\ r.entries[1] = u[1]
  <2>1. QueueOK(q, W, A) /\ AllFixed(W) /\ r \in Queue /\ u \in Seq(Entry)
    BY <1>9, <1>11
  <2> QED BY ONLY <1>11, <1>12, <1>13, <1>14, <2>1, RevisedQueue
<1>16. Held(r) = Held(q) \ {e}
  BY <1>3, <1>10, <1>15 DEF Held, ToSet
<1>17. InFlight(r) = InFlight(q) \ {e}
  <2>1. CASE q.sending /\ e \notin InFlight(q)
    BY <1>6, <1>9, <1>10, <1>15, <2>1 DEF InFlight
  <2>2. CASE q.sending /\ e \in InFlight(q)
    BY <1>6, <1>9, <2>2 DEF InFlight
  <2>3. CASE ~q.sending
    BY <1>6, <1>9, <2>3 DEF InFlight
  <2> QED BY <2>1, <2>2, <2>3
<1>18. MarkerCaps(r)
  <2>1. Markers(r) \subseteq Markers(q)
    BY <1>16 DEF Markers
  <2>2. Crosses(r) \subseteq Crosses(q)
    BY <2>1 DEF Crosses
  <2>3. Cardinality(Crosses(r)) <= Cardinality(Crosses(q))
    BY <1>0, <2>2, SlotsFinite, FS_Subset
  <2>4. Cardinality(Crosses(r)) <= CrossMax
    BY <1>0, <1>9, <2>3, SlotsFinite, CapNumbers DEF MarkerCaps
  <2> QED BY <1>0, <1>9, <2>1, <2>4, FewerMarkers
<1>19. Acknowledges(q, r, e)
  BY <1>9, <1>16, <1>17 DEF Acknowledges
<1> QED BY <1>2, <1>8, <1>15, <1>18, <1>19

\* A later human takeover: r is q but for the field human.
LEMMA HumanKeeps ==
    ASSUME NEW q, NEW W, NEW A, QueueOK(q, W, A), NEW r \in Queue,
           r.entries = q.entries, r.sending = q.sending
    PROVE  /\ QueueOK(r, W, A) /\ (MarkerCaps(q) => MarkerCaps(r)) /\ Held(r) = Held(q)
           /\ InFlight(r) = InFlight(q)
<1>3. Held(r) = Held(q) /\ InFlight(r) = InFlight(q)
  BY DEF Held, InFlight
<1>4. Markers(r) = Markers(q)
  BY <1>3 DEF Markers
<1>5. GapInstances(r) = GapInstances(q) /\ Crosses(r) = Crosses(q) /\ \A i : GapsOf(r, i) = GapsOf(q, i)
  BY <1>4 DEF GapInstances, Crosses, GapsOf
<1>6. QueueOK(r, W, A)
  BY <1>3 DEF QueueOK, HeadFixed, Against, FrameAgainst
<1>7. MarkerCaps(q) => MarkerCaps(r)
  BY <1>5 DEF MarkerCaps
<1> QED BY <1>3, <1>6, <1>7

LEMMA EmptyIsOK ==
    ASSUME NEW W, NEW A
    PROVE  /\ QueueOK(EmptyQueue, W, A) /\ MarkerCaps(EmptyQueue)
           /\ Held(EmptyQueue) = {} /\ Normals(EmptyQueue) = {} /\ Markers(EmptyQueue) = {} /\ InFlight(EmptyQueue) = {}
           /\ Evidence(EmptyQueue) = {} /\ EmptyQueue.epoch = 0 /\ EmptyQueue.human = 0 /\ ~EmptyQueue.sending
           /\ Cardinality(Normals(EmptyQueue)) <= NormalCap
<1>1. PICK q : q = EmptyQueue
  OBVIOUS
<1>2. q \in Queue /\ q.entries = <<>> /\ q.sending = FALSE /\ q.epoch = 0 /\ q.human = 0
  BY <1>1 DEF EmptyQueue, Queue
<1>3. Held(q) = {} /\ InFlight(q) = {}
  BY <1>2 DEF Held, ToSet, InFlight
<1>4. Normals(q) = {} /\ Markers(q) = {}
  BY <1>3 DEF Normals, Markers
<1>5. GapInstances(q) = {} /\ Crosses(q) = {} /\ Evidence(q) = {}
  BY <1>4 DEF GapInstances, Crosses, Evidence, MarkerFrames
<1>6. Cardinality({}) = 0
  BY FS_EmptySet
<1>7. MarkerCaps(q)
  BY <1>5, <1>6, CapNumbers DEF MarkerCaps
<1>8. QueueOK(q, W, A)
  BY <1>2, <1>3 DEF QueueOK, Distinct, Ascending, HeadFixed, Against
<1> QED BY <1>1, <1>2, <1>3, <1>4, <1>5, <1>6, <1>7, <1>8, CapNumbers

-----------------------------------------------------------------------------
\* Types.

Opens == [what : {"request", "process"}, launch : Launches, inst : Positive]
Grants == [launch : Nat, known : SUBSET Entry]
Memory ==
    [up : BOOLEAN, inst : Positive, seq : Nat, link : BOOLEAN, q : Queue, bad : Nat \cup {Reliable},
     open : SUBSET Opens, grant : Grants]
Resolutions == [marker : Nat, open : SUBSET Opens, aside : SUBSET Positive]
Files ==
    [queue : Queue, damaged : BOOLEAN, marker : Nat, open : SUBSET Opens, resolution : Resolutions,
     aside : SUBSET Positive]
FaultKinds == [at : 0..6, how : {"fail", "torn", "crash"}, lasting : BOOLEAN]
Ctx ==
    [mem : Memory, disk : Files, minted : Nat, out : SUBSET Entry, made : SUBSET Frames,
     fault : FaultKinds, writes : Nat, alive : BOOLEAN, ok : BOOLEAN]

-----------------------------------------------------------------------------
\* Durable writes.

\* durableWrite
LEMMA WriteIs ==
    ASSUME NEW c \in Ctx, NEW file, NEW part, NEW value, NEW D \in Files,
           D = [c.disk EXCEPT ![part] = value],
           NEW w, w = Write(c, file, part, value)
    PROVE  /\ w \in Ctx /\ w.mem = c.mem /\ w.minted = c.minted /\ w.out = c.out /\ w.made = c.made
           /\ w.disk \in {c.disk, D}
           /\ w.ok => w.disk = D /\ w.alive
           /\ w.alive => c.alive
           /\ ~w.alive => w.disk = c.disk
           /\ ~w.ok /\ file = "recovery" /\ ~TornRecovery => w.disk = c.disk
<1> DEFINE n == c.writes + 1
           hit == c.fault.at # 0 /\ (n = c.fault.at \/ (n > c.fault.at /\ c.fault.lasting))
<1>0. n \in Nat
  BY DEF Ctx
<1> HIDE DEF hit, n
<1>1. PICK x : x = [c EXCEPT !.writes = n]
  OBVIOUS
<1>2. /\ x \in Ctx /\ x.mem = c.mem /\ x.minted = c.minted /\ x.out = c.out /\ x.made = c.made
      /\ x.disk = c.disk /\ x.alive = c.alive
  BY <1>0, <1>1 DEF Ctx
<1>3. PICK new : new = [x EXCEPT !.disk = D]
  OBVIOUS
<1>4. PICK old : old = [x EXCEPT !.ok = FALSE]
  OBVIOUS
<1>10. /\ new \in Ctx /\ new.mem = c.mem /\ new.minted = c.minted /\ new.out = c.out /\ new.made = c.made
       /\ new.disk = D /\ new.alive = c.alive
  BY <1>2, <1>3 DEF Ctx
<1>11. /\ old \in Ctx /\ old.mem = c.mem /\ old.minted = c.minted /\ old.out = c.out /\ old.made = c.made
       /\ old.disk = c.disk /\ old.alive = c.alive /\ old.ok = FALSE
  BY <1>2, <1>4 DEF Ctx
<1>12. [c EXCEPT !.writes = n, !.disk[part] = value] = new
  BY <1>1, <1>2, <1>3
<1>13. [c EXCEPT !.writes = n, !.ok = FALSE] = old
  BY <1>1, <1>4
<1>5. CASE ~c.alive
  <2>1. w = [c EXCEPT !.ok = FALSE]
    BY <1>5 DEF Write
  <2> QED BY <1>5, <2>1 DEF Ctx
<1>6. CASE c.alive /\ ~hit
  <2>1. w = [new EXCEPT !.ok = TRUE]
    BY <1>12, <1>6 DEF Write, hit, n
  <2> QED BY <1>10, <1>6, <2>1 DEF Ctx
<1>7. CASE c.alive /\ hit /\ c.fault.how = "crash"
  <2>1. w = [old EXCEPT !.alive = FALSE]
    BY <1>13, <1>7 DEF Write, hit, n
  <2> QED BY <1>11, <1>7, <2>1 DEF Ctx
<1>8. CASE c.alive /\ hit /\ c.fault.how = "torn" /\ (TornRecovery \/ file # "recovery")
  <2>1. w = [new EXCEPT !.ok = FALSE]
    BY <1>12, <1>8 DEF Write, hit, n
  <2>2. w.ok = FALSE /\ w.alive = c.alive
    BY <1>10, <2>1 DEF Ctx
  <2> QED BY <1>10, <1>8, <2>1, <2>2 DEF Ctx
<1>9. CASE c.alive /\ hit /\ c.fault.how # "crash"
           /\ ~(c.fault.how = "torn" /\ (TornRecovery \/ file # "recovery"))
  <2>1. w = old
    BY <1>13, <1>9 DEF Write, hit, n
  <2> QED BY <1>11, <1>9, <2>1
<1> QED BY <1>5, <1>6, <1>7, <1>8, <1>9

\* What marking the evidence unreliable changes: a marker, under a new id.
Marks(c, d) ==
    /\ d \in Ctx
    /\ d.mem.up = c.mem.up /\ d.mem.inst = c.mem.inst /\ d.mem.seq = c.mem.seq /\ d.mem.link = c.mem.link
    /\ d.mem.q = c.mem.q /\ d.mem.open = c.mem.open /\ d.mem.grant = c.mem.grant
    /\ d.disk.queue = c.disk.queue /\ d.disk.damaged = c.disk.damaged /\ d.disk.open = c.disk.open
    /\ d.disk.resolution = c.disk.resolution /\ d.disk.aside = c.disk.aside
    /\ d.out = c.out /\ d.made = c.made
    /\ c.minted <= d.minted
    /\ d.disk.marker = c.disk.marker \/ (c.minted < d.disk.marker /\ d.disk.marker <= d.minted)
    /\ d.alive => c.alive
    /\ ~c.alive => d.disk = c.disk

\* writeMarker
LEMMA WriteMarkerIs ==
    ASSUME NEW c \in Ctx, NEW d, d = WriteMarker(c)
    PROVE  /\ Marks(c, d)
           /\ \/ d.mem.bad = c.mem.bad
              \/ d.mem.bad = d.disk.marker /\ c.minted < d.mem.bad /\ d.mem.bad <= d.minted
<1>1. PICK id : id = c.minted + 1 /\ id \in Nat /\ c.minted \in Nat
  BY DEF Ctx
<1>2. PICK b : b = [c EXCEPT !.minted = id]
  OBVIOUS
<1>3. /\ b \in Ctx /\ b.mem = c.mem /\ b.disk = c.disk /\ b.minted = id /\ b.out = c.out /\ b.made = c.made
      /\ b.alive = c.alive
  BY <1>1, <1>2 DEF Ctx
<1>4. PICK D : D = [b.disk EXCEPT !["marker"] = id]
  OBVIOUS
<1>5. /\ D \in Files /\ D.marker = id /\ D.queue = c.disk.queue /\ D.damaged = c.disk.damaged
      /\ D.open = c.disk.open /\ D.resolution = c.disk.resolution /\ D.aside = c.disk.aside
  BY <1>1, <1>3, <1>4 DEF Ctx, Files
<1>6. PICK w : w = Write(b, "marker", "marker", id)
  OBVIOUS
<1>7. /\ w \in Ctx /\ w.mem = b.mem /\ w.minted = b.minted /\ w.out = b.out /\ w.made = b.made
      /\ w.disk \in {b.disk, D} /\ (w.ok => w.disk = D /\ w.alive) /\ (w.alive => b.alive)
      /\ (~w.alive => w.disk = b.disk)
  BY <1>3, <1>4, <1>5, <1>6, WriteIs
<1>8. d = IF w.ok THEN [w EXCEPT !.mem.bad = id] ELSE w
  BY <1>1, <1>2, <1>6 DEF WriteMarker, IfOk
<1>9. CASE w.ok
  <2>1. PICK m : m = [w.mem EXCEPT !.bad = id]
    OBVIOUS
  <2>2. /\ m \in Memory /\ m.up = c.mem.up /\ m.inst = c.mem.inst /\ m.seq = c.mem.seq /\ m.link = c.mem.link
        /\ m.q = c.mem.q /\ m.open = c.mem.open /\ m.grant = c.mem.grant /\ m.bad = id
    BY <1>1, <1>3, <1>7, <2>1 DEF Ctx, Memory
  <2>3. d = [w EXCEPT !.mem = m]
    BY <1>8, <1>9, <2>1
  <2>4. d \in Ctx /\ d.mem = m /\ d.disk = D /\ d.minted = id /\ d.out = c.out /\ d.made = c.made /\ d.alive = w.alive
    BY <1>3, <1>7, <1>9, <2>2, <2>3 DEF Ctx
  <2> QED BY <1>1, <1>3, <1>5, <1>7, <1>9, <2>2, <2>4 DEF Marks
<1>10. CASE ~w.ok
  BY <1>1, <1>3, <1>5, <1>7, <1>8, <1>10 DEF Marks
<1> QED BY <1>9, <1>10

\* markUnreliable
LEMMA MarkUnreliableIs ==
    ASSUME NEW c \in Ctx, NEW d, d = MarkUnreliable(c)
    PROVE  /\ Marks(c, d) /\ d.mem.bad # Reliable
           /\ \/ d.mem.bad = 0
              \/ d.mem.bad = d.disk.marker /\ c.minted < d.mem.bad /\ d.mem.bad <= d.minted
              \/ d.mem.bad = c.mem.bad /\ d.disk.marker = c.disk.marker
<1>0. Reliable \notin Nat /\ c.mem \in Memory /\ c.minted \in Nat
  BY DEF Reliable, Ctx
<1>1. CASE c.mem.bad \in {Reliable, 0}
  <2>1. PICK b : b = [c EXCEPT !.mem.bad = 0]
    OBVIOUS
  <2>2. PICK m : m = [c.mem EXCEPT !.bad = 0]
    OBVIOUS
  <2>3. /\ m \in Memory /\ m.up = c.mem.up /\ m.inst = c.mem.inst /\ m.seq = c.mem.seq /\ m.link = c.mem.link
        /\ m.q = c.mem.q /\ m.open = c.mem.open /\ m.grant = c.mem.grant /\ m.bad = 0
    BY <1>0, <2>2 DEF Memory
  <2>4. b \in Ctx /\ b.mem = m /\ b.disk = c.disk /\ b.minted = c.minted /\ b.out = c.out /\ b.made = c.made /\ b.alive = c.alive
    BY <2>1, <2>2, <2>3 DEF Ctx
  <2>5. d = WriteMarker(b)
    BY <1>1, <2>1 DEF MarkUnreliable
  <2>6. /\ Marks(b, d)
        /\ \/ d.mem.bad = b.mem.bad
           \/ d.mem.bad = d.disk.marker /\ b.minted < d.mem.bad /\ d.mem.bad <= d.minted
    BY <2>4, <2>5, WriteMarkerIs
  <2>7. d.mem.bad \in Nat \cup {Reliable} /\ d.minted \in Nat /\ d.disk.marker \in Nat
    BY <2>6 DEF Marks, Ctx, Memory, Files
  <2>8. Marks(c, d)
    BY <2>3, <2>4, <2>6 DEF Marks
  <2>9. d.mem.bad # Reliable
    BY <1>0, <2>3, <2>4, <2>6, <2>7
  <2> QED BY <2>3, <2>4, <2>6, <2>8, <2>9
<1>2. CASE c.mem.bad \notin {Reliable, 0}
  BY <1>0, <1>2 DEF MarkUnreliable, Marks
<1> QED BY <1>1, <1>2

\* A memory-only unreliable state is made durable.
LEMMA MakeDurableIs ==
    ASSUME NEW c \in Ctx, NEW d, d = MakeDurable(c)
    PROVE  /\ Marks(c, d) /\ (c.mem.bad = Reliable <=> d.mem.bad = Reliable)
           /\ c.mem.bad # 0 => d = c
           /\ \/ d.mem.bad = c.mem.bad /\ (c.mem.bad # 0 => d.disk.marker = c.disk.marker)
              \/ d.mem.bad = d.disk.marker /\ c.minted < d.mem.bad /\ d.mem.bad <= d.minted
<1>0. Reliable \notin Nat /\ c.mem \in Memory /\ c.minted \in Nat
  BY DEF Reliable, Ctx
<1>1. CASE c.mem.bad = 0
  <2>1. d = WriteMarker(c)
    BY <1>1 DEF MakeDurable
  <2>2. /\ Marks(c, d)
        /\ \/ d.mem.bad = c.mem.bad
           \/ d.mem.bad = d.disk.marker /\ c.minted < d.mem.bad /\ d.mem.bad <= d.minted
    BY <2>1, WriteMarkerIs
  <2>3. d.mem.bad \in Nat \cup {Reliable} /\ d.minted \in Nat /\ d.disk.marker \in Nat
    BY <2>2 DEF Marks, Ctx, Memory, Files
  <2> QED BY <1>0, <1>1, <2>2, <2>3
<1>2. CASE c.mem.bad # 0
  BY <1>0, <1>2 DEF MakeDurable, Marks
<1> QED BY <1>1, <1>2

\* How the evidence comes to be marked unreliable: in memory, or with a marker
\* file under a new id; or as it was before.
MarkedBad(c, d) ==
    \/ d.mem.bad = 0
    \/ d.mem.bad = d.disk.marker /\ c.minted < d.mem.bad /\ d.mem.bad <= d.minted
    \/ d.mem.bad = c.mem.bad /\ d.disk.marker = c.disk.marker

\* What no write but the one of the file itself changes.
Steady(c, d) ==
    /\ d \in Ctx
    /\ d.mem.up = c.mem.up /\ d.mem.inst = c.mem.inst /\ d.mem.seq = c.mem.seq /\ d.mem.link = c.mem.link
    /\ d.mem.grant = c.mem.grant
    /\ d.disk.damaged = c.disk.damaged /\ d.disk.resolution = c.disk.resolution /\ d.disk.aside = c.disk.aside
    /\ d.out = c.out /\ d.made = c.made
    /\ c.minted <= d.minted
    /\ d.disk.marker = c.disk.marker \/ (c.minted < d.disk.marker /\ d.disk.marker <= d.minted)
    /\ d.alive => c.alive
    /\ ~c.alive => d.disk = c.disk

\* d is c after an attempt to store queue q.
Committed(c, d, q, file) ==
    /\ Steady(c, d) /\ MarkedBad(c, d)
    /\ d.mem.open = c.mem.open /\ d.disk.open = c.disk.open
    /\ d.disk.queue \in {c.disk.queue, q}
    /\ d.ok => /\ d.mem.q = q /\ d.disk.queue = q /\ (d.mem.bad = Reliable <=> c.mem.bad = Reliable)
               /\ c.mem.bad = Reliable => d.alive
    /\ ~d.ok => d.mem.q = c.mem.q /\ d.mem.bad # Reliable
    /\ ~d.ok /\ file = "recovery" /\ ~TornRecovery => d.disk.queue = c.disk.queue

\* commit
LEMMA CommitIs ==
    ASSUME NEW c \in Ctx, NEW q \in Queue, NEW file, NEW d, d = Commit(c, q, file)
    PROVE  Committed(c, d, q, file)
<1>0. PICK part : part = "queue"
  OBVIOUS
<1>1. PICK D : D = [c.disk EXCEPT ![part] = q]
  OBVIOUS
<1>2. /\ D \in Files /\ D.queue = q /\ D.damaged = c.disk.damaged /\ D.open = c.disk.open
      /\ D.resolution = c.disk.resolution /\ D.aside = c.disk.aside /\ D.marker = c.disk.marker
  BY <1>0, <1>1 DEF Ctx, Files
<1>3. PICK w : w = Write(c, file, part, q)
  OBVIOUS
<1>4. /\ w \in Ctx /\ w.mem = c.mem /\ w.minted = c.minted /\ w.out = c.out /\ w.made = c.made
      /\ w.disk \in {c.disk, D} /\ (w.ok => w.disk = D /\ w.alive) /\ (w.alive => c.alive)
      /\ (~w.alive => w.disk = c.disk)
      /\ (~w.ok /\ file = "recovery" /\ ~TornRecovery => w.disk = c.disk)
  <2>1. c \in Ctx
    OBVIOUS
  <2>2. /\ w \in Ctx /\ w.mem = c.mem /\ w.minted = c.minted /\ w.out = c.out /\ w.made = c.made
        /\ w.disk \in {c.disk, D} /\ (w.ok => w.disk = D /\ w.alive) /\ (w.alive => c.alive)
        /\ (~w.alive => w.disk = c.disk)
    BY ONLY <1>1, <1>2, <1>3, <2>1, WriteIs
  <2>3. ASSUME ~w.ok, file = "recovery", ~TornRecovery PROVE w.disk = c.disk
    BY ONLY <1>1, <1>2, <1>3, <2>1, <2>3, WriteIs
  <2> QED BY <2>2, <2>3
<1>5. c.minted \in Nat /\ c.mem \in Memory
  BY DEF Ctx
<1>6. CASE w.ok
  <2>1. PICK m : m = [c.mem EXCEPT !.q = q]
    OBVIOUS
  <2>2. /\ m \in Memory /\ m.up = c.mem.up /\ m.inst = c.mem.inst /\ m.seq = c.mem.seq /\ m.link = c.mem.link
        /\ m.q = q /\ m.open = c.mem.open /\ m.grant = c.mem.grant /\ m.bad = c.mem.bad
    BY <1>5, <2>1 DEF Memory
  <2>3. PICK b : b = [w EXCEPT !.mem.q = q]
    OBVIOUS
  <2>4. /\ b \in Ctx /\ b.mem = m /\ b.disk = D /\ b.minted = c.minted /\ b.out = c.out /\ b.made = c.made
        /\ b.alive /\ c.alive
    BY <1>4, <1>6, <2>1, <2>2, <2>3 DEF Ctx
  <2>5. PICK x : x = MakeDurable(b)
    OBVIOUS
  <2>6. /\ Marks(b, x) /\ (b.mem.bad = Reliable <=> x.mem.bad = Reliable)
        /\ b.mem.bad # 0 => x = b
        /\ \/ x.mem.bad = b.mem.bad /\ (b.mem.bad # 0 => x.disk.marker = b.disk.marker)
           \/ x.mem.bad = x.disk.marker /\ b.minted < x.mem.bad /\ x.mem.bad <= x.minted
    BY <2>4, <2>5, MakeDurableIs
  <2>7. d = [x EXCEPT !.ok = TRUE]
    BY <1>0, <1>3, <1>6, <2>3, <2>5 DEF Commit, IfOk
  <2>8. /\ d \in Ctx /\ d.mem = x.mem /\ d.disk = x.disk /\ d.minted = x.minted /\ d.out = x.out /\ d.made = x.made
        /\ d.alive = x.alive /\ d.ok
    BY <2>6, <2>7 DEF Marks, Ctx
  <2>9. Steady(c, d)
    BY <1>2, <2>2, <2>4, <2>6, <2>8 DEF Marks, Steady
  <2>10. MarkedBad(c, d)
    BY <1>2, <2>2, <2>4, <2>6, <2>8 DEF MarkedBad
  <2>11. Reliable # 0
    BY DEF Reliable
  <2>12. /\ d.mem.open = c.mem.open /\ d.disk.open = c.disk.open /\ d.disk.queue = q /\ d.mem.q = q
         /\ d.mem.bad = Reliable <=> c.mem.bad = Reliable
         /\ c.mem.bad = Reliable => d.alive
    BY <1>2, <2>2, <2>4, <2>6, <2>8, <2>11 DEF Marks
  <2> QED BY <2>8, <2>9, <2>10, <2>12 DEF Committed
<1>7. CASE ~w.ok
  <2>1. PICK x : x = MarkUnreliable(w)
    OBVIOUS
  <2>2. Marks(w, x) /\ x.mem.bad # Reliable /\ MarkedBad(w, x)
    BY <1>4, <2>1, MarkUnreliableIs DEF MarkedBad
  <2>3. d = [x EXCEPT !.ok = FALSE]
    BY <1>0, <1>3, <1>7, <2>1 DEF Commit, IfOk
  <2>4. /\ d \in Ctx /\ d.mem = x.mem /\ d.disk = x.disk /\ d.minted = x.minted /\ d.out = x.out /\ d.made = x.made
        /\ d.alive = x.alive /\ ~d.ok
    BY <2>2, <2>3 DEF Marks, Ctx
  <2>5. /\ w.disk.marker = c.disk.marker /\ w.disk.open = c.disk.open /\ w.disk.damaged = c.disk.damaged
        /\ w.disk.resolution = c.disk.resolution /\ w.disk.aside = c.disk.aside
        /\ w.disk.queue \in {c.disk.queue, q}
        /\ (~c.alive => w.disk = c.disk)
        /\ (file = "recovery" /\ ~TornRecovery => w.disk.queue = c.disk.queue)
    BY <1>2, <1>4, <1>7
  <2>6. Steady(c, d)
    BY <1>4, <2>2, <2>4, <2>5 DEF Marks, Steady
  <2>7. MarkedBad(c, d)
    BY <1>4, <2>2, <2>4, <2>5 DEF MarkedBad
  <2>8. /\ d.mem.open = c.mem.open /\ d.disk.open = c.disk.open /\ d.disk.queue = w.disk.queue
        /\ d.mem.q = c.mem.q /\ d.mem.bad # Reliable
    BY <1>4, <2>2, <2>4, <2>5 DEF Marks
  <2> QED BY <2>4, <2>5, <2>6, <2>7, <2>8 DEF Committed
<1> QED BY <1>6, <1>7

\* d is c after an attempt to store the open launches o.
Opened(c, d, o) ==
    /\ Steady(c, d) /\ MarkedBad(c, d)
    /\ d.mem.q = c.mem.q /\ d.disk.queue = c.disk.queue
    /\ d.disk.open \in {c.disk.open, o}
    /\ d.ok => d.mem.open = o /\ d.disk.open = o /\ d.mem.bad = c.mem.bad /\ d.disk.marker = c.disk.marker /\ d.alive
    /\ ~d.ok => d.mem.open = c.mem.open

\* writeOpenLaunches
LEMMA WriteOpenIs ==
    ASSUME NEW c \in Ctx, NEW o, o \subseteq Opens, NEW marks \in BOOLEAN, NEW d, d = WriteOpen(c, o, marks)
    PROVE  /\ Opened(c, d, o)
           /\ marks /\ ~d.ok => d.mem.bad # Reliable
           /\ ~marks => d.mem.bad = c.mem.bad /\ d.disk.marker = c.disk.marker
<1>0. PICK part : part = "open"
  OBVIOUS
<1>1. PICK D : D = [c.disk EXCEPT ![part] = o]
  OBVIOUS
<1>2. /\ D \in Files /\ D.queue = c.disk.queue /\ D.damaged = c.disk.damaged /\ D.open = o
      /\ D.resolution = c.disk.resolution /\ D.aside = c.disk.aside /\ D.marker = c.disk.marker
  BY <1>0, <1>1 DEF Ctx, Files
<1>3. PICK w : w = Write(c, part, part, o)
  OBVIOUS
<1>4. /\ w \in Ctx /\ w.mem = c.mem /\ w.minted = c.minted /\ w.out = c.out /\ w.made = c.made
      /\ w.disk \in {c.disk, D} /\ (w.ok => w.disk = D /\ w.alive) /\ (w.alive => c.alive)
      /\ (~w.alive => w.disk = c.disk)
  <2>1. c \in Ctx
    OBVIOUS
  <2> QED BY ONLY <1>1, <1>2, <1>3, <2>1, WriteIs
<1>5. c.minted \in Nat /\ c.mem \in Memory
  BY DEF Ctx
<1>6. /\ w.disk.marker = c.disk.marker /\ w.disk.queue = c.disk.queue /\ w.disk.damaged = c.disk.damaged
      /\ w.disk.resolution = c.disk.resolution /\ w.disk.aside = c.disk.aside
      /\ w.disk.open \in {c.disk.open, o}
      /\ (~c.alive => w.disk = c.disk)
  BY <1>2, <1>4
<1>7. CASE w.ok
  <2>1. PICK m : m = [c.mem EXCEPT !.open = o]
    OBVIOUS
  <2>2. /\ m \in Memory /\ m.up = c.mem.up /\ m.inst = c.mem.inst /\ m.seq = c.mem.seq /\ m.link = c.mem.link
        /\ m.q = c.mem.q /\ m.open = o /\ m.grant = c.mem.grant /\ m.bad = c.mem.bad
    BY <1>5, <2>1 DEF Memory
  <2>3. d = [w EXCEPT !.mem = m]
    BY <1>0, <1>3, <1>4, <1>7, <2>1 DEF WriteOpen, IfOk
  <2>4. /\ d \in Ctx /\ d.mem = m /\ d.disk = D /\ d.minted = c.minted /\ d.out = c.out /\ d.made = c.made
        /\ d.alive /\ d.ok /\ c.alive
    BY <1>4, <1>7, <2>2, <2>3 DEF Ctx
  <2>5. Steady(c, d)
    BY <1>2, <1>5, <2>2, <2>4 DEF Steady
  <2>6. MarkedBad(c, d)
    BY <1>2, <2>2, <2>4 DEF MarkedBad
  <2> QED BY <1>2, <2>2, <2>4, <2>5, <2>6 DEF Opened
<1>8. CASE ~w.ok /\ marks
  <2>1. PICK x : x = MarkUnreliable(w)
    OBVIOUS
  <2>2. Marks(w, x) /\ x.mem.bad # Reliable /\ MarkedBad(w, x)
    BY <1>4, <2>1, MarkUnreliableIs DEF MarkedBad
  <2>3. d = [x EXCEPT !.ok = FALSE]
    BY <1>0, <1>3, <1>8, <2>1 DEF WriteOpen, IfOk
  <2>4. /\ d \in Ctx /\ d.mem = x.mem /\ d.disk = x.disk /\ d.minted = x.minted /\ d.out = x.out /\ d.made = x.made
        /\ d.alive = x.alive /\ ~d.ok
    BY <2>2, <2>3 DEF Marks, Ctx
  <2>5. Steady(c, d)
    BY <1>4, <1>6, <2>2, <2>4 DEF Marks, Steady
  <2>6. MarkedBad(c, d)
    BY <1>4, <1>6, <2>2, <2>4 DEF MarkedBad
  <2>7. d.mem.q = c.mem.q /\ d.disk.queue = c.disk.queue /\ d.disk.open \in {c.disk.open, o} /\ d.mem.open = c.mem.open
    BY <1>4, <1>6, <2>2, <2>4 DEF Marks
  <2> QED BY <1>8, <2>2, <2>4, <2>5, <2>6, <2>7 DEF Opened
<1>9. CASE ~w.ok /\ ~marks
  <2>1. d = w
    BY <1>0, <1>3, <1>9 DEF WriteOpen, IfOk
  <2>2. Steady(c, d)
    BY <1>4, <1>5, <1>6, <2>1 DEF Steady
  <2>3. MarkedBad(c, d)
    BY <1>4, <1>6, <2>1 DEF MarkedBad
  <2> QED BY <1>4, <1>6, <1>9, <2>1, <2>2, <2>3 DEF Opened
<1> QED BY <1>7, <1>8, <1>9

\* d is c after an attempt to remove the open launches `gone`.
Closed(c, d, gone) ==
    /\ Steady(c, d) /\ MarkedBad(c, d)
    /\ d.mem.q = c.mem.q /\ d.disk.queue = c.disk.queue
    /\ d.disk.open \in {c.disk.open, c.mem.open \ gone}
    /\ d.mem.open \in {c.mem.open, c.mem.open \ gone}
    /\ d.disk.open # c.disk.open => d.mem.bad # 0
    /\ d.mem.bad = Reliable <=> c.mem.bad = Reliable

\* closeOpenEntries
LEMMA CloseOpenIs ==
    ASSUME NEW c \in Ctx, NEW gone, NEW d, d = CloseOpen(c, gone)
    PROVE  Closed(c, d, gone)
<1>0. c.minted \in Nat /\ Reliable # 0
  BY DEF Ctx, Reliable
<1>1. CASE c.mem.open \cap gone = {}
  <2>1. d = c
    BY <1>1 DEF CloseOpen
  <2> QED BY <1>0, <2>1 DEF Closed, Steady, MarkedBad
<1>2. CASE c.mem.open \cap gone # {}
  <2>1. PICK b : b = MakeDurable(c)
    OBVIOUS
  <2>2. Marks(c, b) /\ (b.mem.bad = Reliable <=> c.mem.bad = Reliable) /\ MarkedBad(c, b)
    BY <2>1, MakeDurableIs DEF MarkedBad
  <2>3. CASE b.mem.bad = 0
    <3>1. d = b
      BY <1>2, <2>1, <2>3 DEF CloseOpen
    <3> QED BY <1>0, <2>2, <3>1 DEF Closed, Marks, Steady
  <2>4. CASE b.mem.bad # 0
    <3>1. PICK o : o = b.mem.open \ gone
      OBVIOUS
    <3>9. PICK marks \in BOOLEAN : ~marks
      OBVIOUS
    <3>2. d = WriteOpen(b, o, marks)
      BY <1>2, <2>1, <2>4, <3>1, <3>9 DEF CloseOpen
    <3>3. b \in Ctx /\ o \subseteq Opens /\ o = c.mem.open \ gone
      BY <2>2, <3>1 DEF Marks, Ctx, Memory
    <3>4. Opened(b, d, o) /\ d.mem.bad = b.mem.bad /\ d.disk.marker = b.disk.marker
      BY ONLY <3>2, <3>3, <3>9, WriteOpenIs
    <3>5. /\ b.minted \in Nat /\ d.minted \in Nat /\ b.disk.marker \in Nat /\ d.disk.marker \in Nat
      BY <3>3, <3>4 DEF Opened, Steady, Ctx, Files
    <3>6. Steady(c, d)
      BY <1>0, <2>2, <3>4, <3>5 DEF Opened, Marks, Steady
    <3>7. MarkedBad(c, d)
      BY <1>0, <2>2, <3>4, <3>5 DEF Opened, Marks, Steady, MarkedBad
    <3>8. /\ d.mem.q = c.mem.q /\ d.disk.queue = c.disk.queue
          /\ d.disk.open \in {c.disk.open, c.mem.open \ gone}
          /\ d.mem.open \in {c.mem.open, c.mem.open \ gone}
          /\ d.mem.bad = Reliable <=> c.mem.bad = Reliable
      BY <2>2, <3>3, <3>4 DEF Opened, Marks
    <3> QED BY <2>4, <3>4, <3>6, <3>7, <3>8 DEF Closed
  <2> QED BY <2>3, <2>4
<1> QED BY <1>1, <1>2

-----------------------------------------------------------------------------
\* The queues against what was sent.

\* Frame or origin x was made by an instance up to that of memory m.
BoundBy(x, m) == x[1] <= m.inst /\ (m.up /\ x[1] = m.inst => x[2] <= m.seq)

Fits(q, E) ==
    MarkerCaps(q) /\ Cardinality(Normals(q)) <= NormalCap /\ q.human <= q.epoch /\ q.epoch <= E

\* A queue beside memory m, when O went out, A was applied and E is the epoch.
Good(q, m, O, A, E) ==
    /\ QueueOK(q, O \cup InFlight(m.q), A) /\ Fits(q, E)
    /\ \A x \in Evidence(q) : BoundBy(x, m)

\* No entry sent overtakes a frame outside A; of the present instance, an entry
\* outside A is still in flight.
SentOK(m, O, A) ==
    /\ O \subseteq Entry /\ AllFixed(O)
    /\ \A w \in O : BoundBy(Origin(w), m)
    /\ \A v, w \in O :
           v.t = "normal" /\ w.t = "normal" /\ v.inst = w.inst /\ v.seq < w.seq => Origin(v) \in A
    /\ m.up => \A w \in O : w.t = "normal" /\ w.inst = m.inst => Origin(w) \in A \/ w \in InFlight(m.q)

\* stored is the queue on disk.
Sound(m, stored, O, A, E) ==
    /\ m \in Memory /\ Good(m.q, m, O, A, E) /\ Good(stored, m, O, A, E) /\ SentOK(m, O, A)

\* What is in flight in p is so in q, or done.
KeepsFlight(p, q, A) ==
    \A w \in InFlight(p) : w \in InFlight(q) \/ (w.t = "normal" => Origin(w) \in A)

Storable(m, q, O, A, E) == Good(q, m, O, A, E) /\ KeepsFlight(m.q, q, A)

\* Less was sent, and more is applied.
LEMMA QueueWeaker ==
    ASSUME NEW q, NEW W, NEW A, QueueOK(q, W, A), NEW V, V \subseteq W, NEW B, A \subseteq B
    PROVE  QueueOK(q, V, B)
<1>1. ASSUME NEW e, NEW w, FrameAgainst(q, e, w, A) PROVE FrameAgainst(q, e, w, B)
  BY <1>1 DEF FrameAgainst
<1> QED BY <1>1 DEF QueueOK, Against

\* What is out or in flight no longer changes.
LEMMA OutFixed ==
    ASSUME NEW m, NEW stored, NEW O, NEW A, NEW E, Sound(m, stored, O, A, E)
    PROVE  /\ AllFixed(O \cup InFlight(m.q)) /\ O \cup InFlight(m.q) \subseteq Entry
           /\ m.q \in Queue /\ stored \in Queue /\ InFlight(m.q) \subseteq Held(m.q)
<1>1. PICK q : q = m.q
  OBVIOUS
<1>2. PICK W : W = O \cup InFlight(q)
  OBVIOUS
<1>3. QueueOK(q, W, A)
  BY <1>1, <1>2 DEF Sound, Good
<1>4. AllFixed(InFlight(q)) /\ InFlight(q) \subseteq Held(q)
  BY <1>3, InFlightOut
<1>5. Held(q) \subseteq Entry
  BY <1>3, HeldShape DEF QueueOK
<1>6. stored \in Queue /\ q \in Queue
  BY <1>3 DEF Sound, Good, QueueOK
<1> QED BY <1>1, <1>4, <1>5, <1>6 DEF AllFixed, Sound, SentOK

\* A queue is stored, in memory and on disk, or only on disk, or not at all.
LEMMA StoreSound ==
    ASSUME NEW m, NEW stored, NEW O, NEW A, NEW E, Sound(m, stored, O, A, E),
           NEW q, Storable(m, q, O, A, E),
           NEW n \in Memory, n.up = m.up, n.inst = m.inst, n.seq = m.seq, NEW kept,
           (n.q = q /\ kept = q) \/ (n.q = m.q /\ kept \in {stored, q})
    PROVE  Sound(n, kept, O, A, E)
<1>1. \A x : BoundBy(x, n) <=> BoundBy(x, m)
  BY DEF BoundBy
<1>2. CASE n.q = m.q /\ kept \in {stored, q}
  <2>1. Good(n.q, n, O, A, E) /\ Good(kept, n, O, A, E)
    BY <1>1, <1>2 DEF Sound, Storable, Good
  <2>2. SentOK(n, O, A)
    BY <1>1, <1>2 DEF Sound, SentOK
  <2> QED BY <2>1, <2>2 DEF Sound
<1>3. CASE n.q = q /\ kept = q
  <2>1. PICK W : W = O \cup InFlight(m.q)
    OBVIOUS
  <2>2. QueueOK(q, W, A)
    BY <2>1 DEF Storable, Good
  <2>3. QueueOK(q, W \cup InFlight(q), A)
    BY <2>2, InFlightOut
  <2>4. QueueOK(q, O \cup InFlight(q), A)
    <3>1. O \cup InFlight(q) \subseteq W \cup InFlight(q) /\ A \subseteq A
      BY <2>1
    <3> QED BY <2>3, <3>1, QueueWeaker
  <2>5. Good(q, n, O, A, E)
    BY <1>1, <1>3, <2>4 DEF Storable, Good
  <2>6. SentOK(n, O, A)
    BY <1>1, <1>3 DEF Sound, SentOK, Storable, KeepsFlight
  <2> QED BY <1>3, <2>5, <2>6 DEF Sound
<1> QED BY <1>2, <1>3

\* Sealing loses no evidence.
LEMMA SealingEvidence ==
    ASSUME NEW q, NEW r, Sealing(q, r)
    PROVE  Evidence(r) = Evidence(q) /\ MarkerFrames(r) = MarkerFrames(q) /\ Normals(r) = Normals(q)
<1>1. MarkerFrames(r) \subseteq MarkerFrames(q)
  BY DEF Sealing, SameMarker, MarkerFrames
<1>2. MarkerFrames(q) \subseteq MarkerFrames(r)
  BY DEF Sealing, SameMarker, MarkerFrames
<1> QED BY <1>1, <1>2 DEF Evidence, Sealing

\* The oldest entry is about to be in flight.
LEMMA SentStorable ==
    ASSUME NEW m, NEW stored, NEW O, NEW A, NEW E, Sound(m, stored, O, A, E), m.q.entries # <<>>
    PROVE  Storable(m, Sent(m.q), O, A, E) /\ Sealing(m.q, Sent(m.q)) /\ Sent(m.q).sending
           /\ Sent(m.q).epoch = m.q.epoch /\ Sent(m.q).human = m.q.human
<1>1. PICK q : q = m.q
  OBVIOUS
<1>2. PICK W : W = O \cup InFlight(q)
  OBVIOUS
<1>3. QueueOK(q, W, A) /\ AllFixed(W) /\ MarkerCaps(q) /\ q.entries # <<>>
  BY <1>1, <1>2, OutFixed DEF Sound, Good, Fits
<1>4. PICK r : r = Sent(q)
  OBVIOUS
<1>5. /\ QueueOK(r, W, A) /\ MarkerCaps(r) /\ Sealing(q, r)
      /\ r.sending /\ r.entries # <<>> /\ r.epoch = q.epoch /\ r.human = q.human
      /\ q.sending => r.entries[1] = q.entries[1]
  BY <1>3, <1>4, SentKeeps
<1>6. Evidence(r) = Evidence(q) /\ Normals(r) = Normals(q)
  BY <1>5, SealingEvidence
<1>7. Fits(r, E) /\ \A x \in Evidence(r) : BoundBy(x, m)
  BY <1>1, <1>5, <1>6 DEF Sound, Good, Fits
<1>8. KeepsFlight(q, r, A)
  BY <1>5 DEF KeepsFlight, InFlight
<1> QED BY <1>1, <1>2, <1>4, <1>5, <1>7, <1>8 DEF Storable, Good

\* A takeover epoch is adopted.
LEMMA AdoptedStorable ==
    ASSUME NEW m, NEW stored, NEW O, NEW A, NEW E \in Nat, Sound(m, stored, O, A, E),
           NEW e \in Nat, m.q.epoch <= e, e <= E
    PROVE  Storable(m, Adopted(m.q, e), O, A, E) /\ Sealing(m.q, Adopted(m.q, e))
           /\ Adopted(m.q, e).epoch = e /\ Adopted(m.q, e).human = m.q.human
<1>1. PICK q : q = m.q
  OBVIOUS
<1>2. PICK W : W = O \cup InFlight(q)
  OBVIOUS
<1>3. QueueOK(q, W, A) /\ AllFixed(W) /\ MarkerCaps(q)
  BY <1>1, <1>2, OutFixed DEF Sound, Good, Fits
<1>4. PICK r : r = Adopted(q, e)
  OBVIOUS
<1>5. /\ QueueOK(r, W, A) /\ MarkerCaps(r) /\ Sealing(q, r)
      /\ r.sending = q.sending /\ r.epoch = e /\ r.human = q.human
      /\ q.sending => r.entries # <<>> /\ r.entries[1] = q.entries[1]
  BY <1>3, <1>4, AdoptedKeeps
<1>6. Evidence(r) = Evidence(q) /\ Normals(r) = Normals(q)
  BY <1>5, SealingEvidence
<1>7. q.human <= e
  <2>1. q.human \in Nat /\ q.epoch \in Nat /\ q.human <= q.epoch
    BY <1>1, <1>3 DEF Sound, Good, Fits, QueueOK, Queue
  <2> QED BY <1>1, <2>1
<1>8. Fits(r, E) /\ \A x \in Evidence(r) : BoundBy(x, m)
  BY <1>1, <1>5, <1>6, <1>7 DEF Sound, Good, Fits
<1>9. KeepsFlight(q, r, A)
  BY <1>5 DEF KeepsFlight, InFlight
<1> QED BY <1>1, <1>2, <1>4, <1>5, <1>8, <1>9 DEF Storable, Good

\* The takeover of a human start is recorded.
LEMMA HumanStorable ==
    ASSUME NEW m, NEW stored, NEW O, NEW A, NEW E, Sound(m, stored, O, A, E), NEW r \in Queue,
           r.entries = m.q.entries, r.sending = m.q.sending, r.epoch = m.q.epoch, r.human <= r.epoch
    PROVE  Storable(m, r, O, A, E) /\ Held(r) = Held(m.q)
<1>1. PICK q : q = m.q
  OBVIOUS
<1>2. PICK W : W = O \cup InFlight(q)
  OBVIOUS
<1>3. QueueOK(q, W, A) /\ MarkerCaps(q)
  BY <1>1, <1>2 DEF Sound, Good, Fits
<1>4. r.entries = q.entries /\ r.sending = q.sending /\ r.epoch = q.epoch
  BY <1>1
<1>5. QueueOK(r, W, A) /\ MarkerCaps(r) /\ Held(r) = Held(q) /\ InFlight(r) = InFlight(q)
  BY <1>3, <1>4, HumanKeeps
<1>6. Normals(r) = Normals(q) /\ Markers(r) = Markers(q)
  BY <1>5 DEF Normals, Markers
<1>7. Evidence(r) = Evidence(q)
  BY <1>6 DEF Evidence, MarkerFrames
<1>8. Fits(r, E) /\ \A x \in Evidence(r) : BoundBy(x, m)
  BY <1>1, <1>4, <1>5, <1>6, <1>7 DEF Sound, Good, Fits
<1>9. KeepsFlight(q, r, A)
  BY <1>5 DEF KeepsFlight
<1> QED BY <1>1, <1>2, <1>5, <1>8, <1>9 DEF Storable, Good

\* Evidence is frames.
LEMMA EvidenceFrames ==
    ASSUME NEW q \in Queue
    PROVE  Evidence(q) \subseteq Frames
<1>1. \A n \in Normals(q) : Origin(n) \in Frames
  BY Kinds, EntryShape DEF Entry
<1>2. \A m \in Markers(q) : m.frames \subseteq Frames
  BY Kinds DEF MarkerRecord
<1> QED BY <1>1, <1>2 DEF Evidence, MarkerFrames

\* An acknowledged entry is taken out.
LEMMA AckedStorable ==
    ASSUME NEW m, NEW stored, NEW O, NEW A, NEW E, Sound(m, stored, O, A, E), NEW id,
           \E e \in Held(m.q) : Id(e) = id,
           \A e \in Held(m.q) : Id(e) = id /\ e.t = "normal" => Origin(e) \in A
    PROVE  /\ Storable(m, Acked(m.q, id), O, A, E)
           /\ \E e \in Held(m.q) : Id(e) = id /\ Acknowledges(m.q, Acked(m.q, id), e)
<1>1. PICK q : q = m.q
  OBVIOUS
<1>2. PICK W : W = O \cup InFlight(q)
  OBVIOUS
<1>3. QueueOK(q, W, A) /\ AllFixed(W) /\ MarkerCaps(q) /\ q \in Queue
  BY <1>1, <1>2, OutFixed DEF Sound, Good, Fits
<1>4. PICK r : r = Acked(q, id)
  OBVIOUS
<1>5. QueueOK(r, W, A) /\ MarkerCaps(r) /\ \E e \in Held(q) : Id(e) = id /\ Acknowledges(q, r, e)
  <2>1. /\ \E e \in Held(q) : Id(e) = id
        /\ \A e \in Held(q) : Id(e) = id /\ e.t = "normal" => Origin(e) \in A
    BY <1>1
  <2> QED BY ONLY <1>3, <1>4, <2>1, AckedKeeps
<1>6. PICK e \in Held(q) : Id(e) = id /\ Acknowledges(q, r, e)
  BY <1>5
<1>7. Normals(r) \subseteq Normals(q) /\ Markers(r) \subseteq Markers(q)
  BY <1>6 DEF Acknowledges, Normals, Markers
<1>8. Evidence(r) \subseteq Evidence(q)
  BY <1>7 DEF Evidence, MarkerFrames
<1>9. Cardinality(Normals(r)) <= NormalCap
  <2>1. IsFiniteSet(Normals(q)) /\ Cardinality(Normals(q)) <= NormalCap
    BY <1>1, <1>3, SlotsFinite DEF Sound, Good, Fits
  <2>2. /\ Cardinality(Normals(r)) \in Nat /\ Cardinality(Normals(q)) \in Nat
        /\ Cardinality(Normals(r)) <= Cardinality(Normals(q))
    BY <1>7, <2>1, FS_Subset, FS_CardinalityType
  <2> QED BY <2>1, <2>2, CapNumbers
<1>10. Fits(r, E) /\ \A x \in Evidence(r) : BoundBy(x, m)
  BY <1>1, <1>5, <1>6, <1>8, <1>9 DEF Sound, Good, Fits, Acknowledges
<1>11. KeepsFlight(q, r, A)
  BY <1>1, <1>6 DEF KeepsFlight, Acknowledges
<1> QED BY <1>1, <1>2, <1>4, <1>5, <1>10, <1>11 DEF Storable, Good

\* The next frame of a running daemon is added.
LEMMA AppendedStorable ==
    ASSUME NEW m, NEW stored, NEW O, NEW A, NEW E, Sound(m, stored, O, A, E), m.up,
           NEW n \in NormalEntry, n.inst = m.inst, n.seq = m.seq + 1,
           NEW k \in Memory, k.up = m.up, k.inst = m.inst, k.seq = n.seq, k.q = m.q
    PROVE  /\ Sound(k, stored, O, A, E)
           /\ \A r \in Appended(m.q, n) : Storable(k, r, O, A, E) /\ Stored(m.q, r, n)
<1>0. m \in Memory /\ m.seq \in Nat /\ m.inst \in Nat
  BY DEF Sound, Memory, Positive
<1>1. PICK q : q = m.q
  OBVIOUS
<1>2. PICK W : W = O \cup InFlight(q)
  OBVIOUS
<1>3. /\ QueueOK(q, W, A) /\ AllFixed(W) /\ W \subseteq Entry /\ MarkerCaps(q) /\ q \in Queue /\ stored \in Queue
      /\ Cardinality(Normals(q)) <= NormalCap /\ InFlight(q) \subseteq Held(q)
  BY <1>1, <1>2, OutFixed DEF Sound, Good, Fits
<1>4. ASSUME NEW x \in Frames, BoundBy(x, m)
      PROVE  BoundBy(x, k) /\ (x[1] = n.inst => x[2] < n.seq)
  <2>1. x[1] \in Nat /\ x[2] \in Nat
    BY DEF Frames, Positive
  <2> QED BY <1>0, <1>4, <2>1 DEF BoundBy
<1>5. /\ \A x \in Evidence(q) : x \in Frames /\ BoundBy(x, m)
      /\ \A x \in Evidence(stored) : x \in Frames /\ BoundBy(x, m)
  BY <1>1, <1>3, EvidenceFrames DEF Sound, Good
<1>6. \A w \in W : Origin(w) \in Frames /\ BoundBy(Origin(w), m)
  <2>1. \A w \in InFlight(q) : BoundBy(Origin(w), m)
    BY <1>3, <1>5, OriginsHeld
  <2>2. \A w \in O : BoundBy(Origin(w), m)
    BY DEF Sound, SentOK
  <2> QED BY <1>2, <1>3, <2>1, <2>2, EntryShape
<1>7. Sound(k, stored, O, A, E)
  <2>1. \A x \in Evidence(q) \cup Evidence(stored) : BoundBy(x, k)
    BY <1>4, <1>5
  <2>2. \A w \in O : BoundBy(Origin(w), k)
    BY <1>2, <1>4, <1>6
  <2> QED BY <1>1, <2>1, <2>2 DEF Sound, Good, SentOK
<1>8. Latest(n, q, W, A)
  <2>1. \A x \in Evidence(q) : x[1] = n.inst => x[2] < n.seq
    BY <1>4, <1>5
  <2>2. \A w \in W : Origin(w)[1] = n.inst => Origin(w)[2] < n.seq
    BY <1>4, <1>6
  <2>3. \A w \in W : w.t = "normal" /\ w.inst = n.inst => Origin(w) \in A \/ w \in InFlight(q)
    BY <1>1, <1>2 DEF Sound, SentOK
  <2> QED BY <2>1, <2>2, <2>3 DEF Latest
<1>9. ASSUME NEW r \in Appended(q, n) PROVE Storable(k, r, O, A, E) /\ Stored(q, r, n)
  <2>1. QueueOK(r, W, A) /\ MarkerCaps(r) /\ Cardinality(Normals(r)) <= NormalCap /\ Stored(q, r, n)
    BY <1>3, <1>8, AppendedKeeps
  <2>2. BoundBy(Frame(n), k)
    <3>1. n.seq \in Nat /\ n.inst \in Nat
      BY DEF NormalEntry, Positive
    <3>2. PICK a : a = n.inst
      OBVIOUS
    <3>3. PICK b : b = n.seq
      OBVIOUS
    <3>4. Frame(n) = <<a, b>> /\ a \in Nat /\ b \in Nat
      BY <3>1, <3>2, <3>3 DEF Frame
    <3>5. <<a, b>>[1] = a /\ <<a, b>>[2] = b
      OBVIOUS
    <3>6. a <= k.inst /\ b <= k.seq
      BY <3>1, <3>2, <3>3
    <3> QED BY <3>4, <3>5, <3>6 DEF BoundBy
  <2>3. \A x \in Evidence(r) : BoundBy(x, k)
    BY <1>4, <1>5, <2>1, <2>2 DEF Stored
  <2>4. Fits(r, E)
    BY <1>1, <2>1 DEF Sound, Good, Fits, Stored
  <2>5. KeepsFlight(q, r, A)
    BY <2>1 DEF KeepsFlight, InFlight, Stored
  <2> QED BY <1>1, <1>2, <2>1, <2>3, <2>4, <2>5 DEF Storable, Good
<1> QED BY <1>1, <1>7, <1>9

-----------------------------------------------------------------------------
\* Handlers, as steps on contexts.  W went out earlier, A was applied, E is the
\* epoch.

SoundCtx(c, W, A, E) == c \in Ctx /\ Sound(c.mem, c.disk.queue, W \cup c.out, A, E)

\* d differs from c in other things than queues.
Quiet(c, d) ==
    /\ d \in Ctx
    /\ d.mem.up = c.mem.up /\ d.mem.inst = c.mem.inst /\ d.mem.seq = c.mem.seq /\ d.mem.q = c.mem.q
    /\ d.disk.queue = c.disk.queue /\ d.out = c.out

LEMMA QuietSound ==
    ASSUME NEW c, NEW W, NEW A, NEW E, SoundCtx(c, W, A, E), NEW d, Quiet(c, d)
    PROVE  SoundCtx(d, W, A, E)
<1>1. PICK m : m = c.mem
  OBVIOUS
<1>2. PICK k : k = d.mem
  OBVIOUS
<1>3. k \in Memory /\ k.up = m.up /\ k.inst = m.inst /\ k.seq = m.seq /\ k.q = m.q
  BY <1>1, <1>2 DEF Quiet, Ctx
<1>4. \A x : BoundBy(x, k) <=> BoundBy(x, m)
  BY <1>3 DEF BoundBy
<1>5. Sound(k, c.disk.queue, W \cup c.out, A, E)
  BY <1>1, <1>3, <1>4 DEF SoundCtx, Sound, Good, SentOK
<1> QED BY <1>2, <1>5 DEF SoundCtx, Quiet

LEMMA CommitSound ==
    ASSUME NEW c, NEW W, NEW A, NEW E, SoundCtx(c, W, A, E),
           NEW q, Storable(c.mem, q, W \cup c.out, A, E), NEW file, NEW d, Committed(c, d, q, file)
    PROVE  SoundCtx(d, W, A, E)
<1>1. PICK m, k, O : m = c.mem /\ k = d.mem /\ O = W \cup c.out
  OBVIOUS
<1>2. PICK stored, kept : stored = c.disk.queue /\ kept = d.disk.queue
  OBVIOUS
<1>3. Sound(m, stored, O, A, E) /\ Storable(m, q, O, A, E)
  BY <1>1, <1>2 DEF SoundCtx
<1>4. k \in Memory /\ k.up = m.up /\ k.inst = m.inst /\ k.seq = m.seq
  BY <1>1 DEF Committed, Steady, Ctx
<1>5. (k.q = q /\ kept = q) \/ (k.q = m.q /\ kept \in {stored, q})
  BY <1>1, <1>2 DEF Committed
<1>6. Sound(k, kept, O, A, E)
  BY <1>3, <1>4, <1>5, StoreSound
<1> QED BY <1>1, <1>2, <1>6 DEF SoundCtx, Committed, Steady

\* d is c, and something more was sent.
Sends(c, d) ==
    /\ d \in Ctx
    /\ d.mem = c.mem /\ d.disk = c.disk /\ d.minted = c.minted /\ d.made = c.made
    /\ d.alive = c.alive /\ d.ok = c.ok

\* The entry in flight is sent, perhaps again.
LEMMA SendSound ==
    ASSUME NEW c, NEW W, NEW A, NEW E, SoundCtx(c, W, A, E), c.mem.q.sending,
           NEW d, d = Send(c, c.mem.q.entries[1])
    PROVE  SoundCtx(d, W, A, E) /\ Sends(c, d)
<1>0. c \in Ctx
  BY DEF SoundCtx
<1>1. PICK q, m : q = c.mem.q /\ m = c.mem
  OBVIOUS
<1>2. PICK h : h = q.entries[1]
  OBVIOUS
<1>3. PICK O : O = W \cup c.out
  OBVIOUS
<1>4. Sound(m, c.disk.queue, O, A, E)
  BY <1>1, <1>3 DEF SoundCtx
<1>5. QueueOK(q, O \cup InFlight(q), A) /\ q \in Queue /\ \A x \in Evidence(q) : BoundBy(x, m)
  BY <1>1, <1>4 DEF Sound, Good, QueueOK
<1>6. h \in InFlight(q) /\ InFlight(q) = {h} /\ Fixed(h)
  BY <1>1, <1>2, <1>5 DEF InFlight, QueueOK, HeadFixed
<1>7. h \in Held(q) /\ h \in Entry
  <2>1. InFlight(q) \subseteq Held(q)
    BY <1>5, InFlightOut
  <2> QED BY <1>5, <1>6, <2>1, HeldShape
<1>8. WireForm(h) = h
  BY <1>6, <1>7, SealedFormIs DEF WireForm, SealedForm
<1>9. CASE ~c.alive
  <2>1. d = c
    BY <1>9 DEF Send
  <2> QED BY <1>0, <2>1 DEF Sends
<1>10. CASE c.alive
  <2>1. PICK new : new = c.out \cup {h}
    OBVIOUS
  <2>2. d = [c EXCEPT !.out = new]
    BY <1>1, <1>2, <1>8, <1>10, <2>1 DEF Send
  <2>3. new \subseteq Entry
    BY <1>0, <1>7, <2>1 DEF Ctx
  <2>4. Sends(c, d) /\ d.out = new
    BY <1>0, <2>2, <2>3 DEF Ctx, Sends
  <2>5. PICK P : P = O \cup {h}
    OBVIOUS
  <2>6. P \cup InFlight(q) = O \cup InFlight(q) /\ W \cup d.out = P
    BY <1>3, <1>6, <2>1, <2>4, <2>5
  <2>7. BoundBy(Origin(h), m)
    BY <1>5, <1>7, OriginsHeld
  <2>8. ASSUME NEW v \in P, NEW w \in P, v.t = "normal", w.t = "normal", v.inst = w.inst, v.seq < w.seq
        PROVE  Origin(v) \in A
    <3>1. CASE v = h
      <4>1. w \in O \cup InFlight(q) /\ FrameAgainst(q, v, w, A)
        BY <1>5, <1>7, <2>5, <2>6, <2>8, <3>1 DEF QueueOK, Against
      <4>2. w.seq < v.seq \/ w = v
        BY <2>8, <4>1 DEF FrameAgainst
      <4>3. v \in NormalEntry /\ w \in NormalEntry
        <5>1. w \in Entry
          BY <1>4, <1>7, <2>5 DEF Sound, SentOK
        <5> QED BY <1>7, <2>8, <3>1, <5>1, EntryShape
      <4>4. v.seq \in Nat /\ w.seq \in Nat
        BY <4>3 DEF NormalEntry, Positive
      <4> QED BY <2>8, <4>2, <4>4
    <3>2. CASE v # h /\ w = h
      <4>1. v \in O \cup InFlight(q) /\ FrameAgainst(q, w, v, A)
        BY <1>5, <1>7, <2>5, <2>6, <2>8, <3>2 DEF QueueOK, Against
      <4>2. <<v.inst, v.seq>> \in A
        BY <1>6, <2>8, <3>2, <4>1 DEF FrameAgainst
      <4> QED BY <2>8, <4>2 DEF Origin
    <3>3. CASE v # h /\ w # h
      BY <1>4, <2>5, <2>8, <3>3 DEF Sound, SentOK
    <3> QED BY <3>1, <3>2, <3>3
  <2>9. SentOK(m, P, A)
    <3>1. P \subseteq Entry /\ AllFixed(P)
      BY <1>4, <1>6, <1>7, <2>5 DEF Sound, SentOK, AllFixed
    <3>2. \A w \in P : BoundBy(Origin(w), m)
      BY <1>4, <2>5, <2>7 DEF Sound, SentOK
    <3>3. m.up => \A w \in P : w.t = "normal" /\ w.inst = m.inst => Origin(w) \in A \/ w \in InFlight(m.q)
      BY <1>1, <1>4, <1>6, <2>5 DEF Sound, SentOK
    <3>4. \A v, w \in P : v.t = "normal" /\ w.t = "normal" /\ v.inst = w.inst /\ v.seq < w.seq => Origin(v) \in A
      BY <2>8
    <3> QED BY <3>1, <3>2, <3>3, <3>4 DEF SentOK
  <2>10. Sound(m, c.disk.queue, P, A, E)
    BY <1>1, <1>4, <2>6, <2>9 DEF Sound, Good
  <2> QED BY <1>1, <2>4, <2>6, <2>10 DEF SoundCtx, Sends
<1> QED BY <1>9, <1>10

\* Queue r is q with some markers sealed.
Forwards(q, r) == Sealing(q, r) /\ r.epoch = q.epoch /\ r.human = q.human

\* d is c, and the oldest entry may have been sent.
Pumped(c, d) ==
    \E x : /\ x = c \/ \E r : Forwards(c.mem.q, r) /\ Committed(c, x, r, "queue")
           /\ Sends(x, d)

\* sendOldest
LEMMA SendOldestIs ==
    ASSUME NEW c, NEW W, NEW A, NEW E, SoundCtx(c, W, A, E), NEW d, d = SendOldest(c)
    PROVE  SoundCtx(d, W, A, E) /\ Pumped(c, d)
<1>0. c \in Ctx /\ Sends(c, c)
  BY DEF SoundCtx, Sends
<1>1. PICK q : q = c.mem.q
  OBVIOUS
<1>2. PICK O : O = W \cup c.out
  OBVIOUS
<1>3. Sound(c.mem, c.disk.queue, O, A, E)
  BY <1>2 DEF SoundCtx
<1>4. CASE ~c.mem.link \/ q.entries = <<>>
  <2>1. d = c
    BY <1>1, <1>4 DEF SendOldest
  <2> QED BY <1>0, <2>1 DEF Pumped
<1>5. CASE c.mem.link /\ q.entries # <<>> /\ (~q.sending \/ Sent(q) # q)
  <2>1. PICK r : r = Sent(q)
    OBVIOUS
  <2>2. Storable(c.mem, r, O, A, E) /\ r.sending /\ Forwards(q, r)
    BY <1>1, <1>3, <1>5, <2>1, SentStorable DEF Forwards
  <2>3. r \in Queue
    BY <2>2 DEF Storable, Good, QueueOK
  <2>4. PICK file : file = "queue"
    OBVIOUS
  <2>5. PICK x : x = Commit(c, r, file)
    OBVIOUS
  <2>6. Committed(c, x, r, file)
    BY ONLY <1>0, <2>3, <2>5, CommitIs
  <2>7. SoundCtx(x, W, A, E)
    <3>1. SoundCtx(c, W, A, E) /\ Storable(c.mem, r, W \cup c.out, A, E)
      BY <1>2, <2>2
    <3> QED BY ONLY <3>1, <2>6, CommitSound
  <2>8. d = IF x.ok THEN Send(x, x.mem.q.entries[1]) ELSE x
    BY <1>1, <1>5, <2>1, <2>4, <2>5 DEF SendOldest, IfOk
  <2>9. SoundCtx(d, W, A, E) /\ Sends(x, d)
    <3>1. CASE x.ok
      <4>1. x.mem.q.sending
        BY <2>2, <2>6, <3>1 DEF Committed
      <4> QED BY <2>7, <2>8, <3>1, <4>1, SendSound
    <3>2. CASE ~x.ok
      BY <2>7, <2>8, <3>2 DEF SoundCtx, Sends
    <3> QED BY <3>1, <3>2
  <2> QED BY <1>1, <2>2, <2>4, <2>6, <2>9 DEF Pumped
<1>6. CASE c.mem.link /\ q.entries # <<>> /\ q.sending /\ Sent(q) = q
  <2>1. d = Send(c, c.mem.q.entries[1])
    BY <1>1, <1>6 DEF SendOldest
  <2>2. SoundCtx(d, W, A, E) /\ Sends(c, d)
    BY <1>1, <1>6, <2>1, SendSound
  <2> QED BY <2>2 DEF Pumped
<1>7. q.sending \in BOOLEAN
  BY <1>0, <1>1 DEF Ctx, Memory, Queue
<1> QED BY <1>4, <1>5, <1>6, <1>7

LEMMA PumpIs ==
    ASSUME NEW c, NEW W, NEW A, NEW E, SoundCtx(c, W, A, E), NEW d, d = Pump(c)
    PROVE  SoundCtx(d, W, A, E) /\ Pumped(c, d)
<1>1. CASE c.mem.q.sending
  <2>1. d = c /\ Sends(c, c)
    BY <1>1 DEF Pump, SoundCtx, Sends
  <2> QED BY <2>1 DEF Pumped
<1>2. CASE ~c.mem.q.sending
  BY <1>2, SendOldestIs DEF Pump
<1> QED BY <1>1, <1>2

\* b is c with frame n about to be stored.
NextFrame(c, b, n, turn) ==
    /\ n \in NormalEntry /\ n.inst = c.mem.inst /\ n.seq = c.mem.seq + 1 /\ n.turn = turn /\ n.epoch = c.mem.q.epoch
    /\ b \in Ctx
    /\ b.mem.up = c.mem.up /\ b.mem.inst = c.mem.inst /\ b.mem.seq = n.seq /\ b.mem.link = c.mem.link
    /\ b.mem.q = c.mem.q /\ b.mem.bad = c.mem.bad /\ b.mem.open = c.mem.open /\ b.mem.grant = c.mem.grant
    /\ b.disk = c.disk /\ b.minted = c.minted /\ b.out = c.out /\ b.alive = c.alive
    /\ b.made = IF turn THEN c.made ELSE c.made \cup {Frame(n)}

\* The frame is stored as queue r, open launches are closed, and it may be sent;
\* or it is not stored.
Enqueued(c, d, turn, gone) ==
    \E b, n :
        /\ NextFrame(c, b, n, turn)
        /\ \/ Marks(b, d) /\ MarkedBad(b, d) /\ d.mem.bad # Reliable
           \/ \E r, x : /\ Stored(c.mem.q, r, n) /\ Committed(b, x, r, "queue")
                        /\ x.ok => \E y : Closed(x, y, gone) /\ Pumped(y, d)
                        /\ ~x.ok => d = x

\* enqueue
LEMMA EnqueueIs ==
    ASSUME NEW c, NEW W, NEW A, NEW E, SoundCtx(c, W, A, E), c.mem.up, NEW turn \in BOOLEAN, NEW gone,
           NEW d, d = Enqueue(c, turn, gone)
    PROVE  SoundCtx(d, W, A, E) /\ Enqueued(c, d, turn, gone)
<1>0. /\ c \in Ctx /\ c.mem \in Memory /\ c.mem.inst \in Positive /\ c.mem.seq \in Nat /\ c.mem.q.epoch \in Nat
      /\ c.made \subseteq Frames
  BY DEF SoundCtx, Ctx, Memory, Queue
<1>1. PICK s : s = c.mem.seq + 1 /\ s \in Positive /\ s \in Nat
  BY <1>0 DEF Positive
<1>2. PICK n : n = Normal(c.mem.inst, s, turn, c.mem.q.epoch)
  OBVIOUS
<1>3. /\ n \in NormalEntry /\ n.inst = c.mem.inst /\ n.seq = c.mem.seq + 1 /\ n.turn = turn
      /\ n.epoch = c.mem.q.epoch
  BY <1>0, <1>1, <1>2 DEF Normal, NormalEntry
<1>4. PICK made : made = IF turn THEN c.made ELSE c.made \cup {Frame(n)}
  OBVIOUS
<1>5. made \subseteq Frames
  BY <1>0, <1>3, <1>4 DEF NormalEntry, Frame, Frames
<1>6. PICK m : m = [c.mem EXCEPT !.seq = s]
  OBVIOUS
<1>7. /\ m \in Memory /\ m.up = c.mem.up /\ m.inst = c.mem.inst /\ m.seq = s /\ m.link = c.mem.link
      /\ m.q = c.mem.q /\ m.open = c.mem.open /\ m.grant = c.mem.grant /\ m.bad = c.mem.bad
  BY <1>0, <1>1, <1>6 DEF Memory
<1>8. PICK b : b = [c EXCEPT !.mem = m, !.made = made]
  OBVIOUS
<1>9. /\ b \in Ctx /\ b.mem = m /\ b.made = made /\ b.disk = c.disk /\ b.minted = c.minted /\ b.out = c.out
      /\ b.alive = c.alive
  BY <1>0, <1>5, <1>7, <1>8 DEF Ctx
<1>10. NextFrame(c, b, n, turn)
  BY <1>1, <1>3, <1>4, <1>7, <1>9 DEF NextFrame
<1>11. PICK O, stored : O = W \cup c.out /\ stored = c.disk.queue
  OBVIOUS
<1>12. /\ Sound(m, stored, O, A, E)
       /\ \A r \in Appended(c.mem.q, n) : Storable(m, r, O, A, E) /\ Stored(c.mem.q, r, n)
  <2>1. PICK k : k = c.mem
    OBVIOUS
  <2>2. Sound(k, stored, O, A, E) /\ k.up
    BY <1>11, <2>1 DEF SoundCtx
  <2>3. /\ n.inst = k.inst /\ n.seq = k.seq + 1 /\ m.up = k.up /\ m.inst = k.inst /\ m.seq = n.seq /\ m.q = k.q
    BY <1>1, <1>3, <1>7, <2>1
  <2>4. /\ Sound(m, stored, O, A, E)
        /\ \A r \in Appended(k.q, n) : Storable(m, r, O, A, E) /\ Stored(k.q, r, n)
    BY ONLY <1>3, <1>7, <2>2, <2>3, AppendedStorable
  <2> QED BY <2>1, <2>4
<1>13. SoundCtx(b, W, A, E)
  BY <1>9, <1>11, <1>12 DEF SoundCtx
<1>14. PICK qs : qs = Appended(c.mem.q, n)
  OBVIOUS
<1>15. PICK file : file = "queue"
  OBVIOUS
<1>16. b = [c EXCEPT !.mem.seq = s, !.made = IF turn THEN @ ELSE @ \cup {Frame(n)}]
  BY <1>4, <1>6, <1>8
<1>17. CASE qs = {}
  <2>1. d = MarkUnreliable(b)
    BY <1>1, <1>2, <1>14, <1>16, <1>17 DEF Enqueue
  <2>2. Marks(b, d) /\ MarkedBad(b, d) /\ d.mem.bad # Reliable
    BY <1>9, <2>1, MarkUnreliableIs DEF MarkedBad
  <2>3. Quiet(b, d)
    BY <2>2 DEF Marks, Quiet
  <2>4. SoundCtx(d, W, A, E)
    BY <1>13, <2>3, QuietSound
  <2> QED BY <1>10, <2>2, <2>4 DEF Enqueued
<1>18. CASE qs # {}
  <2>1. PICK r : r = CHOOSE q \in qs : TRUE
    OBVIOUS
  <2>2. Storable(m, r, O, A, E) /\ Stored(c.mem.q, r, n)
    <3>1. r \in qs
      BY <1>18, <2>1
    <3> QED BY <1>12, <1>14, <3>1
  <2>3. r \in Queue
    BY <2>2 DEF Storable, Good, QueueOK
  <2>4. PICK x : x = Commit(b, r, file)
    OBVIOUS
  <2>5. Committed(b, x, r, file)
    BY <1>9, <2>3, <2>4, CommitIs
  <2>6. SoundCtx(x, W, A, E)
    <3>1. Storable(b.mem, r, W \cup b.out, A, E)
      BY <1>9, <1>11, <2>2
    <3> QED BY ONLY <1>13, <2>5, <3>1, CommitSound
  <2>7. d = IF x.ok THEN Pump(CloseOpen(x, gone)) ELSE x
    BY <1>1, <1>2, <1>14, <1>15, <1>16, <1>18, <2>1, <2>4 DEF Enqueue, IfOk
  <2>8. CASE ~x.ok
    <3>1. d = x
      BY <2>7, <2>8
    <3>2. \E p, z : /\ Stored(c.mem.q, p, n) /\ Committed(b, z, p, "queue")
                    /\ z.ok => \E y : Closed(z, y, gone) /\ Pumped(y, d)
                    /\ ~z.ok => d = z
      BY <1>15, <2>2, <2>5, <2>8, <3>1
    <3> QED BY <1>10, <2>6, <3>1, <3>2 DEF Enqueued
  <2>9. CASE x.ok
    <3>1. PICK y : y = CloseOpen(x, gone)
      OBVIOUS
    <3>2. Closed(x, y, gone)
      BY <2>6, <3>1, CloseOpenIs DEF SoundCtx
    <3>3. Quiet(x, y)
      BY <3>2 DEF Closed, Steady, Quiet
    <3>4. SoundCtx(y, W, A, E)
      BY <2>6, <3>3, QuietSound
    <3>5. SoundCtx(d, W, A, E) /\ Pumped(y, d)
      BY <2>7, <2>9, <3>1, <3>4, PumpIs
    <3>6. \E p, z : /\ Stored(c.mem.q, p, n) /\ Committed(b, z, p, "queue")
                    /\ z.ok => \E v : Closed(z, v, gone) /\ Pumped(v, d)
                    /\ ~z.ok => d = z
      BY <1>15, <2>2, <2>5, <2>9, <3>2, <3>5
    <3> QED BY <1>10, <3>5, <3>6 DEF Enqueued
  <2> QED BY <2>8, <2>9
<1> QED BY <1>17, <1>18

-----------------------------------------------------------------------------
\* Admission of a start.

\* Open launches of earlier instances.
Stale(c) == {o \in c.mem.open : o.inst # c.mem.inst}

\* d is c after an attempt to resolve what made its evidence unreliable.
Resolved(c, d) ==
    /\ d \in Ctx
    /\ d.mem.up = c.mem.up /\ d.mem.inst = c.mem.inst /\ d.mem.seq = c.mem.seq /\ d.mem.link = c.mem.link
    /\ d.mem.q = c.mem.q /\ d.mem.grant = c.mem.grant
    /\ d.disk.queue = c.disk.queue /\ d.disk.damaged = c.disk.damaged
    /\ d.out = c.out /\ d.made = c.made /\ c.minted <= d.minted /\ (d.alive => c.alive)
    /\ \/ c.mem.bad = Reliable /\ d.mem = c.mem /\ d.disk = c.disk /\ d.ok /\ d.alive = c.alive
       \/ c.mem.bad # Reliable /\ ~d.ok /\ d.mem = c.mem /\ (d.disk = c.disk \/ TornRecovery)
       \/ /\ c.mem.bad # Reliable /\ c.alive /\ d.ok = d.alive /\ d.mem.bad = Reliable
          /\ d.disk.resolution.marker = c.mem.bad /\ d.disk.resolution.open = Stale(c)
          /\ d.disk.resolution.aside = c.disk.aside
          /\ d.mem.open \in {c.mem.open, c.mem.open \ Stale(c)}
          /\ d.disk.open \in {c.disk.open, c.mem.open \ Stale(c)}
          /\ d.disk.marker \in {c.disk.marker, 0}
          /\ d.disk.aside \in {c.disk.aside, {}}

\* resolveUnreliable
LEMMA ResolveIs ==
    ASSUME NEW c \in Ctx, NEW d, d = Resolve(c)
    PROVE  Resolved(c, d)
<1> DEFINE record == [marker |-> c.mem.bad, open |-> {o \in c.mem.open : o.inst # c.mem.inst}, aside |-> c.disk.aside]
           stale == {o \in c.mem.open : o.inst # c.mem.inst}
<1>0. c.mem \in Memory /\ c.disk \in Files /\ c.minted \in Nat /\ c.minted <= c.minted
  BY DEF Ctx
<1>1. CASE c.mem.bad = Reliable
  <2>1. d = [c EXCEPT !.ok = TRUE]
    BY <1>1 DEF Resolve
  <2>2. /\ d \in Ctx /\ d.mem = c.mem /\ d.disk = c.disk /\ d.out = c.out /\ d.made = c.made /\ d.minted = c.minted
        /\ d.alive = c.alive /\ d.ok
    BY <2>1 DEF Ctx
  <2> QED BY <1>0, <1>1, <2>2 DEF Resolved
<1>2. CASE c.mem.bad # Reliable
  <2>0. PICK v : v = record
    OBVIOUS
  <2>1. PICK part, file : part = "resolution" /\ file = "recovery"
    OBVIOUS
  <2>2. v \in Resolutions /\ v.marker = c.mem.bad /\ v.open = Stale(c) /\ v.aside = c.disk.aside
    BY <1>0, <1>2, <2>0 DEF Resolutions, Memory, Files, Stale
  <2>3. PICK D : D = [c.disk EXCEPT ![part] = v]
    OBVIOUS
  <2>4. /\ D \in Files /\ D.queue = c.disk.queue /\ D.damaged = c.disk.damaged /\ D.open = c.disk.open
        /\ D.resolution = v /\ D.aside = c.disk.aside /\ D.marker = c.disk.marker
    BY <1>0, <2>1, <2>2, <2>3 DEF Files
  <2>5. PICK w : w = Write(c, file, part, v)
    OBVIOUS
  <2>6. /\ w \in Ctx /\ w.mem = c.mem /\ w.minted = c.minted /\ w.out = c.out /\ w.made = c.made
        /\ w.disk \in {c.disk, D} /\ (w.ok => w.disk = D /\ w.alive) /\ (w.alive => c.alive)
    <3>1. c \in Ctx
      OBVIOUS
    <3>2. D \in Files
      BY <2>4
    <3> QED BY ONLY <2>3, <2>5, <3>1, <3>2, WriteIs
  <2>7. ~w.ok /\ ~TornRecovery => w.disk = c.disk
    <3>1. c \in Ctx
      OBVIOUS
    <3> QED BY ONLY <2>1, <2>3, <2>4, <2>5, <3>1, WriteIs
  <2>8. CASE ~w.ok
    <3>1. d = w
      BY ZenonT(60), <1>2, <2>0, <2>1, <2>5, <2>8 DEF Resolve, IfOk
    <3> QED BY SMTT(60), <1>0, <1>2, <2>4, <2>6, <2>7, <2>8, <3>1 DEF Resolved
  <2>9. CASE w.ok
    <3>0. c.alive /\ w.disk = D
      BY <2>6, <2>9
    <3>1. PICK m : m = [c.mem EXCEPT !.bad = Reliable]
      OBVIOUS
    <3>2. /\ m \in Memory /\ m.up = c.mem.up /\ m.inst = c.mem.inst /\ m.seq = c.mem.seq /\ m.link = c.mem.link
          /\ m.q = c.mem.q /\ m.open = c.mem.open /\ m.grant = c.mem.grant /\ m.bad = Reliable
      BY <1>0, <3>1 DEF Memory
    <3>3. PICK x : x = [w EXCEPT !.mem.bad = Reliable]
      OBVIOUS
    <3>4. /\ x \in Ctx /\ x.mem = m /\ x.disk = D /\ x.minted = c.minted /\ x.out = c.out /\ x.made = c.made
          /\ x.alive = w.alive
      BY <2>6, <2>9, <3>1, <3>2, <3>3 DEF Ctx
    <3>5. PICK marks \in BOOLEAN : ~marks
      OBVIOUS
    <3>6. PICK o : o = c.mem.open \ stale
      OBVIOUS
    <3>7. o \subseteq Opens /\ o = c.mem.open \ Stale(c)
      BY <1>0, <3>6 DEF Memory, Stale
    <3>8. PICK y : y = IF stale = {} THEN x ELSE WriteOpen(x, o, marks)
      OBVIOUS
    <3>9. /\ y \in Ctx
          /\ y.mem.up = m.up /\ y.mem.inst = m.inst /\ y.mem.seq = m.seq /\ y.mem.link = m.link
          /\ y.mem.q = m.q /\ y.mem.grant = m.grant /\ y.mem.bad = Reliable
          /\ y.mem.open \in {c.mem.open, o}
          /\ y.disk.queue = D.queue /\ y.disk.damaged = D.damaged /\ y.disk.resolution = v
          /\ y.disk.aside = D.aside /\ y.disk.marker = D.marker /\ y.disk.open \in {c.disk.open, o}
          /\ c.minted <= y.minted
          /\ y.out = c.out /\ y.made = c.made
      <4>1. CASE stale = {}
        BY <1>0, <2>4, <3>2, <3>4, <3>8, <4>1
      <4>2. CASE stale # {}
        <5>1. y = WriteOpen(x, o, marks)
          BY <3>8, <4>2
        <5>2. Opened(x, y, o) /\ y.mem.bad = x.mem.bad /\ y.disk.marker = x.disk.marker
          BY ONLY <3>4, <3>5, <3>7, <5>1, WriteOpenIs
        <5>3. x.minted <= y.minted
          BY <5>2 DEF Opened, Steady
        <5>4. y.mem.open \in {x.mem.open, o}
          BY <5>2 DEF Opened
        <5>5. /\ y \in Ctx
              /\ y.mem.up = x.mem.up /\ y.mem.inst = x.mem.inst /\ y.mem.seq = x.mem.seq /\ y.mem.link = x.mem.link
              /\ y.mem.q = x.mem.q /\ y.mem.grant = x.mem.grant
              /\ y.disk.queue = x.disk.queue /\ y.disk.damaged = x.disk.damaged
              /\ y.disk.resolution = x.disk.resolution /\ y.disk.aside = x.disk.aside
              /\ y.disk.open \in {x.disk.open, o} /\ y.out = x.out /\ y.made = x.made
          BY <5>2 DEF Opened, Steady
        <5> QED BY <2>4, <3>2, <3>4, <5>2, <5>3, <5>4, <5>5
      <4> QED BY <4>1, <4>2
    <3>10. PICK part2, file2 : part2 = "marker" /\ file2 = "cleanup"
      OBVIOUS
    <3>11. PICK none : none = 0
      OBVIOUS
    <3>12. PICK F : F = [y.disk EXCEPT ![part2] = none]
      OBVIOUS
    <3>13. /\ F \in Files /\ F.queue = y.disk.queue /\ F.damaged = y.disk.damaged /\ F.open = y.disk.open
           /\ F.resolution = y.disk.resolution /\ F.aside = y.disk.aside /\ F.marker = 0
      BY <3>9, <3>10, <3>11, <3>12 DEF Files, Ctx
    <3>14. PICK z : z = Write(y, file2, part2, none)
      OBVIOUS
    <3>15. /\ z \in Ctx /\ z.mem = y.mem /\ z.minted = y.minted /\ z.out = y.out /\ z.made = y.made
           /\ z.disk \in {y.disk, F}
      BY ONLY SMTT(60), <3>9, <3>12, <3>13, <3>14, WriteIs
    <3>16. PICK aside : aside = IF z.disk.marker = 0 THEN {} ELSE z.disk.aside
      OBVIOUS
    <3>17. PICK G : G = [z.disk EXCEPT !.aside = aside]
      OBVIOUS
    <3>18. /\ G \in Files /\ G.queue = z.disk.queue /\ G.damaged = z.disk.damaged /\ G.open = z.disk.open
           /\ G.resolution = z.disk.resolution /\ G.aside = aside /\ G.marker = z.disk.marker
      BY <3>15, <3>16, <3>17 DEF Files, Ctx
    <3>19. x = [w EXCEPT !.mem.bad = Reliable]
      BY <3>3
    <3>20. d = [z EXCEPT !.disk.aside = IF z.disk.marker = 0 THEN {} ELSE @, !.ok = z.alive]
      <4>1. y = IF stale = {} THEN x ELSE WriteOpen(x, x.mem.open \ stale, FALSE)
        BY <3>2, <3>4, <3>5, <3>6, <3>8
      <4> DEFINE ww == Write(c, "recovery", "resolution", record)
                 xx == [ww EXCEPT !.mem.bad = Reliable]
                 yy == IF stale = {} THEN xx ELSE WriteOpen(xx, xx.mem.open \ stale, FALSE)
                 zz == Write(yy, "cleanup", "marker", 0)
      <4>2. ww = w
        BY <2>0, <2>1, <2>5
      <4>3. d = [zz EXCEPT !.disk.aside = IF zz.disk.marker = 0 THEN {} ELSE @, !.ok = zz.alive]
        <5>1. ww.ok
          BY <2>9, <4>2
        <5> QED BY ZenonT(60), <1>2, <5>1 DEF Resolve, IfOk
      <4> HIDE DEF ww
      <4>4. xx = x
        BY <3>3, <4>2
      <4> HIDE DEF xx
      <4>5. yy = y
        BY <4>1, <4>4
      <4> HIDE DEF yy
      <4>6. zz = z
        BY <3>10, <3>11, <3>14, <4>5
      <4> HIDE DEF zz
      <4> QED BY <4>3, <4>6
    <3>21. d = [z EXCEPT !.disk = G, !.ok = z.alive]
      BY <3>15, <3>16, <3>17, <3>20
    <3>22. /\ d \in Ctx /\ d.mem = y.mem /\ d.disk = G /\ d.minted = y.minted /\ d.out = y.out /\ d.made = y.made
           /\ d.alive = z.alive /\ d.ok = z.alive
      BY <3>15, <3>18, <3>21 DEF Ctx
    <3>23. /\ d.disk.marker \in {c.disk.marker, 0} /\ d.disk.aside \in {c.disk.aside, {}}
           /\ d.disk.open \in {c.disk.open, o} /\ d.disk.resolution = v /\ d.disk.queue = c.disk.queue
           /\ d.disk.damaged = c.disk.damaged
      BY <2>4, <3>9, <3>13, <3>15, <3>16, <3>18, <3>22
    <3>24. /\ d \in Ctx
           /\ d.mem.up = c.mem.up /\ d.mem.inst = c.mem.inst /\ d.mem.seq = c.mem.seq /\ d.mem.link = c.mem.link
           /\ d.mem.q = c.mem.q /\ d.mem.grant = c.mem.grant
           /\ d.out = c.out /\ d.made = c.made /\ c.minted <= d.minted /\ c.alive
      BY ONLY <3>0, <3>2, <3>9, <3>22
    <3>25. d.ok = d.alive /\ d.mem.bad = Reliable /\ d.mem.open \in {c.mem.open, o}
      BY ONLY <3>9, <3>22
    <3>26. /\ c.mem.bad # Reliable /\ c.alive /\ d.ok = d.alive /\ d.mem.bad = Reliable
           /\ d.disk.resolution.marker = c.mem.bad /\ d.disk.resolution.open = Stale(c)
           /\ d.disk.resolution.aside = c.disk.aside
           /\ d.mem.open \in {c.mem.open, c.mem.open \ Stale(c)}
           /\ d.disk.open \in {c.disk.open, c.mem.open \ Stale(c)}
           /\ d.disk.marker \in {c.disk.marker, 0}
           /\ d.disk.aside \in {c.disk.aside, {}}
      BY ONLY <1>2, <2>2, <3>7, <3>23, <3>24, <3>25
    <3>27. d.disk.queue = c.disk.queue /\ d.disk.damaged = c.disk.damaged
      BY ONLY <3>23
    <3> QED BY ONLY <3>24, <3>26, <3>27 DEF Resolved
  <2> QED BY <2>8, <2>9
<1> QED BY <1>1, <1>2

\* d is c after an attempt to record the takeover of epoch e.
TakenOver(c, d, e) ==
    \/ (~c.ok \/ c.mem.q.human >= e) /\ d = c
    \/ /\ c.ok /\ c.mem.q.human < e
       /\ \E q \in Queue : /\ q.entries = c.mem.q.entries /\ q.sending = c.mem.q.sending
                           /\ q.epoch = c.mem.q.epoch /\ q.human = e
                           /\ Committed(c, d, q, "recovery")

LEMMA TakeOverIs ==
    ASSUME NEW c, NEW W, NEW A, NEW E, SoundCtx(c, W, A, E), NEW e \in Nat, e <= c.mem.q.epoch,
           NEW d, d = TakeOver(c, e)
    PROVE  SoundCtx(d, W, A, E) /\ TakenOver(c, d, e)
<1>0. c \in Ctx /\ c.mem.q \in Queue /\ c.mem.q.human \in Nat /\ c.ok \in BOOLEAN
  BY DEF SoundCtx, Ctx, Memory, Queue
<1>1. CASE ~c.ok \/ c.mem.q.human >= e
  BY <1>1 DEF TakeOver, TakenOver
<1>2. CASE c.ok /\ c.mem.q.human < e
  <2>0. ~(~c.ok \/ c.mem.q.human >= e)
    BY <1>0, <1>2
  <2>1. PICK q : q = [c.mem.q EXCEPT !.human = e]
    OBVIOUS
  <2>2. /\ q \in Queue /\ q.entries = c.mem.q.entries /\ q.sending = c.mem.q.sending
        /\ q.epoch = c.mem.q.epoch /\ q.human = e
    BY <1>0, <2>1 DEF Queue
  <2>3. PICK m, O, stored : m = c.mem /\ O = W \cup c.out /\ stored = c.disk.queue
    OBVIOUS
  <2>4. Storable(m, q, O, A, E)
    <3>1. /\ Sound(m, stored, O, A, E) /\ q.entries = m.q.entries /\ q.sending = m.q.sending
          /\ q.epoch = m.q.epoch /\ q.human <= q.epoch
      BY <2>2, <2>3 DEF SoundCtx
    <3> QED BY <2>2, <3>1, HumanStorable
  <2>5. PICK file : file = "recovery"
    OBVIOUS
  <2>6. d = Commit(c, q, file)
    BY <2>0, <2>1, <2>5 DEF TakeOver
  <2>7. Committed(c, d, q, file)
    BY <1>0, <2>2, <2>6, CommitIs
  <2>8. SoundCtx(d, W, A, E)
    <3>1. SoundCtx(c, W, A, E) /\ Storable(c.mem, q, W \cup c.out, A, E)
      BY <2>3, <2>4
    <3> QED BY ONLY <2>7, <3>1, CommitSound
  <2> QED BY <1>2, <2>2, <2>5, <2>7, <2>8 DEF TakenOver
<1> QED BY <1>0, <1>1, <1>2

\* d is c with the grant of start l.
Granted(c, d, l) ==
    /\ d \in Ctx
    /\ d.mem.up = c.mem.up /\ d.mem.inst = c.mem.inst /\ d.mem.seq = c.mem.seq /\ d.mem.link = c.mem.link
    /\ d.mem.q = c.mem.q /\ d.mem.bad = c.mem.bad /\ d.mem.open = c.mem.open
    /\ d.mem.grant.launch = l /\ d.mem.grant.known = {WireForm(b) : b \in Blocking(c.mem.q)}
    /\ d.disk = c.disk /\ d.minted = c.minted /\ d.out = c.out /\ d.made = c.made /\ d.alive = c.alive

LEMMA GrantIs ==
    ASSUME NEW c \in Ctx, NEW l \in Nat,
           NEW d, d = [c EXCEPT !.mem.grant = [launch |-> l, known |-> {WireForm(b) : b \in Blocking(c.mem.q)}]]
    PROVE  Granted(c, d, l)
<1>0. c.mem \in Memory /\ c.mem.q \in Queue
  BY DEF Ctx, Memory
<1>1. PICK known : known = {WireForm(b) : b \in Blocking(c.mem.q)}
  OBVIOUS
<1>2. known \subseteq Entry
  <2>1. \A b \in Blocking(c.mem.q) : b \in Entry
    BY <1>0, Kinds DEF Blocking, Entry
  <2>2. \A b \in Entry : WireForm(b) \in Entry
    BY SealedFormIs DEF WireForm, SealedForm
  <2> QED BY <1>1, <2>1, <2>2
<1>3. PICK g : g = [launch |-> l, known |-> known]
  OBVIOUS
<1>4. g \in Grants /\ g.launch = l /\ g.known = known
  BY <1>2, <1>3 DEF Grants
<1>5. PICK m : m = [c.mem EXCEPT !.grant = g]
  OBVIOUS
<1>6. /\ m \in Memory /\ m.up = c.mem.up /\ m.inst = c.mem.inst /\ m.seq = c.mem.seq /\ m.link = c.mem.link
      /\ m.q = c.mem.q /\ m.open = c.mem.open /\ m.bad = c.mem.bad /\ m.grant = g
  BY <1>0, <1>4, <1>5 DEF Memory
<1>7. d = [c EXCEPT !.mem = m]
  BY <1>1, <1>3, <1>5
<1>8. /\ d \in Ctx /\ d.mem = m /\ d.disk = c.disk /\ d.minted = c.minted /\ d.out = c.out /\ d.made = c.made
      /\ d.alive = c.alive
  BY <1>6, <1>7 DEF Ctx
<1> QED BY <1>1, <1>4, <1>6, <1>8 DEF Granted

\* d is c after the recovery of a human start, whose request was stored.
Recovered(c, a, l, e) ==
    \E r, t : /\ Resolved(c, r) /\ TakenOver(r, t, e)
              /\ \/ t.ok /\ a.answer = "admitted" /\ Granted(t, a.c, l)
                 \/ ~t.ok /\ a.answer = "storage_blocked" /\ Closed(t, a.c, {Request(l, c.mem.inst)})

\* c adopts epoch e in d.
Adopts(c, d, e) ==
    \/ e > c.mem.q.epoch /\ Committed(c, d, Adopted(c.mem.q, e), "queue")
    \/ e <= c.mem.q.epoch /\ d = c

\* What becomes of a start once the epoch is adopted.
Answered(c, a, l, human, e) ==
    \/ a.c = c /\ a.answer = "storage_blocked"
    \/ a.c = c /\ a.answer = "needs_manual" /\ ~human
    \/ \E o : /\ Opened(c, o, c.mem.open \cup {Request(l, c.mem.inst)})
              /\ human \/ ~RefusesAutomatic(c.mem)
              /\ \/ ~o.ok /\ a.c = o /\ a.answer = "storage_blocked" /\ o.mem.bad # Reliable
                 \/ o.ok /\ ~human /\ a.c = o /\ a.answer = "admitted"
                 \/ o.ok /\ human /\ Recovered(o, a, l, e)

\* The recovery of a human start.
LEMMA RecoverIs ==
    ASSUME NEW c, NEW W, NEW A, NEW E, SoundCtx(c, W, A, E), NEW e \in Nat, e <= c.mem.q.epoch,
           NEW l \in Launches, NEW i, i = c.mem.inst, NEW t, t = TakeOver(Resolve(c), e),
           NEW d, d = IF t.ok THEN [t EXCEPT !.mem.grant =
                              [launch |-> l, known |-> {WireForm(b) : b \in Blocking(t.mem.q)}]]
                      ELSE CloseOpen(t, {Request(l, i)}),
           NEW a, a.c = d, a.answer = IF t.ok THEN "admitted" ELSE "storage_blocked"
    PROVE  SoundCtx(d, W, A, E) /\ Recovered(c, a, l, e)
<1>1. PICK r : r = Resolve(c)
  OBVIOUS
<1>2. Resolved(c, r)
  BY <1>1, ResolveIs DEF SoundCtx
<1>3. Quiet(c, r)
  BY <1>2 DEF Resolved, Quiet
<1>4. SoundCtx(r, W, A, E) /\ e <= r.mem.q.epoch
  BY <1>3, QuietSound DEF Quiet
<1>5. SoundCtx(t, W, A, E) /\ TakenOver(r, t, e)
  BY <1>1, <1>4, TakeOverIs
<1>6. l \in Nat
  BY OutboxAssumption DEF Launches
<1>7. CASE t.ok
  <2>1. Granted(t, d, l)
    <3>1. t \in Ctx
      BY <1>5 DEF SoundCtx
    <3>2. d = [t EXCEPT !.mem.grant = [launch |-> l, known |-> {WireForm(b) : b \in Blocking(t.mem.q)}]]
      BY <1>7
    <3> QED BY ONLY <1>6, <3>1, <3>2, GrantIs
  <2>2. Quiet(t, d)
    BY <2>1 DEF Granted, Quiet
  <2>3. SoundCtx(d, W, A, E)
    BY <1>5, <2>2, QuietSound
  <2> QED BY <1>2, <1>5, <1>7, <2>1, <2>3 DEF Recovered
<1>8. CASE ~t.ok
  <2>1. PICK gone : gone = {Request(l, i)}
    OBVIOUS
  <2>2. Closed(t, d, gone)
    BY <1>5, <1>8, <2>1, CloseOpenIs DEF SoundCtx
  <2>3. Quiet(t, d)
    BY <2>2 DEF Closed, Steady, Quiet
  <2>4. SoundCtx(d, W, A, E)
    BY <1>5, <2>3, QuietSound
  <2> QED BY <1>2, <1>5, <1>8, <2>1, <2>2, <2>4 DEF Recovered
<1> QED BY <1>7, <1>8

\* admitServerStart
LEMMA AdmitIs ==
    ASSUME NEW c, NEW W, NEW A, NEW E \in Nat, SoundCtx(c, W, A, E), NEW e \in Nat, e <= E,
           NEW l \in Launches, NEW human \in BOOLEAN, NEW a, a = AdmitServerStart(c, l, human, e)
    PROVE  /\ SoundCtx(a.c, W, A, E)
           /\ \E d : SoundCtx(d, W, A, E) /\ Adopts(c, d, e) /\ Answered(d, a, l, human, e)
<1>0. c \in Ctx /\ c.mem.q \in Queue /\ c.mem.q.epoch \in Nat /\ c.mem \in Memory
  BY DEF SoundCtx, Ctx, Memory, Queue
<1>1. PICK d : d = IF e > c.mem.q.epoch THEN Commit(c, Adopted(c.mem.q, e), "queue") ELSE c
  OBVIOUS
<1>2. SoundCtx(d, W, A, E) /\ Adopts(c, d, e) /\ d.mem.inst = c.mem.inst /\ (d.ok => e <= d.mem.q.epoch)
  <2>1. CASE e > c.mem.q.epoch
    <3>1. PICK m, O, stored : m = c.mem /\ O = W \cup c.out /\ stored = c.disk.queue
      OBVIOUS
    <3>2. PICK q : q = Adopted(c.mem.q, e)
      OBVIOUS
    <3>3. Storable(m, q, O, A, E) /\ q.epoch = e
      <4>1. Sound(m, stored, O, A, E) /\ m.q.epoch <= e
        BY <1>0, <2>1, <3>1 DEF SoundCtx
      <4> QED BY <3>1, <3>2, <4>1, AdoptedStorable
    <3>4. q \in Queue
      BY <3>3 DEF Storable, Good, QueueOK
    <3>5. PICK file : file = "queue"
      OBVIOUS
    <3>6. d = Commit(c, q, file)
      BY <1>1, <2>1, <3>2, <3>5
    <3>7. Committed(c, d, q, file)
      BY <1>0, <3>4, <3>6, CommitIs
    <3>8. SoundCtx(d, W, A, E)
      <4>1. SoundCtx(c, W, A, E) /\ Storable(c.mem, q, W \cup c.out, A, E)
        BY <3>1, <3>3
      <4> QED BY ONLY <3>7, <4>1, CommitSound
    <3>9. d.mem.inst = c.mem.inst /\ (d.ok => e <= d.mem.q.epoch)
      BY <3>3, <3>7 DEF Committed, Steady
    <3> QED BY <2>1, <3>2, <3>5, <3>7, <3>8, <3>9 DEF Adopts
  <2>2. CASE ~(e > c.mem.q.epoch)
    BY <1>0, <1>1, <2>2 DEF Adopts
  <2> QED BY <2>1, <2>2
<1>3. d \in Ctx /\ d.mem \in Memory /\ d.mem.inst \in Positive /\ d.ok \in BOOLEAN /\ d.mem.open \subseteq Opens
  BY <1>2 DEF SoundCtx, Ctx, Memory
<1>4. PICK room, stays : room = CanAdmit(d.mem.q, c.mem.inst) /\ stays = RefusesAutomatic(d.mem)
  OBVIOUS
<1>5. PICK request : request = Request(l, c.mem.inst)
  OBVIOUS
<1>6. PICK o : o = WriteOpen(d, d.mem.open \cup {request}, TRUE)
  BY ZenonT(60)
<1>7. PICK t : t = TakeOver(Resolve(o), e)
  OBVIOUS
<1>8. CASE ~d.ok \/ ~CanAdmit(d.mem.q, c.mem.inst)
  <2>1. a = [c |-> d, answer |-> "storage_blocked"]
    BY ZenonT(60), <1>1, <1>8 DEF AdmitServerStart, Storage
  <2> QED BY <1>2, <2>1 DEF Answered
<1>9. CASE d.ok /\ CanAdmit(d.mem.q, c.mem.inst) /\ ~human /\ RefusesAutomatic(d.mem)
  <2>1. a = [c |-> d, answer |-> "needs_manual"]
    BY ZenonT(60), <1>1, <1>9 DEF AdmitServerStart
  <2> QED BY SMTT(60), <1>2, <1>9, <2>1 DEF Answered
<1>10. CASE d.ok /\ CanAdmit(d.mem.q, c.mem.inst) /\ ~(~human /\ RefusesAutomatic(d.mem))
  <2>1. PICK os : os = d.mem.open \cup {request}
    OBVIOUS
  <2>2. os \subseteq Opens
    BY <1>2, <1>3, <1>5, <2>1 DEF Request, Opens
  <2>3. PICK marks \in BOOLEAN : marks
    OBVIOUS
  <2>4. Opened(d, o, os) /\ (~o.ok => o.mem.bad # Reliable)
    <3>1. o = WriteOpen(d, os, marks)
      BY <1>6, <2>1, <2>3
    <3>2. d \in Ctx
      BY <1>3
    <3> QED BY ONLY <2>2, <2>3, <3>1, <3>2, WriteOpenIs
  <2>5. Quiet(d, o)
    BY <2>4 DEF Opened, Steady, Quiet
  <2>6. SoundCtx(o, W, A, E)
    BY <1>2, <2>5, QuietSound
  <2>11. Opened(d, o, d.mem.open \cup {Request(l, d.mem.inst)}) /\ (human \/ ~RefusesAutomatic(d.mem))
    BY <1>2, <1>5, <1>10, <2>1, <2>4
  <2>7. CASE ~o.ok
    <3>1. a = [c |-> o, answer |-> "storage_blocked"]
      BY ZenonT(60), <1>1, <1>5, <1>6, <1>10, <2>7 DEF AdmitServerStart, Storage
    <3>2. a.c = o /\ a.answer = "storage_blocked" /\ o.mem.bad # Reliable
      BY <2>4, <2>7, <3>1
    <3>3. Answered(d, a, l, human, e)
      BY <2>7, <2>11, <3>2 DEF Answered
    <3> QED BY SMTT(60), <1>2, <2>6, <3>2, <3>3
  <2>8. CASE o.ok /\ ~human
    <3>1. a = [c |-> o, answer |-> "admitted"]
      BY ZenonT(60), <1>1, <1>5, <1>6, <1>10, <2>8 DEF AdmitServerStart
    <3>2. a.c = o /\ a.answer = "admitted"
      BY <3>1
    <3>3. Answered(d, a, l, human, e)
      BY <2>8, <2>11, <3>2 DEF Answered
    <3> QED BY SMTT(60), <1>2, <2>6, <3>2, <3>3
  <2>9. CASE o.ok /\ human
    <3>1. PICK x : x = IF t.ok THEN [t EXCEPT !.mem.grant =
                              [launch |-> l, known |-> {WireForm(b) : b \in Blocking(t.mem.q)}]]
                      ELSE CloseOpen(t, {request})
      BY ZenonT(60)
    <3>2. a = IF t.ok THEN [c |-> x, answer |-> "admitted"] ELSE [c |-> x, answer |-> "storage_blocked"]
      BY ZenonT(60), <1>1, <1>5, <1>6, <1>7, <1>10, <2>9, <3>1 DEF AdmitServerStart, Storage
    <3>3. a.c = x /\ a.answer = IF t.ok THEN "admitted" ELSE "storage_blocked"
      BY <3>2
    <3>4. SoundCtx(x, W, A, E) /\ Recovered(o, a, l, e)
      <4>1. PICK i : i = o.mem.inst
        OBVIOUS
      <4>2. i = c.mem.inst
        BY <1>2, <2>4, <4>1 DEF Opened, Steady
      <4>3. e <= o.mem.q.epoch
        BY <1>2, <1>10, <2>5 DEF Quiet
      <4>4. x = IF t.ok THEN [t EXCEPT !.mem.grant =
                              [launch |-> l, known |-> {WireForm(b) : b \in Blocking(t.mem.q)}]]
                      ELSE CloseOpen(t, {Request(l, i)})
        BY <1>5, <3>1, <4>2
      <4>5. l \in Launches /\ e \in Nat
        OBVIOUS
      <4> QED BY ONLY <1>7, <2>6, <3>3, <4>1, <4>3, <4>4, <4>5, RecoverIs
    <3>5. Answered(d, a, l, human, e)
      BY <2>9, <2>11, <3>4 DEF Answered
    <3> QED BY <1>2, <3>3, <3>4, <3>5
  <2>10. o.ok \in BOOLEAN
    BY <2>6 DEF SoundCtx, Ctx
  <2> QED BY <2>7, <2>8, <2>9, <2>10
<1> QED BY <1>3, <1>8, <1>9, <1>10

-----------------------------------------------------------------------------
\* load

\* What every part of load leaves alone, but for a new marker.
LoadKeeps(c, d) ==
    /\ d \in Ctx
    /\ d.mem.up = c.mem.up /\ d.mem.inst = c.mem.inst /\ d.mem.seq = c.mem.seq /\ d.mem.link = c.mem.link
    /\ d.mem.grant = c.mem.grant
    /\ d.disk.resolution = c.disk.resolution
    /\ d.out = c.out /\ d.made = c.made
    /\ c.minted <= d.minted

NewMarker(c, d) ==
    d.disk.marker = c.disk.marker \/ (c.minted < d.disk.marker /\ d.disk.marker <= d.minted)

LoadedQueue(c, d) ==
    /\ LoadKeeps(c, d) /\ d.mem.open = c.mem.open /\ d.disk.open = c.disk.open /\ ~d.disk.damaged
    /\ \/ /\ c.disk.damaged /\ d.mem.q = c.mem.q /\ d.disk.queue = EmptyQueue
          /\ d.disk.aside = c.disk.aside \cup {c.mem.inst}
          /\ MarkedBad(c, d) /\ NewMarker(c, d) /\ d.mem.bad # Reliable
       \/ /\ ~c.disk.damaged /\ d.mem.q = c.disk.queue /\ d.disk = c.disk /\ d.mem.bad = c.mem.bad

LoadedMarker(c, d) ==
    /\ LoadKeeps(c, d) /\ d.mem.open = c.mem.open /\ d.mem.q = c.mem.q
    /\ d.disk.queue = c.disk.queue /\ d.disk.open = c.disk.open /\ d.disk.damaged = c.disk.damaged
    /\ d.disk.aside = c.disk.aside
    /\ \/ c.disk.marker = 0 /\ d = c
       \/ c.disk.marker = c.disk.resolution.marker /\ d.disk.marker = 0 /\ d.mem.bad = c.mem.bad
       \/ /\ c.disk.marker \notin {0, c.disk.resolution.marker}
          /\ \/ c.mem.bad = Reliable /\ d.mem.bad = c.disk.marker /\ d.disk.marker = c.disk.marker
             \/ MarkedBad(c, d) /\ NewMarker(c, d) /\ d.mem.bad # Reliable

LoadedOpen(c, d) ==
    /\ LoadKeeps(c, d) /\ d.mem.q = c.mem.q
    /\ d.disk.queue = c.disk.queue /\ d.disk.damaged = c.disk.damaged /\ d.disk.aside = c.disk.aside
    /\ d.mem.open = c.disk.open \ c.disk.resolution.open
    /\ d.disk.open \in {c.disk.open, d.mem.open}
    /\ MarkedBad(c, d) /\ NewMarker(c, d)
    /\ d.mem.open # {} \/ c.mem.bad # Reliable => d.mem.bad # Reliable

LoadedAside(c, d) ==
    /\ LoadKeeps(c, d) /\ d.mem.q = c.mem.q /\ d.mem.open = c.mem.open
    /\ d.disk.queue = c.disk.queue /\ d.disk.damaged = c.disk.damaged /\ d.disk.open = c.disk.open
    /\ d.disk.aside = c.disk.aside \ c.disk.resolution.aside
    /\ MarkedBad(c, d) /\ NewMarker(c, d)
    /\ d.disk.aside # {} \/ c.mem.bad # Reliable => d.mem.bad # Reliable

LEMMA LoadQueueIs ==
    ASSUME NEW c \in Ctx, NEW d, d = LoadQueue(c)
    PROVE  LoadedQueue(c, d)
<1>0. c.mem \in Memory /\ c.disk \in Files /\ c.minted \in Nat /\ c.mem.inst \in Positive /\ c.disk.queue \in Queue
  BY DEF Ctx, Memory, Files
<1>1. CASE c.disk.damaged
  <2>1. PICK F : F = [c.disk EXCEPT !.damaged = FALSE, !.queue = EmptyQueue, !.aside = @ \cup {c.mem.inst}]
    OBVIOUS
  <2>2. EmptyQueue \in Queue
    BY EmptyIsOK DEF QueueOK
  <2>3. /\ F \in Files /\ F.damaged = FALSE /\ F.queue = EmptyQueue /\ F.aside = c.disk.aside \cup {c.mem.inst}
        /\ F.open = c.disk.open /\ F.marker = c.disk.marker /\ F.resolution = c.disk.resolution
    BY <1>0, <2>1, <2>2 DEF Files
  <2>4. PICK b : b = [c EXCEPT !.disk = F]
    OBVIOUS
  <2>5. /\ b \in Ctx /\ b.mem = c.mem /\ b.disk = F /\ b.minted = c.minted /\ b.out = c.out /\ b.made = c.made
    BY <2>3, <2>4 DEF Ctx
  <2>6. b = [c EXCEPT !.disk.damaged = FALSE, !.disk.queue = EmptyQueue, !.disk.aside = @ \cup {c.mem.inst}]
    BY <1>0, <2>1, <2>4 DEF Ctx
  <2>7. d = MarkUnreliable(b)
    BY <1>1, <2>6 DEF LoadQueue
  <2>8. Marks(b, d) /\ MarkedBad(b, d) /\ d.mem.bad # Reliable
    BY <2>5, <2>7, MarkUnreliableIs DEF MarkedBad
  <2>9. MarkedBad(c, d)
    BY <2>3, <2>5, <2>8 DEF MarkedBad
  <2>10. LoadKeeps(c, d) /\ NewMarker(c, d)
    BY <2>3, <2>5, <2>8 DEF Marks, LoadKeeps, NewMarker
  <2>11. /\ d.mem.open = c.mem.open /\ d.disk.open = c.disk.open /\ ~d.disk.damaged
         /\ d.mem.q = c.mem.q /\ d.disk.queue = EmptyQueue /\ d.disk.aside = c.disk.aside \cup {c.mem.inst}
    BY <2>3, <2>5, <2>8 DEF Marks
  <2> QED BY <1>1, <2>8, <2>9, <2>10, <2>11 DEF LoadedQueue
<1>2. CASE ~c.disk.damaged
  <2>1. PICK m : m = [c.mem EXCEPT !.q = c.disk.queue]
    OBVIOUS
  <2>2. /\ m \in Memory /\ m.up = c.mem.up /\ m.inst = c.mem.inst /\ m.seq = c.mem.seq /\ m.link = c.mem.link
        /\ m.q = c.disk.queue /\ m.open = c.mem.open /\ m.grant = c.mem.grant /\ m.bad = c.mem.bad
    BY <1>0, <2>1 DEF Memory
  <2>3. d = [c EXCEPT !.mem = m]
    BY <1>2, <2>1 DEF LoadQueue
  <2>4. /\ d \in Ctx /\ d.mem = m /\ d.disk = c.disk /\ d.minted = c.minted /\ d.out = c.out /\ d.made = c.made
    BY <2>2, <2>3 DEF Ctx
  <2> QED BY <1>0, <1>2, <2>2, <2>4 DEF LoadedQueue, LoadKeeps
<1> QED BY <1>1, <1>2

LEMMA LoadMarkerIs ==
    ASSUME NEW c \in Ctx, NEW d, d = LoadMarker(c)
    PROVE  LoadedMarker(c, d)
<1>0. /\ c.mem \in Memory /\ c.disk \in Files /\ c.minted \in Nat /\ c.disk.marker \in Nat /\ Reliable \notin Nat
      /\ c.disk.resolution.marker \in Nat
  BY DEF Ctx, Memory, Files, Resolutions, Reliable
<1>1. CASE c.disk.marker = 0
  <2>1. d = c
    BY <1>1 DEF LoadMarker
  <2> QED BY <1>0, <1>1, <2>1 DEF LoadedMarker, LoadKeeps
<1>2. CASE c.disk.marker # 0 /\ c.disk.marker = c.disk.resolution.marker
  <2>1. PICK F : F = [c.disk EXCEPT !.marker = 0]
    OBVIOUS
  <2>2. /\ F \in Files /\ F.damaged = c.disk.damaged /\ F.queue = c.disk.queue /\ F.aside = c.disk.aside
        /\ F.open = c.disk.open /\ F.marker = 0 /\ F.resolution = c.disk.resolution
    BY <1>0, <2>1 DEF Files
  <2>3. d = [c EXCEPT !.disk = F]
    BY <1>2, <2>1 DEF LoadMarker
  <2>4. /\ d \in Ctx /\ d.mem = c.mem /\ d.disk = F /\ d.minted = c.minted /\ d.out = c.out /\ d.made = c.made
    BY <2>2, <2>3 DEF Ctx
  <2> QED BY <1>0, <1>2, <2>2, <2>4 DEF LoadedMarker, LoadKeeps
<1>3. CASE c.disk.marker \notin {0, c.disk.resolution.marker} /\ c.mem.bad = Reliable
  <2>1. PICK m : m = [c.mem EXCEPT !.bad = c.disk.marker]
    OBVIOUS
  <2>2. /\ m \in Memory /\ m.up = c.mem.up /\ m.inst = c.mem.inst /\ m.seq = c.mem.seq /\ m.link = c.mem.link
        /\ m.q = c.mem.q /\ m.open = c.mem.open /\ m.grant = c.mem.grant /\ m.bad = c.disk.marker
    BY <1>0, <2>1 DEF Memory
  <2>3. d = [c EXCEPT !.mem = m]
    BY <1>3, <2>1 DEF LoadMarker
  <2>4. /\ d \in Ctx /\ d.mem = m /\ d.disk = c.disk /\ d.minted = c.minted /\ d.out = c.out /\ d.made = c.made
    BY <2>2, <2>3 DEF Ctx
  <2> QED BY <1>0, <1>3, <2>2, <2>4 DEF LoadedMarker, LoadKeeps
<1>4. CASE c.disk.marker \notin {0, c.disk.resolution.marker} /\ c.mem.bad # Reliable
  <2>1. d = MarkUnreliable(c)
    BY <1>4 DEF LoadMarker
  <2>2. Marks(c, d) /\ MarkedBad(c, d) /\ d.mem.bad # Reliable
    BY <2>1, MarkUnreliableIs DEF MarkedBad
  <2>3. LoadKeeps(c, d) /\ NewMarker(c, d)
    BY <2>2 DEF Marks, LoadKeeps, NewMarker
  <2> QED BY <1>4, <2>2, <2>3 DEF LoadedMarker, Marks
<1> QED BY <1>0, <1>1, <1>2, <1>3, <1>4

LEMMA LoadOpenIs ==
    ASSUME NEW c \in Ctx, NEW d, d = LoadOpen(c)
    PROVE  LoadedOpen(c, d)
<1>0. c.mem \in Memory /\ c.disk \in Files /\ c.minted \in Nat /\ c.disk.open \subseteq Opens
  BY DEF Ctx, Memory, Files
<1>1. PICK kept : kept = c.disk.open \ c.disk.resolution.open /\ kept \subseteq Opens
  BY <1>0
<1>2. PICK m : m = [c.mem EXCEPT !.open = kept]
  OBVIOUS
<1>3. /\ m \in Memory /\ m.up = c.mem.up /\ m.inst = c.mem.inst /\ m.seq = c.mem.seq /\ m.link = c.mem.link
      /\ m.q = c.mem.q /\ m.open = kept /\ m.grant = c.mem.grant /\ m.bad = c.mem.bad
  BY <1>0, <1>1, <1>2 DEF Memory
<1>4. PICK held : held = [c EXCEPT !.mem = m]
  OBVIOUS
<1>5. /\ held \in Ctx /\ held.mem = m /\ held.disk = c.disk /\ held.minted = c.minted /\ held.out = c.out
      /\ held.made = c.made
  BY <1>3, <1>4 DEF Ctx
<1>6. held = [c EXCEPT !.mem.open = kept]
  BY <1>2, <1>4
<1>7. PICK x : x = IF kept = c.disk.open THEN held ELSE [WriteOpen(held, kept, FALSE) EXCEPT !.mem.open = kept]
  OBVIOUS
<1>8. d = IF kept = {} THEN x ELSE MarkUnreliable(x)
  BY <1>1, <1>6, <1>7 DEF LoadOpen
<1>9. /\ LoadKeeps(c, x) /\ x.mem.q = c.mem.q /\ x.disk.queue = c.disk.queue /\ x.disk.damaged = c.disk.damaged
      /\ x.disk.aside = c.disk.aside /\ x.mem.open = kept /\ x.disk.open \in {c.disk.open, kept}
      /\ x.mem.bad = c.mem.bad /\ x.disk.marker = c.disk.marker
  <2>1. CASE kept = c.disk.open
    <3>1. x = held
      BY <1>7, <2>1
    <3> QED BY <1>0, <1>3, <1>5, <3>1 DEF LoadKeeps
  <2>2. CASE kept # c.disk.open
    <3>1. PICK marks \in BOOLEAN : ~marks
      OBVIOUS
    <3>2. PICK w : w = WriteOpen(held, kept, marks)
      OBVIOUS
    <3>3. Opened(held, w, kept) /\ w.mem.bad = held.mem.bad /\ w.disk.marker = held.disk.marker
      BY ONLY <1>1, <1>5, <3>1, <3>2, WriteOpenIs
    <3>4. x = [w EXCEPT !.mem.open = kept]
      BY <1>7, <2>2, <3>1, <3>2
    <3>5. PICK k : k = [w.mem EXCEPT !.open = kept]
      OBVIOUS
    <3>6. w \in Ctx /\ w.mem \in Memory
      BY <3>3 DEF Opened, Steady, Ctx
    <3>7. /\ k \in Memory /\ k.up = w.mem.up /\ k.inst = w.mem.inst /\ k.seq = w.mem.seq /\ k.link = w.mem.link
          /\ k.q = w.mem.q /\ k.open = kept /\ k.grant = w.mem.grant /\ k.bad = w.mem.bad
      BY <1>1, <3>5, <3>6 DEF Memory
    <3>8. x = [w EXCEPT !.mem = k]
      BY <3>4, <3>5
    <3>9. /\ x \in Ctx /\ x.mem = k /\ x.disk = w.disk /\ x.minted = w.minted /\ x.out = w.out /\ x.made = w.made
      BY <3>6, <3>7, <3>8 DEF Ctx
    <3>10. LoadKeeps(c, x)
      BY <1>3, <1>5, <3>3, <3>7, <3>9 DEF Opened, Steady, LoadKeeps
    <3>11. /\ x.mem.q = c.mem.q /\ x.disk.queue = c.disk.queue /\ x.disk.damaged = c.disk.damaged
           /\ x.disk.aside = c.disk.aside /\ x.disk.open \in {c.disk.open, kept}
           /\ x.mem.bad = c.mem.bad /\ x.disk.marker = c.disk.marker
      BY <1>3, <1>5, <3>3, <3>7, <3>9 DEF Opened, Steady
    <3> QED BY <3>7, <3>9, <3>10, <3>11
  <2> QED BY <2>1, <2>2
<1>10. x \in Ctx /\ x.minted \in Nat
  BY <1>9 DEF LoadKeeps, Ctx
<1>11. CASE kept = {}
  <2>1. d = x
    BY <1>8, <1>11
  <2>2. MarkedBad(c, d) /\ NewMarker(c, d)
    BY <1>9, <2>1 DEF MarkedBad, NewMarker
  <2> QED BY <1>1, <1>9, <1>11, <2>1, <2>2 DEF LoadedOpen
<1>12. CASE kept # {}
  <2>1. d = MarkUnreliable(x)
    BY <1>8, <1>12
  <2>2. Marks(x, d) /\ MarkedBad(x, d) /\ d.mem.bad # Reliable
    BY <1>10, <2>1, MarkUnreliableIs DEF MarkedBad
  <2>3. d.minted \in Nat /\ d.disk.marker \in Nat /\ c.minted <= x.minted
    BY <1>9, <2>2 DEF Marks, Ctx, Files, LoadKeeps
  <2>4. LoadKeeps(c, d) /\ NewMarker(c, d)
    BY <1>0, <1>9, <1>10, <2>2, <2>3 DEF Marks, LoadKeeps, NewMarker
  <2>5. MarkedBad(c, d)
    BY <1>0, <1>9, <1>10, <2>2, <2>3 DEF MarkedBad
  <2> QED BY <1>1, <1>9, <2>2, <2>4, <2>5 DEF LoadedOpen, Marks
<1> QED BY <1>11, <1>12

LEMMA LoadAsideIs ==
    ASSUME NEW c \in Ctx, NEW d, d = LoadAside(c)
    PROVE  LoadedAside(c, d)
<1>0. c.mem \in Memory /\ c.disk \in Files /\ c.minted \in Nat
  BY DEF Ctx
<1>1. PICK left : left = c.disk.aside \ c.disk.resolution.aside
  OBVIOUS
<1>2. PICK F : F = [c.disk EXCEPT !.aside = left]
  OBVIOUS
<1>3. /\ F \in Files /\ F.damaged = c.disk.damaged /\ F.queue = c.disk.queue /\ F.aside = left
      /\ F.open = c.disk.open /\ F.marker = c.disk.marker /\ F.resolution = c.disk.resolution
  BY <1>0, <1>1, <1>2 DEF Files
<1>4. PICK x : x = [c EXCEPT !.disk = F]
  OBVIOUS
<1>5. /\ x \in Ctx /\ x.mem = c.mem /\ x.disk = F /\ x.minted = c.minted /\ x.out = c.out /\ x.made = c.made
  BY <1>3, <1>4 DEF Ctx
<1>6. x = [c EXCEPT !.disk.aside = left]
  BY <1>2, <1>4
<1>7. d = IF left = {} THEN x ELSE MarkUnreliable(x)
  BY <1>1, <1>6 DEF LoadAside
<1>8. CASE left = {}
  <2>1. d = x
    BY <1>7, <1>8
  <2>2. MarkedBad(c, d) /\ NewMarker(c, d) /\ LoadKeeps(c, d)
    BY <1>0, <1>3, <1>5, <2>1 DEF MarkedBad, NewMarker, LoadKeeps
  <2> QED BY <1>1, <1>3, <1>5, <1>8, <2>1, <2>2 DEF LoadedAside
<1>9. CASE left # {}
  <2>1. d = MarkUnreliable(x)
    BY <1>7, <1>9
  <2>2. Marks(x, d) /\ MarkedBad(x, d) /\ d.mem.bad # Reliable
    BY <1>5, <2>1, MarkUnreliableIs DEF MarkedBad
  <2>3. LoadKeeps(c, d) /\ NewMarker(c, d)
    BY <1>3, <1>5, <2>2 DEF Marks, LoadKeeps, NewMarker
  <2>4. MarkedBad(c, d)
    BY <1>3, <1>5, <2>2 DEF MarkedBad
  <2> QED BY <1>1, <1>3, <1>5, <2>2, <2>3, <2>4 DEF LoadedAside, Marks
<1> QED BY <1>8, <1>9

\* b is c with the memory of a new instance.
Rebooted(c, b) ==
    /\ b \in Ctx
    /\ b.mem.up /\ b.mem.inst = c.mem.inst + 1 /\ b.mem.seq = 0 /\ b.mem.q = EmptyQueue
    /\ b.mem.bad = Reliable /\ b.mem.open = {} /\ b.mem.grant = NoGrant
    /\ b.disk = c.disk /\ b.minted = c.minted /\ b.out = c.out /\ b.made = c.made

Loaded(c, d) ==
    \E b, x, y, z : /\ Rebooted(c, b) /\ LoadedQueue(b, x) /\ LoadedMarker(x, y)
                    /\ LoadedOpen(y, z) /\ LoadedAside(z, d)

LEMMA RebootedIs ==
    ASSUME NEW c \in Ctx, NEW b, b = [c EXCEPT !.mem = FreshMemory(@.inst + 1)]
    PROVE  Rebooted(c, b)
<1>1. PICK i : i = c.mem.inst + 1 /\ i \in Positive
  BY DEF Ctx, Memory, Positive
<1>2. PICK q, g : q = EmptyQueue /\ g = NoGrant
  OBVIOUS
<1>3. q \in Queue /\ g \in Grants
  BY <1>2, EmptyIsOK DEF QueueOK, Grants, NoGrant
<1>4. PICK m : m = FreshMemory(i)
  OBVIOUS
<1>5. m \in Memory /\ m.up /\ m.inst = i /\ m.seq = 0 /\ m.q = q /\ m.bad = Reliable /\ m.open = {} /\ m.grant = g
  BY <1>1, <1>2, <1>3, <1>4 DEF FreshMemory, Memory
<1>6. b = [c EXCEPT !.mem = m]
  BY <1>1, <1>4
<1>7. b \in Ctx /\ b.mem = m /\ b.disk = c.disk /\ b.minted = c.minted /\ b.out = c.out /\ b.made = c.made
  BY <1>5, <1>6 DEF Ctx
<1> QED BY <1>1, <1>2, <1>5, <1>7 DEF Rebooted

\* A daemon whose memory is empty.
LEMMA EmptySound ==
    ASSUME NEW m, NEW stored, NEW O, NEW A, NEW E \in Nat, Sound(m, stored, O, A, E),
           NEW k \in Memory, k.q = EmptyQueue,
           (k.inst = m.inst /\ ~k.up) \/ k.inst = m.inst + 1
    PROVE  Sound(k, stored, O, A, E)
<1>0. m.inst \in Nat /\ k.inst \in Nat /\ stored \in Queue /\ m.q \in Queue
  BY OutFixed DEF Sound, Memory, Positive
<1>1. ASSUME NEW x \in Frames, BoundBy(x, m)
      PROVE  BoundBy(x, k) /\ (k.up => x[1] # k.inst)
  <2>1. x[1] \in Nat
    BY DEF Frames, Positive
  <2> QED BY <1>0, <1>1, <2>1 DEF BoundBy
<1>2. InFlight(k.q) = {} /\ Evidence(k.q) = {} /\ QueueOK(k.q, O \cup InFlight(k.q), A)
  <2>1. PICK q, W : q = EmptyQueue /\ W = O \cup InFlight(k.q)
    OBVIOUS
  <2>2. QueueOK(q, W, A) /\ InFlight(q) = {} /\ Evidence(q) = {}
    BY <2>1, EmptyIsOK
  <2> QED BY <2>1, <2>2
<1>3. Fits(k.q, E)
  <2>1. /\ MarkerCaps(EmptyQueue) /\ EmptyQueue.epoch = 0 /\ EmptyQueue.human = 0
        /\ Cardinality(Normals(EmptyQueue)) <= NormalCap
    BY EmptyIsOK
  <2> QED BY <2>1 DEF Fits
<1>4. QueueOK(stored, O \cup InFlight(k.q), A)
  <2>1. PICK V, W : V = O \cup InFlight(k.q) /\ W = O \cup InFlight(m.q)
    OBVIOUS
  <2>2. QueueOK(stored, W, A) /\ V \subseteq W
    BY <1>2, <2>1 DEF Sound, Good
  <2>3. QueueOK(stored, V, A)
    BY <2>2, QueueWeaker
  <2> QED BY <2>1, <2>3
<1>5. Good(stored, k, O, A, E)
  <2>1. \A x \in Evidence(stored) : BoundBy(x, k)
    BY <1>0, <1>1, EvidenceFrames DEF Sound, Good
  <2> QED BY <1>4, <2>1 DEF Sound, Good
<1>6. SentOK(k, O, A)
  <2>1. \A w \in O : Origin(w) \in Frames /\ BoundBy(Origin(w), m)
    BY EntryShape DEF Sound, SentOK
  <2>2. \A w \in O : BoundBy(Origin(w), k) /\ (k.up => Origin(w)[1] # k.inst)
    BY <1>1, <2>1
  <2>3. ASSUME NEW w \in O, w.t = "normal" PROVE Origin(w)[1] = w.inst
    BY <2>3 DEF Origin
  <2> QED BY <2>2, <2>3 DEF Sound, SentOK
<1> QED BY <1>2, <1>3, <1>5, <1>6 DEF Sound, Good

\* load
LEMMA LoadIs ==
    ASSUME NEW c, NEW W, NEW A, NEW E \in Nat, SoundCtx(c, W, A, E), NEW d, d = Load(c)
    PROVE  SoundCtx(d, W, A, E) /\ Loaded(c, d)
<1>0. c \in Ctx
  BY DEF SoundCtx
<1>1. PICK b : b = [c EXCEPT !.mem = FreshMemory(@.inst + 1)]
  OBVIOUS
<1>2. Rebooted(c, b)
  BY <1>0, <1>1, RebootedIs
<1>3. PICK x : x = LoadQueue(b)
  OBVIOUS
<1>4. LoadedQueue(b, x)
  BY <1>2, <1>3, LoadQueueIs DEF Rebooted
<1>5. PICK y : y = LoadMarker(x)
  OBVIOUS
<1>6. LoadedMarker(x, y)
  BY <1>4, <1>5, LoadMarkerIs DEF LoadedQueue, LoadKeeps
<1>7. PICK z : z = LoadOpen(y)
  OBVIOUS
<1>8. LoadedOpen(y, z)
  BY <1>6, <1>7, LoadOpenIs DEF LoadedMarker, LoadKeeps
<1>9. d = LoadAside(z)
  BY <1>1, <1>3, <1>5, <1>7 DEF Load
<1>10. LoadedAside(z, d)
  BY <1>8, <1>9, LoadAsideIs DEF LoadedOpen, LoadKeeps
<1>11. SoundCtx(x, W, A, E)
  <2>1. PICK m, k, n : m = c.mem /\ k = b.mem /\ n = x.mem
    OBVIOUS
  <2>2. PICK O, stored, kept : O = W \cup c.out /\ stored = c.disk.queue /\ kept = x.disk.queue
    OBVIOUS
  <2>3. /\ k \in Memory /\ k.up /\ k.q = EmptyQueue /\ k.inst = m.inst + 1 /\ b.out = c.out
        /\ b.disk = c.disk
    BY <1>2, <2>1 DEF Rebooted, Ctx
  <2>4. Sound(k, stored, O, A, E)
    <3>1. Sound(m, stored, O, A, E)
      BY <2>1, <2>2 DEF SoundCtx
    <3> QED BY <2>3, <3>1, EmptySound
  <2>5. n \in Memory /\ n.up = k.up /\ n.inst = k.inst /\ n.seq = k.seq /\ x.out = b.out /\ x \in Ctx
    BY <1>4, <2>1 DEF LoadedQueue, LoadKeeps, Ctx
  <2>6. (n.q = k.q /\ kept = k.q) \/ (n.q = stored /\ kept = stored)
    <3>1. \/ x.mem.q = b.mem.q /\ x.disk.queue = EmptyQueue
          \/ x.mem.q = b.disk.queue /\ x.disk = b.disk
      BY <1>4 DEF LoadedQueue
    <3> QED BY ONLY <2>1, <2>2, <2>3, <3>1
  <2>7. Storable(k, k.q, O, A, E) /\ Storable(k, stored, O, A, E)
    <3>1. InFlight(k.q) = {}
      BY <2>3, EmptyIsOK
    <3> QED BY <2>4, <3>1 DEF Sound, Storable, KeepsFlight
  <2>8. Sound(n, kept, O, A, E)
    <3>1. CASE n.q = k.q /\ kept = k.q
      <4>1. PICK q : q = k.q
        OBVIOUS
      <4>2. Storable(k, q, O, A, E) /\ n.q = q /\ kept = q
        BY <2>7, <3>1, <4>1
      <4> QED BY <2>4, <2>5, <4>2, StoreSound
    <3>2. CASE n.q = stored /\ kept = stored
      BY <2>4, <2>5, <2>7, <3>2, StoreSound
    <3> QED BY <2>6, <3>1, <3>2
  <2> QED BY <2>1, <2>2, <2>3, <2>5, <2>8 DEF SoundCtx
<1>12. Quiet(x, y) /\ Quiet(y, z) /\ Quiet(z, d)
  BY <1>6, <1>8, <1>10 DEF LoadedMarker, LoadedOpen, LoadedAside, LoadKeeps, Quiet
<1>13. SoundCtx(y, W, A, E)
  BY <1>11, <1>12, QuietSound
<1>14. SoundCtx(z, W, A, E)
  BY <1>12, <1>13, QuietSound
<1>15. SoundCtx(d, W, A, E)
  BY <1>12, <1>14, QuietSound
<1> QED BY <1>2, <1>4, <1>6, <1>8, <1>10, <1>15 DEF Loaded

-----------------------------------------------------------------------------
\* The actions.

Statuses == {"none", "over", "rebound"} \cup Waiting

\* Frames the server applied, or that a direct refusal overtook.
Judged == applied \cup Overtaken

\* Direct refusals the server applied.
Landed == direct \cap applied

\* A mark comes from an entry W that was sent or from a direct refusal R, and
\* what the server acknowledged it has seen.
ServerOK(W, R, ids, marks, A, T) ==
    /\ \A i \in 1..MaxInstance :
           marks[i] # 0 => /\ <<i, marks[i]>> \in A
                           /\ \/ <<i, marks[i]>> \in R
                              \/ \E w \in W : w.t = "normal" /\ Origin(w) = <<i, marks[i]>>
    /\ \A id \in ids : \E w \in W : /\ Id(w) = id
                                    /\ w.t = "normal" => Origin(w) \in A
                                    /\ w.t # "normal" => w.frames \subseteq T

Types ==
    /\ mem \in Memory /\ mem.inst <= MaxInstance /\ disk \in Files /\ minted \in Nat /\ epoch \in Nat
    /\ launch \in [Launches -> Statuses] /\ mark \in [1..MaxInstance -> Nat] /\ applied \subseteq Frames
    /\ direct \subseteq (1..MaxInstance) \X Positive

\* The inductive invariant of delivery.
Delivery ==
    /\ Types /\ Sound(mem, disk.queue, wire, Judged, epoch)
    /\ ServerOK(wire, Landed, acks, mark, Judged, told)

\* A handler begins in context c.
Begins(c) ==
    c \in Ctx /\ c.mem = mem /\ c.disk = disk /\ c.minted = minted /\ c.out = {} /\ c.made = {} /\ c.alive /\ c.ok

LEMMA ContextBegins ==
    ASSUME Delivery, NEW f \in PossibleFaults
    PROVE  Begins(Context(f)) /\ SoundCtx(Context(f), wire, Judged, epoch)
<1>1. f \in FaultKinds
  <2>1. NoFault \in FaultKinds
    BY DEF NoFault, FaultKinds
  <2>2. [at : 1..6, how : {"fail", "torn"}, lasting : BOOLEAN] \subseteq FaultKinds
    BY DEF FaultKinds
  <2>3. [at : 1..6, how : {"crash"}, lasting : {TRUE}] \subseteq FaultKinds
    <3>1. PICK T : T = {TRUE}
      OBVIOUS
    <3>2. PICK H : H = {"crash"}
      OBVIOUS
    <3>3. T \subseteq BOOLEAN /\ H \subseteq {"fail", "torn", "crash"}
      BY <3>1, <3>2
    <3>4. [at : 1..6, how : H, lasting : T] \subseteq FaultKinds
      <4>1. PICK N, K : N = 1..6 /\ K = {"fail", "torn", "crash"}
        OBVIOUS
      <4>2. N \subseteq 0..6 /\ H \subseteq K /\ T \subseteq BOOLEAN
        BY <3>3, <4>1
      <4>3. [at : N, how : H, lasting : T] \subseteq [at : 0..6, how : K, lasting : BOOLEAN]
        BY <4>2
      <4> QED BY <4>1, <4>3 DEF FaultKinds
    <3> QED BY <3>1, <3>2, <3>4
  <2>4. f \in {NoFault} \cup Faults
    BY DEF PossibleFaults
  <2> QED BY <2>1, <2>2, <2>3, <2>4 DEF Faults
<1>2. PICK c : c = Context(f)
  OBVIOUS
<1>3. Begins(c)
  BY <1>1, <1>2 DEF Context, Begins, Ctx, Delivery, Types
<1>4. wire \cup c.out = wire
  BY <1>3 DEF Begins
<1>5. SoundCtx(c, wire, Judged, epoch)
  BY <1>3, <1>4 DEF SoundCtx, Begins, Delivery
<1> QED BY <1>2, <1>3, <1>5

\* The memory a crash leaves.
LEMMA DownIs ==
    ASSUME NEW m \in Memory, NEW k, k = [FreshMemory(m.inst) EXCEPT !.up = FALSE]
    PROVE  /\ k \in Memory /\ ~k.up /\ k.inst = m.inst /\ k.q = EmptyQueue /\ k.bad = Reliable
           /\ k.open = {} /\ k.grant = NoGrant
<1>1. PICK i : i = m.inst /\ i \in Positive
  BY DEF Memory
<1>2. PICK q, g : q = EmptyQueue /\ g = NoGrant
  OBVIOUS
<1>3. q \in Queue /\ g \in Grants
  BY <1>2, EmptyIsOK DEF QueueOK, Grants, NoGrant
<1>4. PICK n : n = FreshMemory(i)
  OBVIOUS
<1>5. n \in Memory /\ n.inst = i /\ n.q = q /\ n.bad = Reliable /\ n.open = {} /\ n.grant = g
  BY <1>1, <1>2, <1>3, <1>4 DEF FreshMemory, Memory
<1>6. k = [n EXCEPT !.up = FALSE]
  BY <1>1, <1>4
<1> QED BY <1>1, <1>2, <1>5, <1>6 DEF Memory

LEMMA ContextIs ==
    ASSUME Delivery, NEW f \in PossibleFaults, NEW c, c = Context(f)
    PROVE  Begins(c) /\ SoundCtx(c, wire, Judged, epoch) /\ c.mem.inst <= MaxInstance
<1>1. Begins(c) /\ SoundCtx(c, wire, Judged, epoch)
  BY ContextBegins
<1> QED BY <1>1 DEF Begins, Delivery, Types

\* More is applied, and the epoch is later.
LEMMA SoundLater ==
    ASSUME NEW m, NEW stored, NEW O, NEW A, NEW E \in Nat, Sound(m, stored, O, A, E),
           NEW B, A \subseteq B, NEW F \in Nat, E <= F
    PROVE  Sound(m, stored, O, B, F)
<1>1. ASSUME NEW q, Good(q, m, O, A, E) PROVE Good(q, m, O, B, F)
  <2>1. PICK W : W = O \cup InFlight(m.q)
    OBVIOUS
  <2>2. QueueOK(q, W, A)
    BY <1>1, <2>1 DEF Good
  <2>3. QueueOK(q, W, B)
    <3>1. W \subseteq W
      OBVIOUS
    <3> QED BY <2>2, <3>1, QueueWeaker
  <2>4. q.epoch \in Nat
    BY <2>2 DEF QueueOK, Queue
  <2> QED BY <1>1, <2>1, <2>3, <2>4 DEF Good, Fits
<1>2. SentOK(m, O, B)
  BY DEF Sound, SentOK
<1> QED BY <1>1, <1>2 DEF Sound

\* What direct refusals the server applied, and what they overtook, only grows.
LEMMA JudgedGrows ==
    ASSUME direct \subseteq direct', applied \subseteq applied'
    PROVE  Landed \subseteq Landed' /\ Judged \subseteq Judged'
<1>1. Landed \subseteq Landed'
  BY DEF Landed
<1>2. Overtaken \subseteq Overtaken'
  BY DEF Overtaken
<1> QED BY <1>1, <1>2 DEF Judged

LEMMA JudgedKept ==
    ASSUME UNCHANGED <<direct, applied>>
    PROVE  Landed' = Landed /\ Judged' = Judged
<1>1. Overtaken' = Overtaken
  BY DEF Overtaken
<1> QED BY <1>1 DEF Landed, Judged

\* A frame up to a direct refusal that was applied.
LEMMA UpToLanded ==
    ASSUME direct \subseteq (1..MaxInstance) \X Positive, NEW i, NEW k, <<i, k>> \in Landed,
           NEW s \in Positive, s <= k
    PROVE  <<i, s>> \in Judged
<1>1. PICK d : d = <<i, k>>
  OBVIOUS
<1>2. d \in direct \cap applied /\ d[1] = i /\ d[2] = k /\ k \in Positive
  BY <1>1 DEF Landed
<1>3. CASE s = k
  BY <1>1, <1>2, <1>3 DEF Judged
<1>4. CASE s # k
  <2>1. s \in 1..(d[2] - 1)
    BY <1>2, <1>4 DEF Positive
  <2>2. d[1] \in {d[1]}
    OBVIOUS
  <2>3. <<d[1], s>> \in {d[1]} \X (1..(d[2] - 1))
    BY <2>1, <2>2
  <2>4. <<d[1], s>> \in Overtaken
    BY <1>2, <2>3 DEF Overtaken
  <2> QED BY <1>2, <2>4 DEF Judged
<1> QED BY <1>3, <1>4

\* The daemon sends more, and the server knows more.
LEMMA ServerKeeps ==
    ASSUME NEW W, NEW R, NEW ids, NEW marks, NEW A, NEW T, ServerOK(W, R, ids, marks, A, T),
           NEW V, W \subseteq V, NEW Q, R \subseteq Q, NEW B, A \subseteq B
    PROVE  ServerOK(V, Q, ids, marks, B, T)
<1>1. ASSUME NEW i \in 1..MaxInstance, marks[i] # 0
      PROVE  /\ <<i, marks[i]>> \in B
             /\ \/ <<i, marks[i]>> \in Q
                \/ \E w \in V : w.t = "normal" /\ Origin(w) = <<i, marks[i]>>
  BY <1>1 DEF ServerOK
<1>2. ASSUME NEW id \in ids
      PROVE  \E w \in V : /\ Id(w) = id
                          /\ w.t = "normal" => Origin(w) \in B
                          /\ w.t # "normal" => w.frames \subseteq T
  BY <1>2 DEF ServerOK
<1> QED BY <1>1, <1>2 DEF ServerOK

\* A handler ends.
LEMMA EndsDelivery ==
    ASSUME Delivery, NEW c, NEW E \in Nat, SoundCtx(c, wire, Judged, E), epoch' = E,
           c.mem.inst <= MaxInstance, NEW l, NEW at \in Statuses, NEW others, EndsWith(c, l, at, others),
           direct \subseteq direct', direct' \subseteq (1..MaxInstance) \X Positive,
           UNCHANGED <<acks, mark, applied, told>>
    PROVE  Delivery'
<1>0. /\ c \in Ctx /\ launch \in [Launches -> Statuses] /\ "over" \in Statuses
      /\ disk' = c.disk /\ minted' = c.minted /\ wire' = wire \cup c.out
      /\ Landed \subseteq Landed' /\ Judged \subseteq Judged'
  BY JudgedGrows DEF SoundCtx, Delivery, Types, Statuses, EndsWith
<1>1. PICK m, stored, O : m = c.mem /\ stored = c.disk.queue /\ O = wire \cup c.out
  OBVIOUS
<1>2. Sound(m, stored, O, Judged, E) /\ m \in Memory
  BY <1>1 DEF SoundCtx, Sound
<1>3. Sound(mem', stored, O, Judged, E) /\ mem' \in Memory /\ mem'.inst = m.inst
  <2>1. CASE c.alive
    <3>1. mem' = m
      BY <1>1, <2>1 DEF EndsWith
    <3> QED BY <1>2, <3>1
  <2>2. CASE ~c.alive
    <3>1. PICK k : k = [FreshMemory(m.inst) EXCEPT !.up = FALSE]
      OBVIOUS
    <3>2. k \in Memory /\ ~k.up /\ k.inst = m.inst /\ k.q = EmptyQueue
      BY <1>2, <3>1, DownIs
    <3>3. Sound(k, stored, O, Judged, E)
      BY <1>2, <3>2, EmptySound
    <3>4. mem' = k
      BY <1>1, <2>2, <3>1 DEF EndsWith
    <3> QED BY <3>2, <3>3, <3>4
  <2> QED BY <2>1, <2>2
<1>4. launch' \in [Launches -> Statuses]
  <2>1. CASE c.alive
    <3>1. launch' = [k \in Launches |-> IF k = l THEN at ELSE IF k \in others THEN "over" ELSE launch[k]]
      BY <2>1 DEF EndsWith
    <3> QED BY <1>0, <3>1
  <2>2. CASE ~c.alive
    <3>1. launch' = [k \in Launches |-> IF k \in Live THEN "over" ELSE launch[k]]
      BY <2>2 DEF EndsWith, Killed
    <3> QED BY <1>0, <3>1
  <2> QED BY <2>1, <2>2
<1>5. Types'
  <2>1. c.disk \in Files /\ c.minted \in Nat
    BY <1>0 DEF Ctx
  <2>2. mem'.inst <= MaxInstance
    BY <1>1, <1>3
  <2>3. mark' \in [1..MaxInstance -> Nat] /\ applied' \subseteq Frames
    BY DEF Delivery, Types
  <2> QED BY <1>0, <1>3, <1>4, <2>1, <2>2, <2>3 DEF Types
<1>6. PICK B, Q : B = Judged' /\ Q = Landed'
  OBVIOUS
<1>7. ServerOK(O, Q, acks, mark, B, told)
  <2>1. wire \subseteq O /\ Landed \subseteq Q /\ Judged \subseteq B
    BY <1>0, <1>1, <1>6
  <2>2. ServerOK(wire, Landed, acks, mark, Judged, told)
    BY DEF Delivery
  <2> QED BY ONLY <2>1, <2>2, ServerKeeps
<1>8. ServerOK(wire', Landed', acks', mark', Judged', told')
  BY <1>0, <1>1, <1>6, <1>7
<1>9. PICK k : k = mem'
  OBVIOUS
<1>10. Sound(k, stored, O, B, E)
  <2>1. Sound(k, stored, O, Judged, E) /\ Judged \subseteq B /\ E \in Nat /\ E <= E
    BY <1>0, <1>3, <1>6, <1>9
  <2> QED BY ONLY <2>1, SoundLater
<1>11. Sound(mem', disk'.queue, wire', Judged', epoch')
  BY <1>0, <1>1, <1>6, <1>9, <1>10
<1> QED BY <1>5, <1>8, <1>11 DEF Delivery

\* What the relations keep of the memory.
LEMMA PumpedKeeps ==
    ASSUME NEW c, NEW d, Pumped(c, d)
    PROVE  d.mem.inst = c.mem.inst /\ d.mem.up = c.mem.up
  BY DEF Pumped, Sends, Committed, Steady

LEMMA EnqueuedKeeps ==
    ASSUME NEW c, NEW d, NEW turn, NEW gone, Enqueued(c, d, turn, gone)
    PROVE  d.mem.inst = c.mem.inst /\ d.mem.up = c.mem.up
<1>1. PICK b, n : /\ NextFrame(c, b, n, turn)
                  /\ \/ Marks(b, d) /\ MarkedBad(b, d) /\ d.mem.bad # Reliable
                     \/ \E r, x : /\ Stored(c.mem.q, r, n) /\ Committed(b, x, r, "queue")
                                  /\ x.ok => \E y : Closed(x, y, gone) /\ Pumped(y, d)
                                  /\ ~x.ok => d = x
  BY DEF Enqueued
<1>2. b.mem.inst = c.mem.inst /\ b.mem.up = c.mem.up
  BY <1>1 DEF NextFrame
<1>3. CASE Marks(b, d)
  BY <1>2, <1>3 DEF Marks
<1>4. ASSUME NEW r, NEW x, Committed(b, x, r, "queue"), x.ok => \E y : Closed(x, y, gone) /\ Pumped(y, d),
             ~x.ok => d = x
      PROVE  d.mem.inst = c.mem.inst /\ d.mem.up = c.mem.up
  <2>1. x.mem.inst = b.mem.inst /\ x.mem.up = b.mem.up
    BY <1>4 DEF Committed, Steady
  <2>2. ASSUME NEW y, Closed(x, y, gone), Pumped(y, d)
        PROVE  d.mem.inst = x.mem.inst /\ d.mem.up = x.mem.up
    BY <2>2, PumpedKeeps DEF Closed, Steady
  <2> QED BY <1>2, <1>4, <2>1, <2>2
<1> QED BY <1>1, <1>3, <1>4

\* A frame that is no completed turn.
LEMMA FrameIs ==
    ASSUME NEW c, NEW W, NEW A, NEW E, SoundCtx(c, W, A, E), c.mem.up, NEW gone,
           NEW d, d = Enqueue(c, FALSE, gone)
    PROVE  SoundCtx(d, W, A, E) /\ Enqueued(c, d, FALSE, gone) /\ d.mem.inst = c.mem.inst /\ d.mem.up
<1>1. PICK turn \in BOOLEAN : turn = FALSE
  OBVIOUS
<1>2. d = Enqueue(c, turn, gone)
  BY <1>1
<1>3. SoundCtx(d, W, A, E) /\ Enqueued(c, d, turn, gone)
  BY <1>2, EnqueueIs
<1> QED BY <1>1, <1>3, EnqueuedKeeps

\* A handler that began in c ends in d, start l then standing at `at`.
Handled(c, d, l, at) ==
    /\ Begins(c) /\ SoundCtx(d, wire, Judged, epoch') /\ d.mem.inst <= MaxInstance
    /\ at \in Statuses /\ \E others : EndsWith(d, l, at, others)
    /\ direct \subseteq direct' /\ direct' \subseteq (1..MaxInstance) \X Positive
    /\ epoch' \in Nat /\ UNCHANGED <<acks, mark, applied, told>>

\* A handler that sends no direct refusal and ends one start at most.
LEMMA Plainly ==
    ASSUME Delivery, NEW c, Begins(c), NEW d, SoundCtx(d, wire, Judged, epoch'), d.mem.inst <= MaxInstance,
           NEW l, NEW at \in Statuses, Ends(d, l, at), epoch' \in Nat,
           UNCHANGED <<acks, direct, mark, applied, told>>
    PROVE  Handled(c, d, l, at)
<1>1. \E others : EndsWith(d, l, at, others)
  BY DEF Ends
<1>2. direct \subseteq direct' /\ direct' \subseteq (1..MaxInstance) \X Positive
  BY DEF Delivery, Types
<1> QED BY <1>1, <1>2 DEF Handled

LEMMA HandledDelivery ==
    ASSUME Delivery, NEW c, NEW d, NEW l, NEW at, Handled(c, d, l, at)
    PROVE  Delivery'
<1>1. PICK E \in Nat : E = epoch'
  BY DEF Handled
<1>2. PICK others : EndsWith(d, l, at, others)
  BY DEF Handled
<1>3. SoundCtx(d, wire, Judged, E)
  BY <1>1 DEF Handled
<1> QED BY <1>1, <1>2, <1>3, EndsDelivery DEF Handled

\* d is c, with some numbers taken for direct refusals.
Later(c, d) ==
    /\ c \in Ctx /\ d \in Ctx /\ c.mem.seq <= d.mem.seq
    /\ d.mem.up = c.mem.up /\ d.mem.inst = c.mem.inst
    /\ d.mem.q = c.mem.q /\ d.mem.bad = c.mem.bad /\ d.mem.open = c.mem.open /\ d.mem.grant = c.mem.grant
    /\ d.disk = c.disk /\ d.minted = c.minted /\ d.out = c.out /\ d.made = c.made /\ d.alive = c.alive

LEMMA NotLater ==
    ASSUME NEW c \in Ctx
    PROVE  Later(c, c)
  BY DEF Later, Ctx, Memory

LEMMA NumbersTaken ==
    ASSUME NEW c \in Ctx, NEW n \in Nat, NEW d, d = TakeNumbers(c, n)
    PROVE  Later(c, d)
<1>1. PICK m : m = [c.mem EXCEPT !.seq = @ + n]
  OBVIOUS
<1>2. c.mem \in Memory /\ c.mem.seq \in Nat
  BY DEF Ctx, Memory
<1>3. /\ m \in Memory /\ m.up = c.mem.up /\ m.inst = c.mem.inst /\ m.seq = c.mem.seq + n
      /\ m.q = c.mem.q /\ m.bad = c.mem.bad /\ m.open = c.mem.open /\ m.grant = c.mem.grant
  BY <1>1, <1>2 DEF Memory
<1>4. d = [c EXCEPT !.mem = m]
  BY <1>1 DEF TakeNumbers
<1>5. /\ d \in Ctx /\ d.mem = m /\ d.disk = c.disk /\ d.minted = c.minted /\ d.out = c.out /\ d.made = c.made
      /\ d.alive = c.alive
  BY <1>3, <1>4 DEF Ctx
<1> QED BY <1>2, <1>3, <1>5 DEF Later

LEMMA LaterIsSound ==
    ASSUME NEW c, NEW W, NEW A, NEW E, SoundCtx(c, W, A, E), NEW d, Later(c, d)
    PROVE  SoundCtx(d, W, A, E)
<1>1. PICK m, k, stored, O : m = c.mem /\ k = d.mem /\ stored = c.disk.queue /\ O = W \cup c.out
  OBVIOUS
<1>2. Sound(m, stored, O, A, E)
  BY <1>1 DEF SoundCtx
<1>3. k \in Memory /\ k.up = m.up /\ k.inst = m.inst /\ k.q = m.q /\ m.seq \in Nat /\ k.seq \in Nat /\ m.seq <= k.seq
  BY <1>1 DEF Later, Ctx, Memory
<1>4. ASSUME NEW x \in Frames, BoundBy(x, m)
      PROVE  BoundBy(x, k)
  <2>1. x[1] \in Nat /\ x[2] \in Nat
    BY DEF Frames, Positive
  <2> QED BY <1>3, <1>4, <2>1 DEF BoundBy
<1>5. ASSUME NEW q, Good(q, m, O, A, E)
      PROVE  Good(q, k, O, A, E)
  <2>1. \A x \in Evidence(q) : x \in Frames
    BY <1>5, EvidenceFrames DEF Good, QueueOK
  <2>2. \A x \in Evidence(q) : BoundBy(x, k)
    BY <1>4, <1>5, <2>1 DEF Good
  <2> QED BY <1>3, <1>5, <2>2 DEF Good
<1>6. SentOK(k, O, A)
  <2>1. \A w \in O : Origin(w) \in Frames
    BY <1>2, EntryShape DEF Sound, SentOK
  <2>2. \A w \in O : BoundBy(Origin(w), k)
    BY <1>2, <1>4, <2>1 DEF Sound, SentOK
  <2> QED BY <1>2, <1>3, <2>2 DEF Sound, SentOK
<1>7. Sound(k, stored, O, A, E)
  BY <1>2, <1>3, <1>5, <1>6 DEF Sound
<1> QED BY <1>1, <1>7 DEF SoundCtx, Later

\* b is c but for the link and a grant that is spent.
Alike(c, b) ==
    /\ b \in Ctx
    /\ b.mem.up = c.mem.up /\ b.mem.inst = c.mem.inst /\ b.mem.seq = c.mem.seq
    /\ b.mem.q = c.mem.q /\ b.mem.bad = c.mem.bad /\ b.mem.open = c.mem.open
    /\ b.mem.grant \in {c.mem.grant, NoGrant}
    /\ b.disk = c.disk /\ b.minted = c.minted /\ b.out = c.out /\ b.made = c.made /\ b.alive = c.alive

LEMMA SpentIs ==
    ASSUME NEW c \in Ctx, NEW l, NEW b, b = Spent(c, l)
    PROVE  Alike(c, b)
<1>1. CASE c.mem.grant.launch = l
  <2>0. PICK g : g = NoGrant
    OBVIOUS
  <2>1. g = NoGrant /\ g \in Grants
    BY <2>0 DEF NoGrant, Grants
  <2>2. PICK m : m = [c.mem EXCEPT !.grant = g]
    OBVIOUS
  <2>3. /\ m \in Memory /\ m.up = c.mem.up /\ m.inst = c.mem.inst /\ m.seq = c.mem.seq /\ m.link = c.mem.link
        /\ m.q = c.mem.q /\ m.bad = c.mem.bad /\ m.open = c.mem.open /\ m.grant = g
    BY <2>1, <2>2 DEF Ctx, Memory
  <2>4. b = [c EXCEPT !.mem = m]
    BY <1>1, <2>1, <2>2 DEF Spent
  <2>5. /\ b \in Ctx /\ b.mem = m /\ b.disk = c.disk /\ b.minted = c.minted /\ b.out = c.out /\ b.made = c.made
        /\ b.alive = c.alive
    BY <2>3, <2>4 DEF Ctx
  <2> QED BY <2>1, <2>3, <2>5 DEF Alike
<1>2. CASE c.mem.grant.launch # l
  <2>1. b = c
    BY <1>2 DEF Spent
  <2> QED BY <2>1 DEF Alike
<1> QED BY <1>1, <1>2

\* The gate.
GateSteps(l) ==
    \E c, b, d, at :
        /\ Handled(c, d, l, at) /\ Alike(c, b)
        /\ \/ at \in {"over", "rebound"} /\ Enqueued(b, d, FALSE, {Request(l, mem.inst)})
           \/ at = "passed" /\ d = b
        /\ at # "over" => ~Refused(mem, l)
        /\ UNCHANGED <<covered, epoch>>

LEMMA GateIs ==
    ASSUME Delivery, NEW l \in Launches, Gate(l)
    PROVE  GateSteps(l) /\ mem.up /\ launch[l] = "pending"
<1>0. /\ mem.up /\ launch[l] = "pending"
      /\ UNCHANGED <<acks, direct, covered, epoch, mark, applied, told>>
  BY DEF Gate, serverVars
<1>1. PICK R : R = {Request(l, mem.inst)}
  OBVIOUS
<1>2. \E f \in PossibleFaults :
        IF Refused(mem, l) THEN Ends(Enqueue(Spent(Context(f), l), FALSE, R), l, "over")
        ELSE IF \E k \in Launches : launch[k] = "running"
        THEN Ends(Enqueue(Spent(Context(f), l), FALSE, R), l, "rebound")
        ELSE Ends(Spent(Context(f), l), l, "passed")
  BY <1>1 DEF Gate
<1>3. PICK f \in PossibleFaults :
        IF Refused(mem, l) THEN Ends(Enqueue(Spent(Context(f), l), FALSE, R), l, "over")
        ELSE IF \E k \in Launches : launch[k] = "running"
        THEN Ends(Enqueue(Spent(Context(f), l), FALSE, R), l, "rebound")
        ELSE Ends(Spent(Context(f), l), l, "passed")
  BY <1>2
<1>4. PICK c : c = Context(f)
  OBVIOUS
<1>5. PICK b : b = Spent(c, l)
  OBVIOUS
<1>6. PICK d : d = Enqueue(b, FALSE, R)
  OBVIOUS
<1>7. Begins(c) /\ SoundCtx(c, wire, Judged, epoch) /\ c.mem.inst <= MaxInstance
  BY <1>4, ContextIs
<1>8. Alike(c, b)
  BY <1>5, <1>7, SpentIs DEF Begins
<1>9. SoundCtx(b, wire, Judged, epoch) /\ b.mem.up /\ b.mem.inst <= MaxInstance
  <2>1. Quiet(c, b)
    BY <1>8 DEF Alike, Quiet
  <2> QED BY <1>0, <1>7, <1>8, <2>1, QuietSound DEF Alike, Begins
<1>10. SoundCtx(d, wire, Judged, epoch) /\ Enqueued(b, d, FALSE, R) /\ d.mem.inst = b.mem.inst
  BY ZenonT(60), <1>6, <1>9, FrameIs
<1>11. epoch' = epoch /\ epoch \in Nat
  BY <1>0 DEF Delivery, Types
<1>12. \/ Refused(mem, l) /\ Ends(d, l, "over")
       \/ ~Refused(mem, l) /\ Ends(d, l, "rebound")
       \/ ~Refused(mem, l) /\ Ends(b, l, "passed")
  BY <1>3, <1>4, <1>5, <1>6
<1>13. "over" \in Statuses /\ "rebound" \in Statuses /\ "passed" \in Statuses
  BY DEF Statuses, Waiting
<1>14. CASE Refused(mem, l) /\ Ends(d, l, "over")
  <2>1. Handled(c, d, l, "over")
    BY <1>0, <1>7, <1>9, <1>10, <1>11, <1>13, <1>14, Plainly
  <2> QED BY <1>0, <1>1, <1>8, <1>10, <2>1 DEF GateSteps
<1>15. CASE ~Refused(mem, l) /\ Ends(d, l, "rebound")
  <2>1. Handled(c, d, l, "rebound")
    BY <1>0, <1>7, <1>9, <1>10, <1>11, <1>13, <1>15, Plainly
  <2> QED BY <1>0, <1>1, <1>8, <1>10, <1>15, <2>1 DEF GateSteps
<1>16. CASE ~Refused(mem, l) /\ Ends(b, l, "passed")
  <2>1. Handled(c, b, l, "passed")
    BY <1>0, <1>7, <1>9, <1>11, <1>13, <1>16, Plainly
  <2> QED BY <1>0, <1>8, <1>16, <2>1 DEF GateSteps
<1> QED BY <1>0, <1>12, <1>14, <1>15, <1>16

\* A frame is enqueued.
FrameSteps(l, at, turn, gone) ==
    \E c, d : Handled(c, d, l, at) /\ Enqueued(c, d, turn, gone) /\ UNCHANGED <<covered, epoch>>

LEMMA EnqueueSteps ==
    ASSUME Delivery, mem.up, NEW l, NEW at \in Statuses, NEW turn \in BOOLEAN, NEW gone, NEW f \in PossibleFaults,
           Ends(Enqueue(Context(f), turn, gone), l, at), UNCHANGED <<acks, direct, covered, serverVars>>
    PROVE  FrameSteps(l, at, turn, gone)
<1>1. PICK c : c = Context(f)
  OBVIOUS
<1>2. PICK d : d = Enqueue(c, turn, gone)
  OBVIOUS
<1>3. Begins(c) /\ SoundCtx(c, wire, Judged, epoch) /\ c.mem.inst <= MaxInstance
  BY <1>1, ContextIs
<1>4. c.mem.up
  BY <1>3 DEF Begins
<1>5. SoundCtx(d, wire, Judged, epoch) /\ Enqueued(c, d, turn, gone)
  BY <1>2, <1>3, <1>4, EnqueueIs
<1>6. epoch' = epoch /\ epoch \in Nat /\ UNCHANGED <<acks, direct, mark, applied, told, covered>>
  BY DEF Delivery, Types, serverVars
<1>7. d.mem.inst = c.mem.inst
  BY <1>5, EnqueuedKeeps
<1>8. Ends(d, l, at)
  BY <1>1, <1>2
<1>9. Handled(c, d, l, at)
  BY <1>3, <1>5, <1>6, <1>7, <1>8, Plainly
<1> QED BY <1>5, <1>6, <1>9 DEF FrameSteps

LEMMA SpawnedIs ==
    ASSUME Delivery, NEW l \in Launches, Spawned(l)
    PROVE  FrameSteps(l, "running", FALSE, {Request(l, mem.inst)}) /\ mem.up /\ launch[l] = "starting"
<1>1. PICK gone, turn, at : gone = {Request(l, mem.inst)} /\ turn = FALSE /\ at = "running"
  OBVIOUS
<1>2. PICK f \in PossibleFaults : Ends(Enqueue(Context(f), turn, gone), l, at)
  BY <1>1 DEF Spawned
<1>3. at \in Statuses /\ turn \in BOOLEAN
  BY <1>1 DEF Statuses, Waiting
<1>4. mem.up /\ launch[l] = "starting" /\ UNCHANGED <<acks, direct, covered, serverVars>>
  BY DEF Spawned
<1>5. FrameSteps(l, at, turn, gone)
  BY <1>2, <1>3, <1>4, EnqueueSteps
<1> QED BY <1>1, <1>4, <1>5

LEMMA OutcomeIs ==
    ASSUME Delivery, NEW l \in Launches, NEW turn \in BOOLEAN, Outcome(l, turn)
    PROVE  FrameSteps(l, "running", turn, {}) /\ mem.up /\ launch[l] = "running"
<1>1. PICK gone, at : gone = {} /\ at = "running"
  OBVIOUS
<1>2. PICK f \in PossibleFaults : Ends(Enqueue(Context(f), turn, gone), l, at)
  BY <1>1 DEF Outcome
<1>3. at \in Statuses
  BY <1>1 DEF Statuses, Waiting
<1>4. mem.up /\ launch[l] = "running" /\ UNCHANGED <<acks, direct, covered, serverVars>>
  BY DEF Outcome
<1>5. FrameSteps(l, at, turn, gone)
  BY <1>2, <1>3, <1>4, EnqueueSteps
<1> QED BY <1>1, <1>4, <1>5

LEMMA ExitedIs ==
    ASSUME Delivery, NEW l \in Launches, Exited(l)
    PROVE  FrameSteps(l, "over", FALSE, {Process(l, mem.inst)}) /\ mem.up /\ launch[l] = "running"
<1>1. PICK gone, turn, at : gone = {Process(l, mem.inst)} /\ turn = FALSE /\ at = "over"
  OBVIOUS
<1>2. PICK f \in PossibleFaults : Ends(Enqueue(Context(f), turn, gone), l, at)
  BY <1>1 DEF Exited
<1>3. at \in Statuses /\ turn \in BOOLEAN
  BY <1>1 DEF Statuses
<1>4. mem.up /\ launch[l] = "running" /\ UNCHANGED <<acks, direct, covered, serverVars>>
  BY DEF Exited
<1>5. FrameSteps(l, at, turn, gone)
  BY <1>2, <1>3, <1>4, EnqueueSteps
<1> QED BY <1>1, <1>4, <1>5

\* A start fails before its process is reported.
FailSteps(l) ==
    \E c, x, d : /\ Handled(c, d, l, "over")
                 /\ Enqueued(c, x, FALSE, {Request(l, mem.inst)}) /\ Closed(x, d, {Process(l, mem.inst)})
                 /\ UNCHANGED <<covered, epoch>>

LEMMA SpawnFailsIs ==
    ASSUME Delivery, NEW l \in Launches, SpawnFails(l)
    PROVE  FailSteps(l) /\ mem.up /\ launch[l] = "starting"
<1>1. PICK R, P : R = {Request(l, mem.inst)} /\ P = {Process(l, mem.inst)}
  OBVIOUS
<1>2. PICK f \in PossibleFaults : Ends(CloseOpen(Enqueue(Context(f), FALSE, R), P), l, "over")
  BY <1>1 DEF SpawnFails
<1>3. PICK c : c = Context(f)
  OBVIOUS
<1>4. PICK x : x = Enqueue(c, FALSE, R)
  OBVIOUS
<1>5. PICK d : d = CloseOpen(x, P)
  OBVIOUS
<1>6. Begins(c) /\ SoundCtx(c, wire, Judged, epoch) /\ c.mem.inst <= MaxInstance
  BY <1>3, ContextIs
<1>7. mem.up /\ launch[l] = "starting" /\ epoch' = epoch /\ epoch \in Nat /\ UNCHANGED <<acks, direct, mark, applied, told, covered>>
  BY DEF SpawnFails, Delivery, Types, serverVars
<1>8. SoundCtx(x, wire, Judged, epoch) /\ Enqueued(c, x, FALSE, R) /\ x.mem.inst = c.mem.inst
  <2>1. c.mem.up
    BY <1>6, <1>7 DEF Begins
  <2> QED BY ZenonT(60), <1>4, <1>6, <2>1, FrameIs
<1>9. x \in Ctx
  BY <1>8 DEF SoundCtx
<1>10. Closed(x, d, P)
  BY <1>5, <1>9, CloseOpenIs
<1>11. SoundCtx(d, wire, Judged, epoch)
  <2>1. Quiet(x, d)
    BY <1>10 DEF Closed, Steady, Quiet
  <2> QED BY <1>8, <2>1, QuietSound
<1>12. "over" \in Statuses /\ d.mem.inst = x.mem.inst
  BY <1>10 DEF Statuses, Closed, Steady
<1>13. Ends(d, l, "over")
  BY <1>2, <1>3, <1>4, <1>5
<1>14. Handled(c, d, l, "over")
  BY <1>6, <1>7, <1>8, <1>11, <1>12, <1>13, Plainly
<1> QED BY <1>1, <1>7, <1>8, <1>10, <1>14 DEF FailSteps

\* The process is durably open, or the start is refused.
OpenSteps(l) ==
    \E c, o, d, at :
        /\ Handled(c, d, l, at) /\ Opened(c, o, mem.open \cup {Process(l, mem.inst)})
        /\ \/ o.ok /\ d = o /\ at = "starting"
           \/ ~o.ok /\ o.mem.bad # Reliable /\ at = "over" /\ (Later(o, d) \/ Enqueued(o, d, FALSE, {Request(l, mem.inst)}))
        /\ UNCHANGED <<covered, epoch>>

LEMMA OpenEntries ==
    ASSUME NEW m \in Memory, NEW l \in Launches
    PROVE  /\ m.open \cup {Process(l, m.inst)} \subseteq Opens /\ m.open \cup {Request(l, m.inst)} \subseteq Opens
           /\ Process(l, m.inst).inst = m.inst /\ Request(l, m.inst).inst = m.inst
           /\ Process(l, m.inst) # Request(l, m.inst)
  BY DEF Memory, Opens, Process, Request

\* The direct refusals are of this instance.
LEMMA SentDirectly ==
    ASSUME Delivery, NEW c, NEW n \in Nat, SendsDirectly(c, n)
    PROVE  direct \subseteq direct' /\ direct' \subseteq (1..MaxInstance) \X Positive
<1>1. /\ mem.inst \in 1..MaxInstance /\ mem.seq \in Nat /\ direct \subseteq (1..MaxInstance) \X Positive
  BY OutboxAssumption DEF Delivery, Types, Memory, Positive
<1>2. Refusals(n) \subseteq (1..MaxInstance) \X Positive
  <2>1. (mem.seq + 1)..(mem.seq + n) \subseteq Positive /\ {mem.inst} \subseteq 1..MaxInstance
    BY <1>1 DEF Positive
  <2> QED BY <2>1 DEF Refusals
<1> QED BY <1>1, <1>2 DEF SendsDirectly

LEMMA OpenProcessIs ==
    ASSUME Delivery, NEW l \in Launches, OpenProcess(l)
    PROVE  OpenSteps(l) /\ mem.up /\ launch[l] = "passed"
<1>1. PICK R, o, marks : R = {Request(l, mem.inst)} /\ o = mem.open \cup {Process(l, mem.inst)} /\ marks = TRUE
  OBVIOUS
<1> DEFINE others == {k \in Launches : launch[k] = "pending"}
           n == 1 + Cardinality(others)
           ends(c) ==
             CASE c.ok -> Ends(c, l, "starting") /\ UNCHANGED direct
               [] ~c.ok /\ mem.link -> EndsWith(TakeNumbers(c, n), l, "over", others) /\ SendsDirectly(c, n)
               [] OTHER -> Ends(Enqueue(c, FALSE, R), l, "over") /\ UNCHANGED direct
<1>2. PICK f \in PossibleFaults : ends(WriteOpen(Context(f), o, marks))
  BY <1>1 DEF OpenProcess
<1>3. PICK c : c = Context(f)
  OBVIOUS
<1>4. PICK x : x = WriteOpen(c, o, marks)
  OBVIOUS
<1>5. PICK d : d = Enqueue(x, FALSE, R)
  OBVIOUS
<1>6. Begins(c) /\ SoundCtx(c, wire, Judged, epoch) /\ c.mem.inst <= MaxInstance
  BY <1>3, ContextIs
<1>7. mem.up /\ launch[l] = "passed" /\ epoch' = epoch /\ epoch \in Nat /\ UNCHANGED <<acks, mark, applied, told, covered>>
  BY DEF OpenProcess, Delivery, Types, serverVars
<1>8. c \in Ctx /\ o \subseteq Opens /\ marks \in BOOLEAN /\ marks
  BY <1>1, <1>6, OpenEntries DEF Begins, Delivery, Types
<1>9. Opened(c, x, o) /\ (~x.ok => x.mem.bad # Reliable)
  BY <1>4, <1>8, WriteOpenIs
<1>10. SoundCtx(x, wire, Judged, epoch) /\ x.mem.up /\ x.mem.inst = c.mem.inst
  <2>1. Quiet(c, x)
    BY <1>9 DEF Opened, Steady, Quiet
  <2> QED BY <1>6, <1>7, <2>1, QuietSound DEF Quiet, Begins
<1>11. SoundCtx(d, wire, Judged, epoch) /\ Enqueued(x, d, FALSE, R) /\ d.mem.inst = x.mem.inst
  BY <1>5, <1>10, FrameIs
<1>12. "over" \in Statuses /\ "starting" \in Statuses
  BY DEF Statuses, Waiting
<1>13. ends(x)
  BY <1>2, <1>3, <1>4
<1>14. \/ x.ok /\ Ends(x, l, "starting") /\ UNCHANGED direct
       \/ ~x.ok /\ EndsWith(TakeNumbers(x, n), l, "over", others) /\ SendsDirectly(x, n)
       \/ ~x.ok /\ Ends(d, l, "over") /\ UNCHANGED direct
  BY <1>5, <1>13
<1>15. n \in Nat
  <2>1. Launches \in SUBSET Nat /\ IsFiniteSet(Launches)
    BY OutboxAssumption, FS_Interval DEF Launches
  <2>2. IsFiniteSet(others)
    <3>1. others \subseteq Launches
      OBVIOUS
    <3> QED BY <2>1, <3>1, FS_Subset
  <2>3. Cardinality(others) \in Nat
    BY <2>2, FS_CardinalityType
  <2> QED BY <2>3
<1>16. PICK k, os : k = n /\ os = others
  OBVIOUS
<1> HIDE DEF others, n, ends
<1>17. CASE x.ok /\ Ends(x, l, "starting") /\ UNCHANGED direct
  <2>1. Handled(c, x, l, "starting")
    BY <1>6, <1>7, <1>10, <1>12, <1>17, Plainly
  <2> QED BY <1>1, <1>7, <1>9, <1>17, <2>1 DEF OpenSteps
<1>18. CASE ~x.ok /\ EndsWith(TakeNumbers(x, n), l, "over", others) /\ SendsDirectly(x, n)
  <2>1. PICK y : y = TakeNumbers(x, k)
    OBVIOUS
  <2>2. Later(x, y)
    BY <1>10, <1>15, <1>16, <2>1, NumbersTaken DEF SoundCtx
  <2>3. SoundCtx(y, wire, Judged, epoch) /\ y.mem.inst <= MaxInstance
    <3>1. SoundCtx(y, wire, Judged, epoch)
      BY ONLY <1>10, <2>2, LaterIsSound
    <3> QED BY <1>6, <1>10, <2>2, <3>1 DEF Later
  <2>4. EndsWith(y, l, "over", os) /\ SendsDirectly(x, k)
    BY <1>16, <1>18, <2>1
  <2>5. direct \subseteq direct' /\ direct' \subseteq (1..MaxInstance) \X Positive
    BY <1>15, <1>16, <2>4, SentDirectly
  <2>6. Handled(c, y, l, "over")
    BY <1>6, <1>7, <1>12, <2>3, <2>4, <2>5 DEF Handled
  <2> QED BY <1>1, <1>7, <1>9, <1>18, <2>2, <2>6 DEF OpenSteps
<1>19. CASE ~x.ok /\ Ends(d, l, "over") /\ UNCHANGED direct
  <2>1. Handled(c, d, l, "over")
    BY <1>6, <1>7, <1>10, <1>11, <1>12, <1>19, Plainly
  <2> QED BY <1>1, <1>7, <1>9, <1>11, <1>19, <2>1 DEF OpenSteps
<1> QED BY <1>7, <1>14, <1>17, <1>18, <1>19

\* The oldest entry is sent, on a new link or once more.
SendSteps ==
    \E c, b, d : Handled(c, d, 0, "none") /\ Alike(c, b) /\ Pumped(b, d) /\ UNCHANGED <<covered, epoch>>

LEMMA SendOldestSteps ==
    ASSUME Delivery, mem.up, NEW c, Begins(c), c.mem.inst <= MaxInstance,
           NEW b, SoundCtx(b, wire, Judged, epoch), Alike(c, b),
           Ends(SendOldest(b), 0, "none"), UNCHANGED <<acks, direct, covered, serverVars>>
    PROVE  SendSteps
<1>1. PICK d : d = SendOldest(b)
  OBVIOUS
<1>2. SoundCtx(d, wire, Judged, epoch) /\ Pumped(b, d)
  BY <1>1, SendOldestIs
<1>3. d.mem.inst = c.mem.inst
  BY <1>2, PumpedKeeps DEF Alike
<1>4. epoch' = epoch /\ epoch \in Nat /\ UNCHANGED <<acks, direct, mark, applied, told, covered>> /\ "none" \in Statuses
  BY DEF Delivery, Types, serverVars, Statuses
<1>5. Ends(d, 0, "none")
  BY <1>1
<1>6. Handled(c, d, 0, "none")
  BY <1>2, <1>3, <1>4, <1>5, Plainly
<1> QED BY <1>2, <1>4, <1>6 DEF SendSteps

LEMMA ConnectIs ==
    ASSUME Delivery, Connect
    PROVE  SendSteps /\ mem.up
<1>1. PICK f \in PossibleFaults : Ends(SendOldest([Context(f) EXCEPT !.mem.link = TRUE]), 0, "none")
  BY DEF Connect
<1>2. PICK c : c = Context(f)
  OBVIOUS
<1>3. PICK b : b = [c EXCEPT !.mem.link = TRUE]
  OBVIOUS
<1>4. PICK m : m = [c.mem EXCEPT !.link = TRUE]
  OBVIOUS
<1>5. Begins(c) /\ SoundCtx(c, wire, Judged, epoch) /\ c.mem.inst <= MaxInstance
  BY <1>2, ContextIs
<1>6. /\ m \in Memory /\ m.up = c.mem.up /\ m.inst = c.mem.inst /\ m.seq = c.mem.seq
      /\ m.q = c.mem.q /\ m.bad = c.mem.bad /\ m.open = c.mem.open /\ m.grant = c.mem.grant
  BY <1>4, <1>5 DEF Begins, Ctx, Memory
<1>7. b = [c EXCEPT !.mem = m]
  BY <1>3, <1>4
<1>8. /\ b \in Ctx /\ b.mem = m /\ b.disk = c.disk /\ b.minted = c.minted /\ b.out = c.out /\ b.made = c.made
      /\ b.alive = c.alive
  BY <1>5, <1>6, <1>7 DEF Begins, Ctx
<1>9. Alike(c, b)
  BY <1>6, <1>8 DEF Alike
<1>10. SoundCtx(b, wire, Judged, epoch)
  <2>1. Quiet(c, b)
    BY <1>6, <1>8 DEF Quiet
  <2> QED BY <1>5, <2>1, QuietSound
<1>11. mem.up /\ UNCHANGED <<acks, direct, covered, serverVars>>
  BY DEF Connect
<1>12. Ends(SendOldest(b), 0, "none")
  BY <1>1, <1>2, <1>3
<1> QED BY <1>5, <1>9, <1>10, <1>11, <1>12, SendOldestSteps

LEMMA RetransmitIs ==
    ASSUME Delivery, Retransmit
    PROVE  SendSteps /\ mem.up
<1>1. PICK f \in PossibleFaults : Ends(SendOldest(Context(f)), 0, "none")
  BY DEF Retransmit
<1>2. PICK c : c = Context(f)
  OBVIOUS
<1>3. Begins(c) /\ SoundCtx(c, wire, Judged, epoch) /\ c.mem.inst <= MaxInstance
  BY <1>2, ContextIs
<1>4. Alike(c, c)
  BY <1>3 DEF Alike, Begins
<1>5. mem.up /\ UNCHANGED <<acks, direct, covered, serverVars>> /\ Ends(SendOldest(c), 0, "none")
  BY <1>1, <1>2 DEF Retransmit
<1> QED BY <1>3, <1>4, <1>5, SendOldestSteps

\* What went out under the id of an entry is that entry.
LEMMA SeenIs ==
    ASSUME NEW q, NEW W, W \subseteq Entry, AllFixed(W), NEW A, QueueOK(q, W, A),
           NEW e \in Held(q), NEW w \in W, Id(e) = Id(w)
    PROVE  WireForm(e) = w
<1>1. e \in Entry /\ w \in Entry /\ Fixed(w)
  BY HeldShape DEF QueueOK, AllFixed
<1>2. /\ e.t = "normal" /\ w.t = "normal" => FrameAgainst(q, e, w, A)
      /\ e.t # "normal" /\ w.t # "normal" /\ Origin(e) = Origin(w) => e = w
  BY DEF QueueOK, Against
<1>3. ASSUME NEW x \in Entry, x.t # "normal" PROVE Id(x)[1] # "normal" /\ Origin(x) = <<Id(x)[2], Id(x)[3]>>
  <2>1. x \in MarkerRecord /\ Id(x) = x.id
    BY <1>3, EntryShape DEF Id
  <2>2. x.id \in {"gap", "cross"} \X Positive \X Positive
    BY <2>1 DEF MarkerRecord
  <2>3. x.id[1] \in {"gap", "cross"}
    BY <2>2
  <2> QED BY <1>3, <2>1, <2>3 DEF Origin
<1>4. ASSUME NEW x \in Entry, x.t = "normal"
      PROVE  Id(x)[1] = "normal" /\ Id(x)[2] = x.inst /\ Id(x)[3] = x.seq
  <2>1. PICK s, a, b : s = "normal" /\ a = x.inst /\ b = x.seq
    OBVIOUS
  <2>2. Id(x) = <<s, a, b>>
    BY <1>4, <2>1 DEF Id
  <2>3. <<s, a, b>>[1] = s /\ <<s, a, b>>[2] = a /\ <<s, a, b>>[3] = b
    OBVIOUS
  <2> QED BY <2>1, <2>2, <2>3
<1>5. CASE e.t = "normal"
  <2>1. w.t = "normal"
    BY <1>1, <1>3, <1>4, <1>5
  <2>2. w.inst = e.inst /\ w.seq = e.seq /\ e.seq \in Nat
    BY <1>1, <1>4, <1>5, <2>1, EntryShape DEF NormalEntry, Positive
  <2>3. w = e
    BY <1>2, <1>5, <2>1, <2>2 DEF FrameAgainst
  <2> QED BY <1>5, <2>3 DEF WireForm
<1>6. CASE e.t # "normal"
  <2>1. w.t # "normal"
    BY <1>1, <1>3, <1>4, <1>6
  <2>2. e = w
    BY <1>1, <1>2, <1>3, <1>6, <2>1
  <2>3. SealedForm(e) = e
    BY <1>1, <2>2, SealedFormIs
  <2> QED BY <2>2, <2>3 DEF WireForm, SealedForm
<1> QED BY <1>5, <1>6

LEMMA WireFormIs ==
    ASSUME NEW e \in Entry
    PROVE  /\ WireForm(e) \in Entry /\ WireForm(e).t = e.t
           /\ e.t = "normal" => WireForm(e) = e
           /\ e.t # "normal" => WireForm(e).frames = e.frames
<1>1. PICK w : w = SealedForm(e)
  OBVIOUS
<1>2. w \in Entry /\ w.t = e.t /\ (e.t # "normal" => w.frames = e.frames)
  BY <1>1, SealedFormIs DEF SameMarker
<1>3. WireForm(e) = w
  BY <1>1 DEF WireForm, SealedForm
<1>4. e.t = "normal" => WireForm(e) = e
  BY DEF WireForm
<1> QED BY <1>2, <1>3, <1>4

\* The server has seen what it acknowledges.
LEMMA Learned ==
    ASSUME Delivery, NEW e \in Held(mem.q), Id(e) \in acks
    PROVE  e \in Entry /\ (e.t = "normal" => Origin(e) \in Judged) /\ (e.t # "normal" => e.frames \subseteq told)
<1>1. PICK q, W : q = mem.q /\ W = wire \cup InFlight(mem.q)
  OBVIOUS
<1>2. QueueOK(q, W, Judged) /\ wire \subseteq Entry /\ AllFixed(wire)
  BY <1>1 DEF Delivery, Sound, Good, SentOK
<1>3. QueueOK(q, wire, Judged)
  <2>1. wire \subseteq W
    BY <1>1
  <2> QED BY <1>2, <2>1, QueueWeaker
<1>4. PICK w \in wire : Id(w) = Id(e) /\ (w.t = "normal" => Origin(w) \in Judged) /\ (w.t # "normal" => w.frames \subseteq told)
  BY DEF Delivery, ServerOK
<1>5. WireForm(e) = w
  BY <1>1, <1>2, <1>3, <1>4, SeenIs
<1>6. e \in Entry
  BY <1>1, <1>2, HeldShape DEF QueueOK
<1> QED BY <1>4, <1>5, <1>6, WireFormIs

\* An acknowledged entry is deleted, and the next one may be sent.
AckSteps(id) ==
    \E c, x, d :
        /\ Handled(c, d, 0, "none") /\ Committed(c, x, Acked(mem.q, id), "queue")
        /\ \E e \in Held(mem.q) : Id(e) = id /\ Acknowledges(mem.q, Acked(mem.q, id), e)
        /\ (x.ok /\ Pumped(x, d)) \/ (~x.ok /\ d = x)
        /\ UNCHANGED <<covered, epoch>>

LEMMA ReceiveAckIs ==
    ASSUME Delivery, NEW id \in acks, ReceiveAck(id)
    PROVE  AckSteps(id) /\ mem.up
<1>1. PICK q, r : q = mem.q /\ r = Acked(mem.q, id)
  OBVIOUS
<1>2. PICK f \in PossibleFaults :
        Ends(IF Commit(Context(f), r, "queue").ok THEN Pump(Commit(Context(f), r, "queue"))
             ELSE Commit(Context(f), r, "queue"), 0, "none")
  BY <1>1 DEF ReceiveAck, IfOk
<1>3. PICK c : c = Context(f)
  OBVIOUS
<1>4. PICK x : x = Commit(c, r, "queue")
  OBVIOUS
<1>5. PICK d : d = Pump(x)
  OBVIOUS
<1>6. Begins(c) /\ SoundCtx(c, wire, Judged, epoch) /\ c.mem.inst <= MaxInstance
  BY <1>3, ContextIs
<1>7. /\ mem.up /\ epoch' = epoch /\ epoch \in Nat /\ UNCHANGED <<acks, direct, mark, applied, told, covered>>
      /\ "none" \in Statuses /\ \E e \in Held(mem.q) : Id(e) = id
  BY DEF ReceiveAck, Delivery, Types, serverVars, Statuses
<1>8. PICK m, stored : m = mem /\ stored = disk.queue
  OBVIOUS
<1>9. /\ Storable(m, r, wire, Judged, epoch)
      /\ \E e \in Held(mem.q) : Id(e) = id /\ Acknowledges(mem.q, r, e)
  <2>1. Sound(m, stored, wire, Judged, epoch)
    BY <1>8 DEF Delivery
  <2>2. \E e \in Held(m.q) : Id(e) = id
    BY <1>7, <1>8
  <2>3. ASSUME NEW e \in Held(m.q), Id(e) = id, e.t = "normal" PROVE Origin(e) \in Judged
    BY <1>8, <2>3, Learned
  <2>4. r = Acked(m.q, id)
    BY <1>1, <1>8
  <2>5. \A e \in Held(m.q) : Id(e) = id /\ e.t = "normal" => Origin(e) \in Judged
    BY <2>3
  <2>6. /\ Storable(m, r, wire, Judged, epoch)
        /\ \E e \in Held(m.q) : Id(e) = id /\ Acknowledges(m.q, r, e)
    BY <2>1, <2>2, <2>4, <2>5, AckedStorable
  <2> QED BY <1>8, <2>6
<1>10. r \in Queue
  BY <1>9 DEF Storable, Good, QueueOK
<1>11. Committed(c, x, r, "queue")
  <2>1. c \in Ctx
    BY <1>6 DEF Begins
  <2> QED BY <1>4, <1>10, <2>1, CommitIs
<1>12. SoundCtx(x, wire, Judged, epoch) /\ x.mem.inst = c.mem.inst
  <2>1. Storable(c.mem, r, wire \cup c.out, Judged, epoch)
    BY <1>6, <1>8, <1>9 DEF Begins
  <2>2. SoundCtx(x, wire, Judged, epoch)
    BY <1>6, <1>11, <2>1, CommitSound
  <2> QED BY <1>11, <2>2 DEF Committed, Steady
<1>13. SoundCtx(d, wire, Judged, epoch) /\ Pumped(x, d) /\ d.mem.inst = x.mem.inst
  BY <1>5, <1>12, PumpIs, PumpedKeeps
<1>14. (x.ok /\ Ends(d, 0, "none")) \/ (~x.ok /\ Ends(x, 0, "none"))
  BY <1>2, <1>3, <1>4, <1>5
<1>15. CASE x.ok /\ Ends(d, 0, "none")
  <2>1. Handled(c, d, 0, "none")
    BY <1>6, <1>7, <1>12, <1>13, <1>15, Plainly
  <2> QED BY <1>1, <1>7, <1>9, <1>11, <1>13, <1>15, <2>1 DEF AckSteps
<1>16. CASE ~x.ok /\ Ends(x, 0, "none")
  <2>1. Handled(c, x, 0, "none")
    BY <1>6, <1>7, <1>12, <1>16, Plainly
  <2> QED BY <1>1, <1>7, <1>9, <1>11, <1>16, <2>1 DEF AckSteps
<1> QED BY <1>7, <1>14, <1>15, <1>16

\* A new instance loads the files.
BootSteps ==
    \E c, d : Handled(c, d, 0, "none") /\ Loaded(c, d) /\ UNCHANGED <<covered, epoch>>

LEMMA LoadedKeeps ==
    ASSUME NEW c, NEW d, Loaded(c, d)
    PROVE  d.mem.inst = c.mem.inst + 1 /\ d.mem.up
<1>1. PICK b, x, y, z : /\ Rebooted(c, b) /\ LoadedQueue(b, x) /\ LoadedMarker(x, y)
                        /\ LoadedOpen(y, z) /\ LoadedAside(z, d)
  BY DEF Loaded
<1>2. LoadKeeps(b, x) /\ LoadKeeps(x, y) /\ LoadKeeps(y, z) /\ LoadKeeps(z, d)
  BY <1>1 DEF LoadedQueue, LoadedMarker, LoadedOpen, LoadedAside
<1> QED BY <1>1, <1>2 DEF Rebooted, LoadKeeps

LEMMA BootIs ==
    ASSUME Delivery, Boot
    PROVE  BootSteps /\ ~mem.up
<1>1. PICK f \in PossibleFaults : Ends(Load(Context(f)), 0, "none")
  BY DEF Boot
<1>2. PICK c : c = Context(f)
  OBVIOUS
<1>3. PICK d : d = Load(c)
  OBVIOUS
<1>4. Begins(c) /\ SoundCtx(c, wire, Judged, epoch) /\ c.mem.inst <= MaxInstance
  BY <1>2, ContextIs
<1>5. /\ ~mem.up /\ mem.inst < MaxInstance /\ epoch' = epoch /\ epoch \in Nat
      /\ UNCHANGED <<acks, direct, mark, applied, told, covered>> /\ "none" \in Statuses
  BY DEF Boot, Delivery, Types, serverVars, Statuses
<1>6. SoundCtx(d, wire, Judged, epoch) /\ Loaded(c, d)
  BY <1>3, <1>4, <1>5, LoadIs
<1>7. d.mem.inst <= MaxInstance
  <2>1. mem.inst \in Nat /\ MaxInstance \in Nat /\ c.mem = mem
    BY <1>4, OutboxAssumption DEF Delivery, Types, Memory, Positive, Begins
  <2>2. d.mem.inst = mem.inst + 1
    BY <1>6, <2>1, LoadedKeeps
  <2> QED BY <1>5, <2>1, <2>2
<1>8. Ends(d, 0, "none")
  BY <1>1, <1>2, <1>3
<1>9. Handled(c, d, 0, "none")
  BY <1>4, <1>5, <1>6, <1>7, <1>8, Plainly
<1> QED BY <1>5, <1>6, <1>9 DEF BootSteps

LEMMA AdoptsKeeps ==
    ASSUME NEW c \in Ctx, NEW d, NEW e, Adopts(c, d, e)
    PROVE  d.mem.inst = c.mem.inst /\ d.mem.up = c.mem.up
  BY DEF Adopts, Committed, Steady

LEMMA AnsweredKeeps ==
    ASSUME NEW c, NEW a, NEW l, NEW human, NEW e, Answered(c, a, l, human, e)
    PROVE  a.c.mem.inst = c.mem.inst /\ a.c.mem.up = c.mem.up
<1>1. ASSUME NEW b, Recovered(b, a, l, e)
      PROVE  a.c.mem.inst = b.mem.inst /\ a.c.mem.up = b.mem.up
  <2>1. PICK r, t : /\ Resolved(b, r) /\ TakenOver(r, t, e)
                    /\ \/ Granted(t, a.c, l)
                       \/ Closed(t, a.c, {Request(l, b.mem.inst)})
    BY <1>1 DEF Recovered
  <2>2. r.mem.inst = b.mem.inst /\ r.mem.up = b.mem.up
    BY <2>1 DEF Resolved
  <2>3. t.mem.inst = r.mem.inst /\ t.mem.up = r.mem.up
    BY <2>1 DEF TakenOver, Committed, Steady
  <2>4. a.c.mem.inst = t.mem.inst /\ a.c.mem.up = t.mem.up
    BY <2>1 DEF Granted, Closed, Steady
  <2> QED BY <2>2, <2>3, <2>4
<1>2. ASSUME NEW o, Opened(c, o, c.mem.open \cup {Request(l, c.mem.inst)}), a.c = o \/ Recovered(o, a, l, e)
      PROVE  a.c.mem.inst = c.mem.inst /\ a.c.mem.up = c.mem.up
  <2>1. o.mem.inst = c.mem.inst /\ o.mem.up = c.mem.up
    BY <1>2 DEF Opened, Steady
  <2> QED BY <1>1, <1>2, <2>1
<1> QED BY <1>2 DEF Answered

\* A start message is answered.
StartSteps(l, human) ==
    \E c, x, a, d, at :
        /\ Handled(c, d, l, at) /\ Adopts(c, x, epoch') /\ Answered(x, a, l, human, epoch')
        /\ \/ a.answer = "needs_manual" /\ Enqueued(a.c, d, FALSE, {}) /\ at = "over" /\ covered' = covered
           \/ a.answer = "admitted" /\ d = a.c /\ d.alive /\ at = "pending" /\ covered' = IF human THEN owed ELSE covered
           \/ /\ a.answer # "needs_manual" /\ Later(a.c, d) /\ at = "over" /\ covered' = covered
              /\ a.answer = "admitted" => d = a.c /\ ~d.alive
        /\ epoch' = IF human THEN epoch + 1 ELSE epoch

LEMMA StartIs ==
    ASSUME Delivery, NEW l \in Launches, NEW human \in BOOLEAN, Start(l, human)
    PROVE  StartSteps(l, human) /\ mem.up /\ launch[l] = "none"
<1>1. PICK E : E = IF human THEN epoch + 1 ELSE epoch
  OBVIOUS
<1>2. /\ mem.up /\ launch[l] = "none" /\ epoch' = E /\ UNCHANGED <<acks, mark, applied, told>>
      /\ epoch \in Nat /\ E \in Nat /\ epoch <= E
  BY <1>1 DEF Start, Delivery, Types
<1> DEFINE ends(c, admitted) ==
             /\ Ends(c, l, IF admitted THEN "pending" ELSE "over")
             /\ covered' = IF admitted /\ human THEN owed ELSE covered
           answered(a) ==
             CASE a.answer = "admitted" -> ends(a.c, a.c.alive) /\ UNCHANGED direct
               [] a.answer = "needs_manual" -> ends(Enqueue(a.c, FALSE, {}), FALSE) /\ UNCHANGED direct
               [] OTHER -> ends(TakeNumbers(a.c, 1), FALSE) /\ SendsDirectly(a.c, 1)
<1>3. \E f \in PossibleFaults : answered(AdmitServerStart(Context(f), l, human, E))
  BY <1>1 DEF Start
<1>4. PICK f \in PossibleFaults : answered(AdmitServerStart(Context(f), l, human, E))
  BY <1>3
<1>5. PICK c : c = Context(f)
  OBVIOUS
<1>6. PICK a : a = AdmitServerStart(c, l, human, E)
  OBVIOUS
<1>7. answered(a)
  BY <1>4, <1>5, <1>6
<1>8. PICK none : none = {}
  OBVIOUS
<1>9. PICK d : d = Enqueue(a.c, FALSE, none)
  OBVIOUS
<1>10. \/ a.answer = "needs_manual" /\ Ends(d, l, "over") /\ covered' = covered /\ UNCHANGED direct
       \/ /\ a.answer = "admitted" /\ a.c.alive /\ Ends(a.c, l, "pending") /\ UNCHANGED direct
          /\ covered' = IF human THEN owed ELSE covered
       \/ /\ a.answer = "admitted" /\ ~a.c.alive /\ Ends(a.c, l, "over") /\ UNCHANGED direct
          /\ covered' = covered
       \/ /\ a.answer \notin {"admitted", "needs_manual"} /\ Ends(TakeNumbers(a.c, 1), l, "over")
          /\ SendsDirectly(a.c, 1) /\ covered' = covered
  BY <1>7, <1>8, <1>9
<1> HIDE DEF ends, answered
<1>11. Begins(c) /\ SoundCtx(c, wire, Judged, epoch) /\ c.mem.inst <= MaxInstance /\ c \in Ctx
  BY <1>5, ContextIs DEF SoundCtx
<1>12. SoundCtx(c, wire, Judged, E)
  <2>1. PICK m, stored, O : m = c.mem /\ stored = c.disk.queue /\ O = wire \cup c.out
    OBVIOUS
  <2>2. Sound(m, stored, O, Judged, epoch) /\ Judged \subseteq Judged
    BY <1>11, <2>1 DEF SoundCtx
  <2>3. Sound(m, stored, O, Judged, E)
    BY <1>2, <2>2, SoundLater
  <2> QED BY <1>11, <2>1, <2>3 DEF SoundCtx
<1>13. /\ SoundCtx(a.c, wire, Judged, E)
       /\ \E x : SoundCtx(x, wire, Judged, E) /\ Adopts(c, x, E) /\ Answered(x, a, l, human, E)
  <2>1. PICK e : e = E
    OBVIOUS
  <2>2. e <= E /\ e \in Nat /\ a = AdmitServerStart(c, l, human, e)
    BY <1>2, <1>6, <2>1
  <2>3. /\ SoundCtx(a.c, wire, Judged, E)
        /\ \E x : SoundCtx(x, wire, Judged, E) /\ Adopts(c, x, e) /\ Answered(x, a, l, human, e)
    BY <1>2, <1>12, <2>2, AdmitIs
  <2> QED BY <2>1, <2>3
<1>14. PICK x : SoundCtx(x, wire, Judged, E) /\ Adopts(c, x, E) /\ Answered(x, a, l, human, E)
  BY <1>13
<1>15. a.c.mem.inst = c.mem.inst /\ a.c.mem.up /\ a.c.mem.inst <= MaxInstance
  BY <1>2, <1>11, <1>14, AdoptsKeeps, AnsweredKeeps DEF Begins
<1>16. SoundCtx(d, wire, Judged, E) /\ Enqueued(a.c, d, FALSE, none) /\ d.mem.inst <= MaxInstance
  <2>1. PICK b : b = a.c
    OBVIOUS
  <2>2. SoundCtx(d, wire, Judged, E) /\ Enqueued(b, d, FALSE, none) /\ d.mem.inst = b.mem.inst
    <3>1. SoundCtx(b, wire, Judged, E) /\ b.mem.up /\ d = Enqueue(b, FALSE, none)
      BY <1>9, <1>13, <1>15, <2>1
    <3> QED BY ONLY ZenonT(60), <3>1, FrameIs
  <2> QED BY <1>15, <2>1, <2>2
<1>17. "over" \in Statuses /\ "pending" \in Statuses
  BY DEF Statuses, Waiting
<1>18. ASSUME NEW z, NEW at \in Statuses, SoundCtx(z, wire, Judged, E), z.mem.inst <= MaxInstance, Ends(z, l, at),
              UNCHANGED direct
       PROVE  Handled(c, z, l, at)
  BY <1>2, <1>11, <1>18, Plainly
<1>19. CASE a.answer = "needs_manual" /\ Ends(d, l, "over") /\ covered' = covered /\ UNCHANGED direct
  <2>1. Handled(c, d, l, "over")
    BY <1>16, <1>17, <1>18, <1>19
  <2> QED BY <1>1, <1>2, <1>8, <1>14, <1>16, <1>19, <2>1 DEF StartSteps
<1>20. CASE /\ a.answer = "admitted" /\ a.c.alive /\ Ends(a.c, l, "pending") /\ UNCHANGED direct
            /\ covered' = IF human THEN owed ELSE covered
  <2>1. Handled(c, a.c, l, "pending")
    BY <1>13, <1>15, <1>17, <1>18, <1>20
  <2> QED BY <1>1, <1>2, <1>14, <1>20, <2>1 DEF StartSteps
<1>21. CASE /\ a.answer = "admitted" /\ ~a.c.alive /\ Ends(a.c, l, "over") /\ UNCHANGED direct
            /\ covered' = covered
  <2>1. Handled(c, a.c, l, "over")
    BY <1>13, <1>15, <1>17, <1>18, <1>21
  <2>2. Later(a.c, a.c)
    BY <1>13, NotLater DEF SoundCtx
  <2> QED BY <1>1, <1>2, <1>14, <1>21, <2>1, <2>2 DEF StartSteps
<1>22. CASE /\ a.answer \notin {"admitted", "needs_manual"} /\ Ends(TakeNumbers(a.c, 1), l, "over")
            /\ SendsDirectly(a.c, 1) /\ covered' = covered
  <2>1. PICK b, n : b = a.c /\ n = 1
    OBVIOUS
  <2>2. PICK y : y = TakeNumbers(b, n)
    OBVIOUS
  <2>3. b \in Ctx /\ n \in Nat /\ SoundCtx(b, wire, Judged, E) /\ SendsDirectly(b, n)
    BY <1>13, <1>22, <2>1 DEF SoundCtx
  <2>4. Later(b, y)
    BY ONLY <2>2, <2>3, NumbersTaken
  <2>5. SoundCtx(y, wire, Judged, E)
    BY ONLY <2>3, <2>4, LaterIsSound
  <2>6. direct \subseteq direct' /\ direct' \subseteq (1..MaxInstance) \X Positive
    BY <2>3, SentDirectly
  <2>7. \E others : EndsWith(y, l, "over", others)
    BY <1>22, <2>1, <2>2 DEF Ends
  <2>8. y.mem.inst <= MaxInstance
    BY <1>15, <2>1, <2>4 DEF Later
  <2>9. Handled(c, y, l, "over")
    BY <1>2, <1>11, <1>17, <2>5, <2>6, <2>7, <2>8 DEF Handled
  <2> QED BY <1>1, <1>2, <1>14, <1>22, <2>1, <2>4, <2>9 DEF StartSteps
<1> QED BY <1>2, <1>10, <1>19, <1>20, <1>21, <1>22

-----------------------------------------------------------------------------
\* Delivery.

\* The server learns more.
LEMMA LearnsDelivery ==
    ASSUME Delivery, UNCHANGED <<mem, disk, minted, launch, epoch, direct, wire>>,
           applied \subseteq applied', applied' \subseteq Frames, mark' \in [1..MaxInstance -> Nat],
           ServerOK(wire, Landed', acks', mark', Judged', told')
    PROVE  Delivery'
<1>1. PICK m, stored, B : m = mem /\ stored = disk.queue /\ B = Judged'
  OBVIOUS
<1>2. Judged \subseteq B
  BY <1>1, JudgedGrows
<1>3. Sound(m, stored, wire, B, epoch)
  <2>1. Sound(m, stored, wire, Judged, epoch) /\ epoch \in Nat /\ epoch <= epoch
    BY <1>1 DEF Delivery, Types
  <2> QED BY ONLY <1>2, <2>1, SoundLater
<1>4. Sound(mem', disk'.queue, wire', Judged', epoch')
  BY <1>1, <1>3
<1>5. Types'
  BY DEF Delivery, Types
<1> QED BY <1>4, <1>5 DEF Delivery

\* A frame up to the server's mark is judged.
LEMMA UpToMark ==
    ASSUME Delivery, NEW i \in 1..MaxInstance, NEW s \in Positive, s <= mark[i]
    PROVE  \/ <<i, s>> \in Judged
           \/ /\ s < mark[i]
              /\ \E w \in wire : w.t = "normal" /\ Origin(w) = <<i, mark[i]>> /\ w.inst = i /\ w.seq = mark[i]
<1>1. PICK k : k = mark[i]
  OBVIOUS
<1>2. k \in Nat /\ k # 0 /\ s <= k /\ s \in Nat /\ direct \subseteq (1..MaxInstance) \X Positive
  BY <1>1 DEF Delivery, Types, Positive
<1>3. /\ <<i, k>> \in Judged
      /\ <<i, k>> \in Landed \/ \E w \in wire : w.t = "normal" /\ Origin(w) = <<i, k>>
  BY <1>1, <1>2 DEF Delivery, ServerOK
<1>4. CASE s = k
  BY <1>3, <1>4
<1>5. CASE <<i, k>> \in Landed
  BY <1>2, <1>5, UpToLanded
<1>6. ASSUME s # k, NEW w \in wire, w.t = "normal", Origin(w) = <<i, k>>
      PROVE  w.inst = i /\ w.seq = k /\ s < k
  <2>1. <<i, k>>[1] = i /\ <<i, k>>[2] = k
    OBVIOUS
  <2>2. PICK a, b : a = w.inst /\ b = w.seq
    OBVIOUS
  <2>3. Origin(w) = <<a, b>> /\ <<a, b>>[1] = a /\ <<a, b>>[2] = b
    BY <1>6, <2>2 DEF Origin
  <2>4. w.inst = i /\ w.seq = k
    BY <1>6, <2>1, <2>2, <2>3
  <2> QED BY <1>2, <1>6, <2>4
<1> QED BY <1>1, <1>3, <1>4, <1>5, <1>6

\* The server receives an entry.
LEMMA ReceiveDelivery ==
    ASSUME Delivery, NEW e \in wire, Receive(e)
    PROVE  Delivery'
<1>1. /\ UNCHANGED <<mem, disk, minted, launch, epoch, direct, wire>> /\ acks' = acks \cup {Id(e)}
      /\ e \in Entry /\ BoundBy(Origin(e), mem) /\ Origin(e) \in Frames /\ mem.inst \in Nat
      /\ mem.inst <= MaxInstance /\ MaxInstance \in Nat /\ epoch \in Nat
      /\ mark \in [1..MaxInstance -> Nat] /\ applied \subseteq Frames
  BY EntryShape, OutboxAssumption DEF Receive, Delivery, Types, Sound, SentOK, Memory, Positive
<1>2. ServerOK(wire, Landed, acks, mark, Judged, told)
  BY DEF Delivery
<1>3. ASSUME NEW B, Judged \subseteq B, NEW T, told \subseteq T, NEW ids, ids = acks \cup {Id(e)},
             e.t = "normal" => Origin(e) \in B, e.t # "normal" => e.frames \subseteq T,
             NEW R, Landed \subseteq R, NEW marks,
             \A j \in 1..MaxInstance : marks[j] = mark[j] \/ (e.t = "normal" /\ Origin(e) = <<j, marks[j]>>)
      PROVE  ServerOK(wire, R, ids, marks, B, T)
  <2>1. ASSUME NEW j \in 1..MaxInstance, marks[j] # 0
        PROVE  /\ <<j, marks[j]>> \in B
               /\ \/ <<j, marks[j]>> \in R
                  \/ \E w \in wire : w.t = "normal" /\ Origin(w) = <<j, marks[j]>>
    <3>1. CASE marks[j] = mark[j]
      BY <1>2, <1>3, <2>1, <3>1 DEF ServerOK
    <3>2. CASE e.t = "normal" /\ Origin(e) = <<j, marks[j]>>
      BY <1>3, <3>2
    <3> QED BY <1>3, <3>1, <3>2
  <2>2. ASSUME NEW id \in ids
        PROVE  \E w \in wire : /\ Id(w) = id
                               /\ w.t = "normal" => Origin(w) \in B
                               /\ w.t # "normal" => w.frames \subseteq T
    <3>1. CASE id = Id(e)
      BY <1>3, <3>1
    <3>2. CASE id \in acks
      <4>1. PICK w \in wire : /\ Id(w) = id
                              /\ w.t = "normal" => Origin(w) \in Judged
                              /\ w.t # "normal" => w.frames \subseteq told
        BY <1>2, <3>2 DEF ServerOK
      <4> QED BY <1>3, <4>1
    <3> QED BY <1>3, <2>2, <3>1, <3>2
  <2> QED BY <2>1, <2>2 DEF ServerOK
<1>4. PICK B, R : B = Judged' /\ R = Landed'
  OBVIOUS
<1>5. CASE e.t # "normal"
  <2>1. told' = told \cup e.frames /\ mark' = mark /\ applied' = applied
    BY <1>5 DEF Receive
  <2>2. Judged \subseteq B /\ Landed \subseteq R
    BY <1>1, <1>4, <2>1, JudgedGrows
  <2>3. ServerOK(wire, R, acks', mark', B, told')
    BY <1>1, <1>3, <1>5, <2>1, <2>2
  <2> QED BY <1>1, <1>4, <2>1, <2>3, LearnsDelivery
<1>6. CASE e.t = "normal"
  <2>1. PICK i, s : i = e.inst /\ s = e.seq
    OBVIOUS
  <2>2. /\ i \in Positive /\ s \in Positive /\ Origin(e) = <<i, s>> /\ Frame(e) = <<i, s>>
        /\ <<i, s>>[1] = i /\ <<i, s>>[2] = s
    BY <1>1, <1>6, <2>1, EntryShape DEF NormalEntry, Origin, Frame
  <2>3. i \in 1..MaxInstance /\ s \in Nat /\ s # 0 /\ mark[i] \in Nat
    BY <1>1, <2>2 DEF BoundBy, Positive
  <2>4. CASE s > mark[i]
    <3>1. mark' = [mark EXCEPT ![i] = s] /\ applied' = applied \cup {<<i, s>>} /\ told' = told
      BY <1>6, <2>1, <2>2, <2>4 DEF Receive
    <3>2. Judged \subseteq B /\ Landed \subseteq R
      BY <1>1, <1>4, <3>1, JudgedGrows
    <3>3. Origin(e) \in B
      BY <1>4, <2>2, <3>1 DEF Judged
    <3>4. \A j \in 1..MaxInstance : mark'[j] = mark[j] \/ (e.t = "normal" /\ Origin(e) = <<j, mark'[j]>>)
      BY <1>1, <1>6, <2>2, <2>3, <3>1
    <3>5. ServerOK(wire, R, acks', mark', B, told')
      BY <1>1, <1>3, <1>6, <3>1, <3>2, <3>3, <3>4
    <3>6. mark' \in [1..MaxInstance -> Nat] /\ applied \subseteq applied' /\ applied' \subseteq Frames
      BY <1>1, <2>2, <2>3, <3>1
    <3> QED BY <1>1, <1>4, <3>5, <3>6, LearnsDelivery
  <2>5. CASE ~(s > mark[i])
    <3>1. mark' = mark /\ applied' = applied /\ told' = told
      BY <1>6, <2>1, <2>5 DEF Receive
    <3>2. Origin(e) \in Judged
      <4>1. CASE <<i, s>> \in Judged
        BY <2>2, <4>1
      <4>2. ASSUME s < mark[i], NEW w \in wire, w.t = "normal", w.inst = i, w.seq = mark[i]
            PROVE  Origin(e) \in Judged
        BY <1>6, <2>1, <4>2 DEF Delivery, Sound, SentOK
      <4> QED BY <2>2, <2>3, <2>5, <4>1, <4>2, UpToMark
    <3>3. Judged \subseteq B /\ Landed \subseteq R
      BY <1>1, <1>4, <3>1, JudgedGrows
    <3>4. ServerOK(wire, R, acks', mark', B, told')
      BY <1>1, <1>3, <1>6, <3>1, <3>2, <3>3
    <3> QED BY <1>1, <1>4, <3>1, <3>4, LearnsDelivery
  <2> QED BY <2>4, <2>5
<1> QED BY <1>5, <1>6

\* The server receives a refusal that was sent directly.
LEMMA ReceiveDirectDelivery ==
    ASSUME Delivery, NEW d \in direct, ReceiveDirect(d)
    PROVE  Delivery'
<1>1. /\ UNCHANGED <<mem, disk, minted, launch, epoch, direct, wire, acks, told>>
      /\ mark' = [mark EXCEPT ![d[1]] = d[2]] /\ applied' = applied \cup {d}
      /\ direct \subseteq (1..MaxInstance) \X Positive /\ MaxInstance \in Nat
      /\ mark \in [1..MaxInstance -> Nat] /\ applied \subseteq Frames
  BY OutboxAssumption DEF ReceiveDirect, Delivery, Types
<1>2. PICK i, k : i = d[1] /\ k = d[2]
  OBVIOUS
<1>3. i \in 1..MaxInstance /\ k \in Positive /\ k \in Nat /\ d = <<i, k>>
  BY <1>1, <1>2 DEF Positive
<1>4. mark' \in [1..MaxInstance -> Nat] /\ applied \subseteq applied' /\ applied' \subseteq Frames
  BY <1>1, <1>2, <1>3 DEF Frames, Positive
<1>5. PICK B, R : B = Judged' /\ R = Landed'
  OBVIOUS
<1>6. Judged \subseteq B /\ Landed \subseteq R
  BY <1>1, <1>4, <1>5, JudgedGrows
<1>7. d \in B /\ d \in R
  BY <1>1, <1>5 DEF Judged, Landed
<1>8. ServerOK(wire, R, acks, mark, B, told)
  <2>1. ServerOK(wire, Landed, acks, mark, Judged, told) /\ wire \subseteq wire
    BY DEF Delivery
  <2> QED BY ONLY <1>6, <2>1, ServerKeeps
<1>9. \A j \in 1..MaxInstance : mark'[j] = mark[j] \/ <<j, mark'[j]>> = d
  BY <1>1, <1>2, <1>3
<1>10. ServerOK(wire, R, acks', mark', B, told')
  <2>1. ASSUME NEW j \in 1..MaxInstance, mark'[j] # 0
        PROVE  /\ <<j, mark'[j]>> \in B
               /\ \/ <<j, mark'[j]>> \in R
                  \/ \E w \in wire : w.t = "normal" /\ Origin(w) = <<j, mark'[j]>>
    BY <1>7, <1>8, <1>9, <2>1 DEF ServerOK
  <2> QED BY <1>1, <1>8, <2>1 DEF ServerOK
<1> QED BY <1>1, <1>4, <1>5, <1>10, LearnsDelivery

\* The daemon crashes, or its link breaks, or its queue file is damaged.
LEMMA QuietDelivery ==
    ASSUME Delivery, NEW m \in Memory, mem' = m,
           \/ m.up = mem.up /\ m.inst = mem.inst /\ m.seq = mem.seq /\ m.q = mem.q
           \/ ~m.up /\ m.inst = mem.inst /\ m.q = EmptyQueue,
           disk' \in Files, disk'.queue = disk.queue, launch' \in [Launches -> Statuses],
           UNCHANGED <<minted, epoch, direct, wire, acks, mark, applied, told>>
    PROVE  Delivery'
<1>1. PICK k, stored : k = mem /\ stored = disk.queue
  OBVIOUS
<1>2. Sound(k, stored, wire, Judged, epoch) /\ epoch \in Nat
  BY <1>1 DEF Delivery, Types
<1>3. Sound(m, stored, wire, Judged, epoch)
  <2>1. CASE m.up = mem.up /\ m.inst = mem.inst /\ m.seq = mem.seq /\ m.q = mem.q
    <3>1. \A x : BoundBy(x, m) <=> BoundBy(x, k)
      BY <1>1, <2>1 DEF BoundBy
    <3> QED BY <1>1, <1>2, <2>1, <3>1 DEF Sound, Good, SentOK
  <2>2. CASE ~m.up /\ m.inst = mem.inst /\ m.q = EmptyQueue
    <3>1. m.inst = k.inst
      BY <1>1, <2>2
    <3> QED BY <1>2, <2>2, <3>1, EmptySound
  <2> QED BY <2>1, <2>2
<1>4. Types'
  BY DEF Delivery, Types
<1>5. Landed' = Landed /\ Judged' = Judged
  BY JudgedKept
<1> QED BY <1>1, <1>3, <1>4, <1>5 DEF Delivery

LEMMA DisconnectDelivery ==
    ASSUME Delivery, Disconnect
    PROVE  Delivery'
<1>1. PICK m : m = [mem EXCEPT !.link = FALSE]
  OBVIOUS
<1>2. m \in Memory /\ m.up = mem.up /\ m.inst = mem.inst /\ m.seq = mem.seq /\ m.q = mem.q
  BY <1>1 DEF Delivery, Types, Memory
<1>3. mem' = m /\ UNCHANGED <<disk, minted, launch, epoch, direct, wire, acks, mark, applied, told>>
  BY <1>1 DEF Disconnect, serverVars
<1>4. disk \in Files /\ launch \in [Launches -> Statuses]
  BY DEF Delivery, Types
<1> QED BY <1>2, <1>3, <1>4, QuietDelivery

LEMMA CrashDelivery ==
    ASSUME Delivery, Crash
    PROVE  Delivery'
<1>1. PICK m : m = [FreshMemory(mem.inst) EXCEPT !.up = FALSE]
  OBVIOUS
<1>2. m \in Memory /\ ~m.up /\ m.inst = mem.inst /\ m.q = EmptyQueue
  BY <1>1, DownIs DEF Delivery, Types
<1>3. mem' = m /\ UNCHANGED <<disk, minted, epoch, direct, wire, acks, mark, applied, told>>
  BY <1>1 DEF Crash, serverVars
<1>4. disk \in Files /\ launch \in [Launches -> Statuses] /\ "over" \in Statuses
  BY DEF Delivery, Types, Statuses
<1>5. launch' \in [Launches -> Statuses]
  BY <1>4 DEF Crash, Killed
<1> QED BY <1>2, <1>3, <1>4, <1>5, QuietDelivery

LEMMA DamageDelivery ==
    ASSUME Delivery, Damage
    PROVE  Delivery'
<1>1. PICK m, f : m = mem /\ f = [disk EXCEPT !.damaged = TRUE]
  OBVIOUS
<1>2. m \in Memory /\ disk \in Files /\ launch \in [Launches -> Statuses]
  BY <1>1 DEF Delivery, Types
<1>3. f \in Files /\ f.queue = disk.queue
  BY <1>1, <1>2 DEF Files
<1>4. mem' = m /\ disk' = f /\ UNCHANGED <<minted, launch, epoch, direct, wire, acks, mark, applied, told>>
  BY <1>1 DEF Damage, serverVars
<1> QED BY <1>1, <1>2, <1>3, <1>4, QuietDelivery

LEMMA DeliveryInit ==
    ASSUME Init
    PROVE  Delivery
<1>1. PICK q, g, r : q = EmptyQueue /\ g = NoGrant /\ r = NoResolution
  OBVIOUS
<1>2. /\ q \in Queue /\ g \in Grants /\ r \in Resolutions /\ q.epoch = 0 /\ q.human = 0
      /\ Held(q) = {} /\ Evidence(q) = {} /\ InFlight(q) = {} /\ MarkerCaps(q)
      /\ Cardinality(Normals(q)) <= NormalCap
  BY <1>1, EmptyIsOK DEF QueueOK, Grants, NoGrant, Resolutions, NoResolution
<1>3. mem \in Memory /\ mem.inst = 1 /\ mem.q = q
  <2>1. mem = FreshMemory(1)
    BY DEF Init
  <2> QED BY <1>1, <1>2, <2>1 DEF FreshMemory, Memory, Positive
<1>4. disk \in Files /\ disk.queue = q
  <2>1. disk = EmptyDisk
    BY DEF Init
  <2> QED BY <1>1, <1>2, <2>1 DEF EmptyDisk, Files
<1>5. /\ minted = 0 /\ epoch = 0 /\ wire = {} /\ acks = {} /\ applied = {} /\ told = {} /\ direct = {}
      /\ launch = [l \in Launches |-> "none"] /\ mark = [i \in 1..MaxInstance |-> 0]
  BY DEF Init
<1>6. Types
  <2>1. 1 <= MaxInstance
    BY OutboxAssumption
  <2>2. "none" \in Statuses
    BY DEF Statuses
  <2> QED BY <1>3, <1>4, <1>5, <2>1, <2>2 DEF Types
<1>7. QueueOK(q, wire \cup InFlight(q), Judged)
  BY <1>1, EmptyIsOK
<1>8. Good(q, mem, wire, Judged, epoch)
  <2>1. QueueOK(q, wire \cup InFlight(mem.q), Judged)
    BY <1>3, <1>7
  <2>2. Fits(q, epoch)
    BY <1>2, <1>5 DEF Fits
  <2> QED BY <1>2, <2>1, <2>2 DEF Good
<1>9. SentOK(mem, wire, Judged)
  <2>1. PICK O, A : O = wire /\ A = Judged
    OBVIOUS
  <2>2. O = {}
    BY <1>5, <2>1
  <2>3. SentOK(mem, O, A)
    BY ONLY <2>2 DEF SentOK, AllFixed
  <2> QED BY <2>1, <2>3
<1>10. Sound(mem, disk.queue, wire, Judged, epoch)
  BY <1>3, <1>4, <1>8, <1>9 DEF Sound
<1>11. ServerOK(wire, Landed, acks, mark, Judged, told)
  BY <1>5 DEF ServerOK
<1> QED BY <1>6, <1>10, <1>11 DEF Delivery

LEMMA DeliveryStutter ==
    ASSUME Delivery, UNCHANGED vars
    PROVE  Delivery'
<1>1. Landed' = Landed /\ Judged' = Judged
  BY JudgedKept DEF vars, serverVars
<1>2. Types'
  BY DEF Delivery, Types, vars, serverVars
<1> QED BY <1>1, <1>2 DEF Delivery, vars, serverVars

LEMMA DeliveryNext ==
    ASSUME Delivery, Next
    PROVE  Delivery'
<1>1. ASSUME NEW l \in Launches, NEW human \in BOOLEAN, Start(l, human) PROVE Delivery'
  BY <1>1, StartIs, HandledDelivery DEF StartSteps
<1>2. ASSUME NEW l \in Launches, Gate(l) PROVE Delivery'
  BY <1>2, GateIs, HandledDelivery DEF GateSteps
<1>3. ASSUME NEW l \in Launches, OpenProcess(l) PROVE Delivery'
  BY <1>3, OpenProcessIs, HandledDelivery DEF OpenSteps
<1>4. ASSUME NEW l \in Launches, Spawned(l) PROVE Delivery'
  BY <1>4, SpawnedIs, HandledDelivery DEF FrameSteps
<1>5. ASSUME NEW l \in Launches, SpawnFails(l) PROVE Delivery'
  BY <1>5, SpawnFailsIs, HandledDelivery DEF FailSteps
<1>6. ASSUME NEW l \in Launches, Exited(l) PROVE Delivery'
  BY <1>6, ExitedIs, HandledDelivery DEF FrameSteps
<1>7. ASSUME NEW l \in Launches, NEW turn \in BOOLEAN, Outcome(l, turn) PROVE Delivery'
  BY <1>7, OutcomeIs, HandledDelivery DEF FrameSteps
<1>8. CASE Connect
  BY <1>8, ConnectIs, HandledDelivery DEF SendSteps
<1>9. CASE Retransmit
  BY <1>9, RetransmitIs, HandledDelivery DEF SendSteps
<1>10. ASSUME NEW id \in acks, ReceiveAck(id) PROVE Delivery'
  BY <1>10, ReceiveAckIs, HandledDelivery DEF AckSteps
<1>11. CASE Boot
  BY <1>11, BootIs, HandledDelivery DEF BootSteps
<1>12. CASE Disconnect \/ Crash \/ Damage
  BY <1>12, DisconnectDelivery, CrashDelivery, DamageDelivery
<1>13. ASSUME NEW e \in wire, Receive(e) PROVE Delivery'
  BY <1>13, ReceiveDelivery
<1>14. ASSUME NEW d \in direct, ReceiveDirect(d) PROVE Delivery'
  BY <1>14, ReceiveDirectDelivery
<1> QED BY <1>1, <1>2, <1>3, <1>4, <1>5, <1>6, <1>7, <1>8, <1>9, <1>10, <1>11, <1>12, <1>13, <1>14 DEF Next

\* The invariant of the outbox: queues and wire stay sound, whatever fails.  A
\* queued entry is sent only after the older frames of its instance were
\* applied or overtaken by a direct refusal (sendOldest, settleLaunches).
THEOREM OutboxDelivers == Spec => []Delivery
<1>1. Init => Delivery
  BY DeliveryInit
<1>2. Delivery /\ [Next]_vars => Delivery'
  BY DeliveryNext, DeliveryStutter
<1> QED BY <1>1, <1>2, PTL DEF Spec

LEMMA DeliveredTypes ==
    ASSUME Delivery
    PROVE  OutboxTypeOK
<1>1. ASSUME NEW q, Good(q, mem, wire, Judged, epoch)
      PROVE  /\ Cardinality(Normals(q)) <= NormalCap
             /\ Cardinality(GapInstances(q)) <= GapInstancesMax
             /\ \A i \in GapInstances(q) : Cardinality(GapsOf(q, i)) <= GapsPerInstanceMax
             /\ Cardinality(Crosses(q)) <= CrossMax
             /\ q.sending => q.entries # <<>>
             /\ q.human <= q.epoch /\ q.epoch <= epoch
  BY <1>1 DEF Good, Fits, MarkerCaps, QueueOK, HeadFixed
<1> QED BY <1>1 DEF Delivery, Sound, OutboxTypeOK

\* Caps and epochs, in memory and on disk (appendToOutbox, applyOutboxAck,
\* adoptTakeoverEpoch).
THEOREM OutboxTypeCorrect == Spec => []OutboxTypeOK
<1>1. Delivery => OutboxTypeOK
  BY DeliveredTypes
<1> QED BY <1>1, OutboxDelivers, PTL

LEMMA DeliveredOnce ==
    ASSUME Delivery
    PROVE  NothingSwallowed
<1>1. ASSUME NEW q, Good(q, mem, wire, Judged, epoch), NEW n \in Normals(q), n.seq <= mark[n.inst]
      PROVE  Frame(n) \in Judged
  <2>1. PICK W : W = wire \cup InFlight(mem.q)
    OBVIOUS
  <2>2. QueueOK(q, W, Judged) /\ q \in Queue
    BY <1>1, <2>1 DEF Good, QueueOK
  <2>3. PICK i, s : i = n.inst /\ s = n.seq
    OBVIOUS
  <2>4. /\ i \in Positive /\ s \in Positive /\ n.t = "normal" /\ n \in Held(q)
        /\ Origin(n) = <<i, s>> /\ Frame(n) = <<i, s>> /\ <<i, s>>[1] = i
    BY <2>2, <2>3, Kinds DEF NormalEntry, Origin, Frame
  <2>5. BoundBy(Origin(n), mem)
    BY <1>1, <2>2, <2>4, OriginsHeld DEF Good
  <2>6. i \in 1..MaxInstance /\ mark[i] \in Nat /\ s \in Nat /\ s # 0
    <3>1. mem.inst \in Nat /\ mem.inst <= MaxInstance /\ MaxInstance \in Nat /\ mark \in [1..MaxInstance -> Nat]
      BY OutboxAssumption DEF Delivery, Types, Memory, Positive
    <3> QED BY <2>4, <2>5, <3>1 DEF BoundBy, Positive
  <2>7. s <= mark[i]
    BY <1>1, <2>3, <2>6
  <2>8. ASSUME s < mark[i], NEW w \in wire, w.t = "normal", w.inst = i, w.seq = mark[i]
        PROVE  FALSE
    <3>1. FrameAgainst(q, n, w, Judged)
      BY <2>1, <2>2, <2>4, <2>8 DEF QueueOK, Against
    <3> QED BY <2>3, <2>6, <2>8, <3>1 DEF FrameAgainst
  <2> QED BY <2>4, <2>6, <2>7, <2>8, UpToMark
<1> QED BY <1>1 DEF Delivery, Sound, NothingSwallowed, Judged

\* No queued frame lies below the server's watermark unless it was applied or a
\* direct refusal overtook it: the sequence numbers of a daemon instance, its
\* queue and what it sends again keep one order through folding, sealing,
\* crashes and reloads (sendOldest, routeAgentManagerFrame).
THEOREM NothingIsSwallowed == Spec => []NothingSwallowed
<1>1. Delivery => NothingSwallowed
  BY DeliveredOnce
<1> QED BY <1>1, OutboxDelivers, PTL

LEMMA DeliveredMeaning ==
    ASSUME Delivery
    PROVE  AckMeansSeen
<1>1. PICK q, W : q = mem.q /\ W = wire \cup InFlight(mem.q)
  OBVIOUS
<1>2. QueueOK(q, W, Judged) /\ wire \subseteq Entry /\ AllFixed(wire)
  BY <1>1 DEF Delivery, Sound, Good, SentOK
<1>3. QueueOK(q, wire, Judged)
  <2>1. wire \subseteq W
    BY <1>1
  <2> QED BY <1>2, <2>1, QueueWeaker
<1>4. \A e \in Held(q), w \in wire : Id(e) = Id(w) => WireForm(e) = w
  BY <1>2, <1>3, SeenIs
<1> QED BY <1>1, <1>4 DEF AckMeansSeen

\* What went out under an id is what the queue holds under it (sealing on send).
THEOREM AcksMeanSeen == Spec => []AckMeansSeen
<1>1. Delivery => AckMeansSeen
  BY DeliveredMeaning
<1> QED BY <1>1, OutboxDelivers, PTL

-----------------------------------------------------------------------------
\* Remembering what is lost.

\* A daemon that starts from files f will refuse automatic starts.
Doubt(f) ==
    \/ f.damaged
    \/ f.marker \notin {0, f.resolution.marker}
    \/ ~(f.open \subseteq f.resolution.open)
    \/ ~(f.aside \subseteq f.resolution.aside)

\* Memory m against files f after n markers; N are the open entries of launches
\* that still need them.
Tracked(m, f, n, N) ==
    /\ f.marker <= n /\ f.resolution.marker <= n /\ m.bad <= n
    /\ m.bad > 0 => f.marker = m.bad /\ f.resolution.marker # m.bad
    /\ \A o \in f.open \cup m.open : o.inst <= m.inst
    /\ \A o \in f.resolution.open : o.inst < m.inst
    /\ \A i \in f.aside \cup f.resolution.aside : i <= m.inst
    /\ m.up => ~f.damaged
    /\ N \subseteq m.open \cap f.open /\ \A o \in N : o.inst = m.inst

\* Of the evidence D, queue q passes over what is known (K) or blocks a start.
Passed(q, K, D) ==
    /\ \A b \in Markers(q) : b.epoch < q.human => b.frames \cap D \subseteq K
    /\ \A n \in Normals(q) : n.turn => Origin(n) \notin D

GrantPassed(m, K, D) ==
    \A g \in m.grant.known : \A x \in g.frames : x \in Frames /\ BoundBy(x, m) /\ (x \in D => x \in K)

\* What the files alone remember of D.
Kept(f, K, D) ==
    Passed(f.queue, K, D) /\ (~Doubt(f) => D \subseteq K \cup Evidence(f.queue))

\* What a running daemon remembers.
Minded(m, f, K, D) ==
    /\ Passed(m.q, K, D) /\ GrantPassed(m, K, D)
    /\ m.bad = Reliable => f.queue = m.q
    /\ m.bad = Reliable \/ ~Doubt(f) => D \subseteq K \cup Evidence(m.q)

Aware(c, N, K, D) ==
    /\ c \in Ctx
    /\ Tracked(c.mem, c.disk, c.minted, N) /\ Kept(c.disk, K, D) /\ Minded(c.mem, c.disk, K, D)

\* The numbers of a context.
LEMMA CtxNumbers ==
    ASSUME NEW c \in Ctx
    PROVE  /\ c.minted \in Nat /\ c.disk.marker \in Nat /\ c.disk.resolution.marker \in Nat
           /\ c.mem.bad \in Nat \cup {Reliable} /\ Reliable = -1 /\ c.mem.inst \in Nat /\ c.mem.inst # 0
           /\ c.mem \in Memory /\ c.disk \in Files /\ c.mem.q \in Queue /\ c.disk.queue \in Queue
           /\ c.mem.open \subseteq Opens /\ c.disk.open \subseteq Opens /\ c.disk.resolution.open \subseteq Opens
           /\ c.disk.aside \subseteq Positive /\ c.disk.resolution.aside \subseteq Positive
           /\ \A o \in Opens : o.inst \in Nat
  BY DEF Ctx, Memory, Files, Resolutions, Reliable, Positive, Opens

\* A new marker leaves doubt.
LEMMA SteadyTracked ==
    ASSUME NEW c \in Ctx, NEW N, Tracked(c.mem, c.disk, c.minted, N), NEW d, Steady(c, d), MarkedBad(c, d),
           NEW M, M \subseteq d.mem.open \cap d.disk.open, \A o \in M : o.inst = c.mem.inst,
           \A o \in d.mem.open \cup d.disk.open : o.inst <= c.mem.inst
    PROVE  /\ Tracked(d.mem, d.disk, d.minted, M)
           /\ d.mem.bad = Reliable => c.mem.bad = Reliable
           /\ Doubt(c.disk) /\ d.disk.open = c.disk.open => Doubt(d.disk)
           /\ d.mem.bad > 0 => Doubt(d.disk)
<1>1. d \in Ctx
  BY DEF Steady
<1>2. /\ c.minted \in Nat /\ c.disk.marker \in Nat /\ c.disk.resolution.marker \in Nat
      /\ c.mem.bad \in Nat \cup {Reliable} /\ Reliable = -1
      /\ d.minted \in Nat /\ d.disk.marker \in Nat /\ d.mem.bad \in Nat \cup {Reliable}
  BY <1>1, CtxNumbers
<1>3. /\ d.disk.resolution = c.disk.resolution /\ c.minted <= d.minted
      /\ d.disk.marker = c.disk.marker \/ (c.minted < d.disk.marker /\ d.disk.marker <= d.minted)
      /\ d.disk.aside = c.disk.aside /\ d.disk.damaged = c.disk.damaged
      /\ d.mem.inst = c.mem.inst /\ d.mem.up = c.mem.up
  BY DEF Steady
<1>4. d.disk.marker <= d.minted /\ d.disk.resolution.marker <= d.minted /\ d.mem.bad <= d.minted
  BY <1>2, <1>3 DEF Tracked, MarkedBad
<1>5. d.mem.bad > 0 => d.disk.marker = d.mem.bad /\ d.disk.resolution.marker # d.mem.bad
  BY <1>2, <1>3 DEF Tracked, MarkedBad
<1>6. Tracked(d.mem, d.disk, d.minted, M)
  <2>1. /\ \A o \in d.disk.resolution.open : o.inst < d.mem.inst
        /\ \A i \in d.disk.aside \cup d.disk.resolution.aside : i <= d.mem.inst
        /\ d.mem.up => ~d.disk.damaged
    BY <1>3 DEF Tracked
  <2> QED BY <1>3, <1>4, <1>5, <2>1 DEF Tracked
<1>7. d.mem.bad = Reliable => c.mem.bad = Reliable
  BY <1>2 DEF MarkedBad
<1>8. Doubt(c.disk) /\ d.disk.open = c.disk.open => Doubt(d.disk)
  <2>1. d.disk.marker # c.disk.marker => d.disk.marker \notin {0, d.disk.resolution.marker}
    BY <1>2, <1>3 DEF Tracked
  <2> QED BY <1>3, <2>1 DEF Doubt
<1>9. d.mem.bad > 0 => Doubt(d.disk)
  BY <1>2, <1>5 DEF Doubt
<1> QED BY <1>6, <1>7, <1>8, <1>9

\* A current open entry leaves doubt.
LEMMA OpenDoubt ==
    ASSUME NEW c \in Ctx, NEW N, Tracked(c.mem, c.disk, c.minted, N), N # {}
    PROVE  Doubt(c.disk)
<1>1. PICK o \in N : TRUE
  OBVIOUS
<1>2. o \in c.disk.open /\ o.inst = c.mem.inst
  BY <1>1 DEF Tracked
<1>3. o \notin c.disk.resolution.open
  BY <1>2, CtxNumbers DEF Tracked
<1> QED BY <1>2, <1>3 DEF Doubt

\* Marking is steady.
LEMMA MarksSteady ==
    ASSUME NEW c, NEW d, Marks(c, d)
    PROVE  Steady(c, d)
  BY DEF Marks, Steady

\* Queue q is stored, or not; it accounts for evidence F where the old one did
\* for D.
LEMMA CommitAware ==
    ASSUME NEW c, NEW N, NEW K, NEW D, Aware(c, N, K, D), NEW q, NEW file, NEW d, Committed(c, d, q, file),
           NEW F, F = D \/ Doubt(c.disk),
           Passed(q, K, F), Passed(c.mem.q, K, F), Passed(c.disk.queue, K, F), GrantPassed(c.mem, K, F),
           D \subseteq K \cup Evidence(c.mem.q) => F \subseteq K \cup Evidence(q)
    PROVE  Aware(d, N, K, F)
<1>0. c \in Ctx /\ Tracked(c.mem, c.disk, c.minted, N) /\ Kept(c.disk, K, D) /\ Minded(c.mem, c.disk, K, D)
  BY DEF Aware
<1>1. /\ Steady(c, d) /\ MarkedBad(c, d) /\ d.mem.open = c.mem.open /\ d.disk.open = c.disk.open
      /\ d.disk.queue \in {c.disk.queue, q}
      /\ d.ok => d.mem.q = q /\ d.disk.queue = q /\ (d.mem.bad = Reliable <=> c.mem.bad = Reliable)
      /\ ~d.ok => d.mem.q = c.mem.q /\ d.mem.bad # Reliable
  BY DEF Committed
<1>2. /\ Tracked(d.mem, d.disk, d.minted, N) /\ (d.mem.bad = Reliable => c.mem.bad = Reliable)
      /\ Doubt(c.disk) => Doubt(d.disk)
  <2>1. N \subseteq d.mem.open \cap d.disk.open /\ (\A o \in N : o.inst = c.mem.inst)
        /\ (\A o \in d.mem.open \cup d.disk.open : o.inst <= c.mem.inst)
    BY <1>0, <1>1 DEF Tracked
  <2> QED BY <1>0, <1>1, <2>1, SteadyTracked
<1>3. d \in Ctx /\ GrantPassed(d.mem, K, F)
  <2>1. d \in Ctx /\ d.mem.grant = c.mem.grant /\ d.mem.inst = c.mem.inst /\ d.mem.up = c.mem.up /\ d.mem.seq = c.mem.seq
    BY <1>1 DEF Steady
  <2> QED BY <2>1 DEF GrantPassed, BoundBy
<1>4. Passed(d.mem.q, K, F) /\ Passed(d.disk.queue, K, F)
  BY <1>1
<1>5. ~Doubt(c.disk) => F \subseteq K \cup Evidence(q) /\ F \subseteq K \cup Evidence(c.mem.q) /\ F \subseteq K \cup Evidence(c.disk.queue)
  BY <1>0 DEF Minded, Kept
<1>6. c.mem.bad = Reliable => F \subseteq K \cup Evidence(q)
  BY <1>0 DEF Minded
<1>7. Kept(d.disk, K, F)
  BY <1>1, <1>2, <1>4, <1>5 DEF Kept
<1>8. Minded(d.mem, d.disk, K, F)
  <2>1. CASE d.ok
    BY <1>1, <1>2, <1>3, <1>4, <1>5, <1>6, <2>1 DEF Minded
  <2>2. CASE ~d.ok
    BY <1>1, <1>2, <1>3, <1>4, <1>5, <2>2 DEF Minded
  <2> QED BY <2>1, <2>2
<1> QED BY <1>2, <1>3, <1>7, <1>8 DEF Aware

\* The evidence cannot be stored.
LEMMA MarksAware ==
    ASSUME NEW c, NEW N, NEW K, NEW D, Aware(c, N, K, D), NEW d, Marks(c, d), MarkedBad(c, d), d.mem.bad # Reliable,
           NEW F, F = D \/ Doubt(c.disk),
           Passed(c.mem.q, K, F), Passed(c.disk.queue, K, F), GrantPassed(c.mem, K, F)
    PROVE  Aware(d, N, K, F)
<1>0. c \in Ctx /\ Tracked(c.mem, c.disk, c.minted, N) /\ Kept(c.disk, K, D) /\ Minded(c.mem, c.disk, K, D)
  BY DEF Aware
<1>1. /\ Steady(c, d) /\ d.mem.open = c.mem.open /\ d.disk.open = c.disk.open
      /\ d.disk.queue = c.disk.queue /\ d.mem.q = c.mem.q
  BY MarksSteady DEF Marks
<1>2. Tracked(d.mem, d.disk, d.minted, N) /\ (Doubt(c.disk) => Doubt(d.disk))
  <2>1. N \subseteq d.mem.open \cap d.disk.open /\ (\A o \in N : o.inst = c.mem.inst)
        /\ (\A o \in d.mem.open \cup d.disk.open : o.inst <= c.mem.inst)
    BY <1>0, <1>1 DEF Tracked
  <2> QED BY <1>0, <1>1, <2>1, SteadyTracked
<1>3. d \in Ctx /\ GrantPassed(d.mem, K, F)
  <2>1. d \in Ctx /\ d.mem.grant = c.mem.grant /\ d.mem.inst = c.mem.inst /\ d.mem.up = c.mem.up /\ d.mem.seq = c.mem.seq
    BY <1>1 DEF Steady
  <2> QED BY <2>1 DEF GrantPassed, BoundBy
<1>4. ~Doubt(c.disk) => F \subseteq K \cup Evidence(c.mem.q) /\ F \subseteq K \cup Evidence(c.disk.queue)
  BY <1>0 DEF Minded, Kept
<1> QED BY <1>1, <1>2, <1>3, <1>4 DEF Aware, Kept, Minded

\* What was sent, and a link or a grant that is spent, say nothing of evidence.
LEMMA SendsAware ==
    ASSUME NEW c, NEW N, NEW K, NEW D, Aware(c, N, K, D), NEW d, Sends(c, d)
    PROVE  Aware(d, N, K, D)
  BY DEF Aware, Sends

LEMMA AlikeAware ==
    ASSUME NEW c, NEW N, NEW K, NEW D, Aware(c, N, K, D), NEW d, Alike(c, d)
    PROVE  Aware(d, N, K, D)
<1>1. GrantPassed(d.mem, K, D)
  BY DEF Aware, Alike, Minded, GrantPassed, BoundBy, NoGrant
<1>2. Tracked(d.mem, d.disk, d.minted, N)
  BY DEF Aware, Alike, Tracked
<1> QED BY <1>1, <1>2 DEF Aware, Alike, Minded

\* Sealing passes over nothing.
LEMMA ForwardsPassed ==
    ASSUME NEW p, NEW q, Forwards(p, q)
    PROVE  Evidence(q) = Evidence(p) /\ \A K, D : Passed(p, K, D) => Passed(q, K, D)
<1>1. Sealing(p, q) /\ q.human = p.human
  BY DEF Forwards
<1>2. Evidence(q) = Evidence(p) /\ Normals(q) = Normals(p)
  BY <1>1, SealingEvidence
<1>3. ASSUME NEW K, NEW D, Passed(p, K, D) PROVE Passed(q, K, D)
  <2>1. ASSUME NEW b \in Markers(q), b.epoch < q.human PROVE b.frames \cap D \subseteq K
    <3>1. PICK k \in Markers(p) : SameMarker(k, b)
      BY <1>1 DEF Sealing
    <3> QED BY <1>1, <1>3, <2>1, <3>1 DEF SameMarker, Passed
  <2> QED BY <1>2, <1>3, <2>1 DEF Passed
<1> QED BY <1>2, <1>3

LEMMA PumpedAware ==
    ASSUME NEW c, NEW N, NEW K, NEW D, Aware(c, N, K, D), NEW d, Pumped(c, d)
    PROVE  Aware(d, N, K, D)
<1>1. PICK x : (x = c \/ \E r : Forwards(c.mem.q, r) /\ Committed(c, x, r, "queue")) /\ Sends(x, d)
  BY DEF Pumped
<1>2. ASSUME NEW r, Forwards(c.mem.q, r), Committed(c, x, r, "queue") PROVE Aware(x, N, K, D)
  <2>1. /\ Passed(c.mem.q, K, D) /\ Passed(c.disk.queue, K, D) /\ GrantPassed(c.mem, K, D)
    BY DEF Aware, Minded, Kept
  <2>2. Passed(r, K, D) /\ (D \subseteq K \cup Evidence(c.mem.q) => D \subseteq K \cup Evidence(r))
    BY <1>2, <2>1, ForwardsPassed
  <2> QED BY <1>2, <2>1, <2>2, CommitAware
<1> QED BY <1>1, <1>2, SendsAware

\* A current entry r is opened.
LEMMA OpenedAware ==
    ASSUME NEW c, NEW N, NEW K, NEW D, Aware(c, N, K, D), NEW r, r.inst = c.mem.inst,
           NEW d, Opened(c, d, c.mem.open \cup {r})
    PROVE  Aware(d, N, K, D) /\ (d.ok => Aware(d, N \cup {r}, K, D))
<1>0. c \in Ctx /\ Tracked(c.mem, c.disk, c.minted, N) /\ Kept(c.disk, K, D) /\ Minded(c.mem, c.disk, K, D)
  BY DEF Aware
<1>1. PICK o : o = c.mem.open \cup {r}
  OBVIOUS
<1>2. /\ Steady(c, d) /\ MarkedBad(c, d) /\ d.mem.q = c.mem.q /\ d.disk.queue = c.disk.queue
      /\ d.disk.open \in {c.disk.open, o}
      /\ d.ok => d.mem.open = o /\ d.disk.open = o
      /\ ~d.ok => d.mem.open = c.mem.open
  BY <1>1 DEF Opened
<1>3. c.mem.inst <= c.mem.inst
  BY <1>0, CtxNumbers
<1>4. /\ N \subseteq d.mem.open \cap d.disk.open /\ (\A x \in N : x.inst = c.mem.inst)
      /\ (\A x \in d.mem.open \cup d.disk.open : x.inst <= c.mem.inst)
  BY <1>0, <1>1, <1>2, <1>3 DEF Tracked
<1>5. /\ Tracked(d.mem, d.disk, d.minted, N) /\ (d.mem.bad = Reliable => c.mem.bad = Reliable)
      /\ Doubt(c.disk) /\ d.disk.open = c.disk.open => Doubt(d.disk)
  BY <1>0, <1>2, <1>4, SteadyTracked
<1>6. d \in Ctx /\ d.mem.inst = c.mem.inst /\ GrantPassed(d.mem, K, D)
  <2>1. d \in Ctx /\ d.mem.grant = c.mem.grant /\ d.mem.inst = c.mem.inst /\ d.mem.up = c.mem.up /\ d.mem.seq = c.mem.seq
    BY <1>2 DEF Steady
  <2> QED BY <1>0, <2>1 DEF Minded, GrantPassed, BoundBy
<1>7. d.disk.open = o => Doubt(d.disk)
  <2>1. ASSUME d.disk.open = o PROVE r \in d.disk.open /\ r \notin d.disk.resolution.open
    <3>1. r \notin d.disk.resolution.open
      BY <1>5, <1>6, CtxNumbers DEF Tracked
    <3> QED BY <1>1, <2>1, <3>1
  <2> QED BY <2>1 DEF Doubt
<1>8. Doubt(c.disk) => Doubt(d.disk)
  BY <1>2, <1>5, <1>7
<1>9. Kept(d.disk, K, D) /\ Minded(d.mem, d.disk, K, D)
  BY <1>0, <1>2, <1>5, <1>6, <1>8 DEF Kept, Minded
<1>10. ASSUME d.ok PROVE Tracked(d.mem, d.disk, d.minted, N \cup {r})
  BY <1>1, <1>2, <1>4, <1>5, <1>6, <1>10 DEF Tracked
<1> QED BY <1>5, <1>6, <1>9, <1>10 DEF Aware

\* Entries nobody needs are closed, if what is lost is durable.
LEMMA ClosedAware ==
    ASSUME NEW c, NEW N, NEW K, NEW D, Aware(c, N, K, D), NEW gone, N \cap gone = {}, NEW d, Closed(c, d, gone)
    PROVE  Aware(d, N, K, D)
<1>0. c \in Ctx /\ Tracked(c.mem, c.disk, c.minted, N) /\ Kept(c.disk, K, D) /\ Minded(c.mem, c.disk, K, D)
  BY DEF Aware
<1>1. /\ Steady(c, d) /\ MarkedBad(c, d) /\ d.mem.q = c.mem.q /\ d.disk.queue = c.disk.queue
      /\ d.disk.open \in {c.disk.open, c.mem.open \ gone}
      /\ d.mem.open \in {c.mem.open, c.mem.open \ gone}
      /\ d.disk.open # c.disk.open => d.mem.bad # 0
      /\ d.mem.bad = Reliable <=> c.mem.bad = Reliable
  BY DEF Closed
<1>2. /\ N \subseteq d.mem.open \cap d.disk.open /\ (\A x \in N : x.inst = c.mem.inst)
      /\ (\A x \in d.mem.open \cup d.disk.open : x.inst <= c.mem.inst)
  BY <1>0, <1>1 DEF Tracked
<1>3. /\ Tracked(d.mem, d.disk, d.minted, N) /\ (d.mem.bad > 0 => Doubt(d.disk))
      /\ Doubt(c.disk) /\ d.disk.open = c.disk.open => Doubt(d.disk)
  BY <1>0, <1>1, <1>2, SteadyTracked
<1>4. d \in Ctx /\ GrantPassed(d.mem, K, D)
  <2>1. d \in Ctx /\ d.mem.grant = c.mem.grant /\ d.mem.inst = c.mem.inst /\ d.mem.up = c.mem.up /\ d.mem.seq = c.mem.seq
    BY <1>1 DEF Steady
  <2> QED BY <1>0, <2>1 DEF Minded, GrantPassed, BoundBy
<1>5. d.mem.bad \in Nat \cup {Reliable} /\ Reliable = -1
  BY <1>4, CtxNumbers
<1>6. CASE d.mem.bad = Reliable
  BY <1>0, <1>1, <1>3, <1>4, <1>6 DEF Aware, Kept, Minded
<1>7. CASE d.mem.bad # Reliable /\ d.disk.open = c.disk.open
  BY <1>0, <1>1, <1>3, <1>4, <1>7 DEF Aware, Kept, Minded
<1>8. CASE d.mem.bad # Reliable /\ d.disk.open # c.disk.open
  <2>1. Doubt(d.disk)
    BY <1>1, <1>3, <1>5, <1>8
  <2> QED BY <1>0, <1>1, <1>3, <1>4, <1>8, <2>1 DEF Aware, Kept, Minded
<1> QED BY <1>6, <1>7, <1>8

\* A later frame of the same daemon.
LEMMA LaterBound ==
    ASSUME NEW c \in Ctx, NEW b \in Ctx, b.mem.inst = c.mem.inst, b.mem.up = c.mem.up, c.mem.seq <= b.mem.seq,
           NEW x, x \in Frames \/ x[1] = 0, BoundBy(x, c.mem)
    PROVE  BoundBy(x, b.mem)
  BY DEF BoundBy, Ctx, Memory, Frames, Positive

LEMMA LaterOwes ==
    ASSUME NEW c, NEW d, Later(c, d), NEW K, NEW D, GrantPassed(c.mem, K, D)
    PROVE  GrantPassed(d.mem, K, D)
<1>1. c \in Ctx /\ d \in Ctx /\ d.mem.inst = c.mem.inst /\ d.mem.up = c.mem.up /\ c.mem.seq <= d.mem.seq
  BY DEF Later
<1>2. ASSUME NEW g \in d.mem.grant.known, NEW x \in g.frames
      PROVE  x \in Frames /\ BoundBy(x, d.mem) /\ (x \in D => x \in K)
  <2>1. x \in Frames /\ BoundBy(x, c.mem) /\ (x \in D => x \in K)
    BY <1>2 DEF Later, GrantPassed
  <2> QED BY <1>1, <2>1, LaterBound
<1> QED BY <1>2 DEF GrantPassed

\* Numbers that were taken change nothing in what is remembered.
LEMMA LaterAware ==
    ASSUME NEW c, NEW d, Later(c, d), NEW N, NEW K, NEW D
    PROVE  /\ Tracked(c.mem, c.disk, c.minted, N) => Tracked(d.mem, d.disk, d.minted, N)
           /\ Minded(c.mem, c.disk, K, D) => Minded(d.mem, d.disk, K, D)
           /\ Aware(c, N, K, D) => Aware(d, N, K, D)
<1>1. Tracked(c.mem, c.disk, c.minted, N) => Tracked(d.mem, d.disk, d.minted, N)
  BY DEF Tracked, Later
<1>2. ASSUME Minded(c.mem, c.disk, K, D) PROVE Minded(d.mem, d.disk, K, D)
  <2>1. GrantPassed(d.mem, K, D)
    BY <1>2, LaterOwes DEF Minded
  <2> QED BY <1>2, <2>1 DEF Minded, Later
<1>3. d \in Ctx /\ d.disk = c.disk
  BY DEF Later
<1> QED BY <1>1, <1>2, <1>3 DEF Aware

LEMMA NextAware ==
    ASSUME NEW c, NEW N, NEW K, NEW D, Aware(c, N, K, D), NEW b, NEW n, NEW turn, NextFrame(c, b, n, turn)
    PROVE  Aware(b, N, K, D)
<1>1. /\ b \in Ctx /\ c \in Ctx /\ b.mem.seq = c.mem.seq + 1
      /\ b.mem.inst = c.mem.inst /\ b.mem.up = c.mem.up /\ b.mem.grant = c.mem.grant
  BY DEF NextFrame, Aware
<1>2. c.mem.seq \in Nat /\ c.mem.seq <= b.mem.seq
  BY <1>1 DEF Ctx, Memory
<1>3. GrantPassed(b.mem, K, D)
  <2>1. ASSUME NEW g \in b.mem.grant.known, NEW x \in g.frames
        PROVE  x \in Frames /\ BoundBy(x, b.mem) /\ (x \in D => x \in K)
    <3>1. x \in Frames /\ BoundBy(x, c.mem) /\ (x \in D => x \in K)
      BY <1>1, <2>1 DEF Aware, Minded, GrantPassed
    <3> QED BY <1>1, <1>2, <3>1, LaterBound
  <2> QED BY <2>1 DEF GrantPassed
<1>4. Tracked(b.mem, b.disk, b.minted, N)
  BY DEF Aware, Tracked, NextFrame
<1>5. Kept(b.disk, K, D)
  BY DEF Aware, NextFrame
<1>6. Minded(b.mem, b.disk, K, D)
  BY <1>3 DEF Aware, Minded, NextFrame
<1> QED BY <1>1, <1>4, <1>5, <1>6 DEF Aware

\* What is enqueued made.
LEMMA EnqueuedMade ==
    ASSUME NEW c, NEW b, NEW n, NEW d, NEW turn, NEW gone, NextFrame(c, b, n, turn),
           \/ Marks(b, d)
           \/ \E r, x : /\ Committed(b, x, r, "queue")
                        /\ x.ok => \E y : Closed(x, y, gone) /\ Pumped(y, d)
                        /\ ~x.ok => d = x
    PROVE  /\ d.made = b.made /\ d.mem.inst = b.mem.inst /\ d.mem.up = b.mem.up /\ d.mem.seq = b.mem.seq
           /\ d \in Ctx
<1>1. CASE Marks(b, d)
  BY <1>1 DEF Marks
<1>2. ASSUME NEW r, NEW x, Committed(b, x, r, "queue"), x.ok => \E y : Closed(x, y, gone) /\ Pumped(y, d),
             ~x.ok => d = x
      PROVE  /\ d.made = b.made /\ d.mem.inst = b.mem.inst /\ d.mem.up = b.mem.up /\ d.mem.seq = b.mem.seq
             /\ d \in Ctx
  <2>1. Steady(b, x)
    BY <1>2 DEF Committed
  <2>2. ASSUME NEW y, Closed(x, y, gone), Pumped(y, d)
        PROVE  /\ d.made = b.made /\ d.mem.inst = b.mem.inst /\ d.mem.up = b.mem.up /\ d.mem.seq = b.mem.seq
               /\ d \in Ctx
    <3>1. Steady(x, y)
      BY <2>2 DEF Closed
    <3>2. PICK z : (z = y \/ \E s : Forwards(y.mem.q, s) /\ Committed(y, z, s, "queue")) /\ Sends(z, d)
      BY <2>2 DEF Pumped
    <3>3. z = y \/ Steady(y, z)
      BY <3>2 DEF Committed
    <3> QED BY <2>1, <3>1, <3>2, <3>3 DEF Steady, Sends
  <2> QED BY <1>2, <2>1, <2>2 DEF Steady
<1> QED BY <1>1, <1>2

\* Evidence a queue cannot hold yet.
LEMMA PassedAlso ==
    ASSUME NEW q, NEW K, NEW D, NEW F, Passed(q, K, D), NEW X, F \subseteq D \cup X, X \cap Evidence(q) = {}
    PROVE  Passed(q, K, F)
<1>1. ASSUME NEW b \in Markers(q), b.epoch < q.human PROVE b.frames \cap F \subseteq K
  <2>1. b.frames \subseteq Evidence(q)
    BY DEF Evidence, MarkerFrames
  <2> QED BY <1>1, <2>1 DEF Passed
<1>2. ASSUME NEW n \in Normals(q), n.turn PROVE Origin(n) \notin F
  BY <1>2 DEF Passed, Evidence
<1> QED BY <1>1, <1>2 DEF Passed

LEMMA GrantPassedAlso ==
    ASSUME NEW m, NEW K, NEW D, NEW F, GrantPassed(m, K, D), NEW X, F \subseteq D \cup X,
           \A x \in X : ~BoundBy(x, m) \/ x \notin Frames
    PROVE  GrantPassed(m, K, F)
  BY DEF GrantPassed

\* A frame is enqueued; if it is evidence for which the files hold no doubt, it
\* is not counted in F.
LEMMA EnqueuedAware ==
    ASSUME NEW c, NEW N, NEW K, NEW D, Aware(c, N, K, D), NEW W, NEW A, NEW E, SoundCtx(c, W, A, E), c.mem.up,
           c.made = {}, \A x \in D : (x \in Frames \/ x[1] = 0) /\ BoundBy(x, c.mem),
           NEW turn \in BOOLEAN, NEW gone, N \cap gone = {}, NEW d, Enqueued(c, d, turn, gone),
           NEW F, F = D \/ (F = D \cup d.made /\ Doubt(c.disk))
    PROVE  Aware(d, N, K, F) /\ \A x \in F : (x \in Frames \/ x[1] = 0) /\ BoundBy(x, d.mem)
<1>1. PICK b, n : /\ NextFrame(c, b, n, turn)
                  /\ \/ Marks(b, d) /\ MarkedBad(b, d) /\ d.mem.bad # Reliable
                     \/ \E r, x : /\ Stored(c.mem.q, r, n) /\ Committed(b, x, r, "queue")
                                  /\ x.ok => \E y : Closed(x, y, gone) /\ Pumped(y, d)
                                  /\ ~x.ok => d = x
  BY DEF Enqueued
<1>2. Aware(b, N, K, D)
  BY <1>1, NextAware
<1>3. /\ d.made = b.made /\ d.mem.inst = b.mem.inst /\ d.mem.up = b.mem.up /\ d.mem.seq = b.mem.seq
      /\ d \in Ctx
  BY <1>1, EnqueuedMade
<1>4. PICK i, s : i = n.inst /\ s = n.seq
  OBVIOUS
<1>5. /\ b.mem.q = c.mem.q /\ b.disk = c.disk /\ b.mem.grant = c.mem.grant
      /\ b.mem.inst = c.mem.inst /\ b.mem.up = c.mem.up /\ b.mem.seq = c.mem.seq + 1
      /\ n \in NormalEntry /\ n.turn = turn /\ n.epoch = c.mem.q.epoch /\ i = c.mem.inst /\ s = c.mem.seq + 1
      /\ b.made = (IF turn THEN {} ELSE {Frame(n)})
  BY <1>1, <1>4 DEF NextFrame
<1>6. /\ i \in Positive /\ s \in Positive /\ Frame(n) = <<i, s>> /\ Origin(n) = <<i, s>>
      /\ <<i, s>>[1] = i /\ <<i, s>>[2] = s /\ <<i, s>> \in Frames
  BY <1>4, <1>5 DEF NormalEntry, Frame, Origin, Frames
<1>7. c \in Ctx /\ c.mem.seq \in Nat /\ c.mem.inst \in Nat /\ c.mem.q \in Queue /\ c.disk.queue \in Queue
  BY CtxNumbers DEF Aware, Ctx, Memory
<1>8. ~BoundBy(<<i, s>>, c.mem)
  BY <1>5, <1>6, <1>7 DEF BoundBy
<1>9. <<i, s>> \notin D /\ <<i, s>> \notin Evidence(c.mem.q) /\ <<i, s>> \notin Evidence(c.disk.queue)
  BY <1>8 DEF SoundCtx, Sound, Good
<1>10. /\ F \subseteq D \cup {<<i, s>>}
       /\ <<i, s>> \in F => ~turn
       /\ F = D \/ Doubt(b.disk)
  BY <1>3, <1>5, <1>6, <1>9
<1>11. /\ Passed(c.mem.q, K, D) /\ Passed(c.disk.queue, K, D) /\ GrantPassed(c.mem, K, D)
  BY DEF Aware, Minded, Kept
<1>12. /\ Passed(c.mem.q, K, F) /\ Passed(c.disk.queue, K, F) /\ GrantPassed(b.mem, K, F)
  <2>1. PICK X : X = {<<i, s>>}
    OBVIOUS
  <2>2. F \subseteq D \cup X /\ X \cap Evidence(c.mem.q) = {} /\ X \cap Evidence(c.disk.queue) = {}
    BY <1>9, <1>10, <2>1
  <2>3. \A x \in X : ~BoundBy(x, c.mem) \/ x \notin Frames
    BY <1>8, <2>1
  <2>4. GrantPassed(c.mem, K, F)
    BY <1>11, <2>2, <2>3, GrantPassedAlso
  <2>5. Passed(c.mem.q, K, F) /\ Passed(c.disk.queue, K, F)
    BY <1>11, <2>2, PassedAlso
  <2>6. GrantPassed(b.mem, K, F)
    <3>1. ASSUME NEW g \in b.mem.grant.known, NEW x \in g.frames
          PROVE  x \in Frames /\ BoundBy(x, b.mem) /\ (x \in F => x \in K)
      <4>1. x \in Frames /\ BoundBy(x, c.mem) /\ (x \in F => x \in K)
        BY <1>5, <2>4, <3>1 DEF GrantPassed
      <4>2. BoundBy(x, b.mem)
        <5>1. b \in Ctx /\ c.mem.seq <= b.mem.seq
          BY <1>1, <1>5, <1>7 DEF NextFrame
        <5> QED BY <1>5, <1>7, <4>1, <5>1, LaterBound
      <4> QED BY <4>1, <4>2
    <3> QED BY <3>1 DEF GrantPassed
  <2> QED BY <2>5, <2>6
<1>13. \A x \in F : (x \in Frames \/ x[1] = 0) /\ BoundBy(x, d.mem)
  <2>1. ASSUME NEW x \in D PROVE BoundBy(x, d.mem)
    <3>1. (x \in Frames \/ x[1] = 0) /\ BoundBy(x, c.mem) /\ c.mem.seq <= d.mem.seq
      BY <1>3, <1>5, <1>7, <2>1
    <3> QED BY <1>3, <1>5, <1>7, <3>1, LaterBound
  <2>2. BoundBy(<<i, s>>, d.mem)
    BY <1>3, <1>5, <1>6, <1>7 DEF BoundBy
  <2> QED BY <1>6, <1>10, <2>1, <2>2
<1>14. CASE Marks(b, d) /\ MarkedBad(b, d) /\ d.mem.bad # Reliable
  <2>1. Aware(d, N, K, F)
    BY <1>2, <1>5, <1>10, <1>12, <1>14, MarksAware
  <2> QED BY <1>13, <2>1
<1>15. ASSUME NEW r, NEW x, Stored(c.mem.q, r, n), Committed(b, x, r, "queue"),
              x.ok => \E y : Closed(x, y, gone) /\ Pumped(y, d), ~x.ok => d = x
       PROVE  Aware(d, N, K, F)
  <2>1. Passed(r, K, F)
    <3>1. ASSUME NEW m \in Markers(r), m.epoch < r.human PROVE m.frames \cap F \subseteq K
      <4>1. r.human = c.mem.q.human /\ (m \in Markers(c.mem.q) \/ m.epoch = c.mem.q.epoch)
        BY <1>15, <3>1 DEF Stored
      <4>2. c.mem.q.human <= c.mem.q.epoch /\ c.mem.q.human \in Nat /\ c.mem.q.epoch \in Nat
        BY <1>7, HeldShape DEF SoundCtx, Sound, Good, Fits
      <4>3. m \in Markers(c.mem.q)
        BY <3>1, <4>1, <4>2
      <4> QED BY <1>12, <3>1, <4>1, <4>3 DEF Passed
    <3>2. ASSUME NEW k \in Normals(r), k.turn PROVE Origin(k) \notin F
      <4>1. k \in Normals(c.mem.q) \/ k = n
        BY <1>15, <3>2 DEF Stored
      <4>2. CASE k = n
        BY <1>5, <1>6, <1>10, <3>2, <4>2
      <4>3. CASE k \in Normals(c.mem.q)
        BY <1>12, <3>2, <4>3 DEF Passed
      <4> QED BY <4>1, <4>2, <4>3
    <3> QED BY <3>1, <3>2 DEF Passed
  <2>2. ASSUME D \subseteq K \cup Evidence(b.mem.q) PROVE F \subseteq K \cup Evidence(r)
    <3>1. ASSUME NEW x0 \in D, x0 \notin K PROVE x0 \in Evidence(r)
      <4>1. x0 \in Evidence(c.mem.q)
        BY <1>5, <2>2, <3>1
      <4>2. x0 \in Evidence(r) \/ \E k \in Normals(c.mem.q) : k.turn /\ Origin(k) = x0
        BY <1>15, <4>1 DEF Stored
      <4> QED BY <1>11, <3>1, <4>2 DEF Passed
    <3>2. <<i, s>> \in F => <<i, s>> \in Evidence(r)
      BY <1>5, <1>6, <1>10, <1>15 DEF Stored
    <3> QED BY <1>10, <3>1, <3>2
  <2>3. Aware(x, N, K, F)
    BY <1>2, <1>5, <1>10, <1>12, <1>15, <2>1, <2>2, CommitAware
  <2>4. CASE ~x.ok
    BY <1>15, <2>3, <2>4
  <2>5. CASE x.ok
    <3>1. PICK y : Closed(x, y, gone) /\ Pumped(y, d)
      BY <1>15, <2>5
    <3>2. Aware(y, N, K, F)
      BY <2>3, <3>1, ClosedAware
    <3> QED BY <3>1, <3>2, PumpedAware
  <2> QED BY <2>4, <2>5
<1> QED BY <1>1, <1>13, <1>14, <1>15

\* An acknowledged entry, of which the server has seen everything.
LEMMA AckedAware ==
    ASSUME NEW c, NEW N, NEW K, NEW D, Aware(c, N, K, D), NEW e, NEW r, Acknowledges(c.mem.q, r, e),
           e.t = "normal" => Origin(e) \in K, e.t # "normal" => e.frames \subseteq K,
           NEW x, Committed(c, x, r, "queue"), NEW d, (x.ok /\ Pumped(x, d)) \/ (~x.ok /\ d = x)
    PROVE  Aware(d, N, K, D)
<1>1. /\ Passed(c.mem.q, K, D) /\ Passed(c.disk.queue, K, D) /\ GrantPassed(c.mem, K, D)
  BY DEF Aware, Minded, Kept
<1>2. /\ Normals(r) = Normals(c.mem.q) \ {e} /\ Markers(r) = Markers(c.mem.q) \ {e}
      /\ r.human = c.mem.q.human
  BY DEF Acknowledges, Normals, Markers
<1>3. Passed(r, K, D)
  BY <1>1, <1>2 DEF Passed
<1>4. Evidence(c.mem.q) \subseteq K \cup Evidence(r)
  <2>1. ASSUME NEW n \in Normals(c.mem.q) PROVE Origin(n) \in K \cup Evidence(r)
    <3>1. CASE n = e
      BY <2>1, <3>1 DEF Normals
    <3>2. CASE n # e
      BY <1>2, <2>1, <3>2 DEF Evidence
    <3> QED BY <3>1, <3>2
  <2>2. ASSUME NEW m \in Markers(c.mem.q) PROVE m.frames \subseteq K \cup Evidence(r)
    <3>1. CASE m = e
      BY <2>2, <3>1 DEF Markers
    <3>2. CASE m # e
      BY <1>2, <2>2, <3>2 DEF Evidence, MarkerFrames
    <3> QED BY <3>1, <3>2
  <2> QED BY <2>1, <2>2 DEF Evidence, MarkerFrames
<1>5. D \subseteq K \cup Evidence(c.mem.q) => D \subseteq K \cup Evidence(r)
  BY <1>4
<1>6. Aware(x, N, K, D)
  BY <1>1, <1>3, <1>5, CommitAware
<1> QED BY <1>6, PumpedAware

\* load keeps the markers in order.
Numbered(c) ==
    /\ c \in Ctx
    /\ c.disk.marker <= c.minted /\ c.disk.resolution.marker <= c.minted /\ c.mem.bad <= c.minted
    /\ c.mem.bad > 0 => c.disk.marker = c.mem.bad /\ c.disk.resolution.marker # c.mem.bad

LEMMA NumberedNext ==
    ASSUME NEW c, Numbered(c), NEW d, LoadKeeps(c, d), MarkedBad(c, d), NewMarker(c, d)
    PROVE  /\ Numbered(d)
           /\ c.disk.marker \notin {0, c.disk.resolution.marker} => d.disk.marker \notin {0, d.disk.resolution.marker}
<1>1. /\ c \in Ctx /\ d \in Ctx /\ c.minted <= d.minted /\ d.disk.resolution = c.disk.resolution
  BY DEF Numbered, LoadKeeps
<1>2. /\ c.minted \in Nat /\ c.disk.marker \in Nat /\ c.disk.resolution.marker \in Nat
      /\ c.mem.bad \in Nat \cup {Reliable} /\ Reliable = -1
      /\ d.minted \in Nat /\ d.disk.marker \in Nat /\ d.mem.bad \in Nat \cup {Reliable}
  BY <1>1, CtxNumbers
<1>3. d.disk.marker <= d.minted /\ d.disk.resolution.marker <= d.minted /\ d.mem.bad <= d.minted
  BY <1>1, <1>2 DEF Numbered, MarkedBad, NewMarker
<1>4. d.mem.bad > 0 => d.disk.marker = d.mem.bad /\ d.disk.resolution.marker # d.mem.bad
  BY <1>1, <1>2 DEF Numbered, MarkedBad, NewMarker
<1>5. c.disk.marker \notin {0, c.disk.resolution.marker} => d.disk.marker \notin {0, d.disk.resolution.marker}
  BY <1>1, <1>2 DEF Numbered, NewMarker
<1> QED BY <1>1, <1>3, <1>4, <1>5 DEF Numbered

LEMMA NumberedMarker ==
    ASSUME NEW c, Numbered(c), NEW d, LoadedMarker(c, d)
    PROVE  /\ Numbered(d)
           /\ c.disk.marker \notin {0, c.disk.resolution.marker} =>
                  d.disk.marker \notin {0, d.disk.resolution.marker} /\ d.mem.bad # Reliable
           /\ c.mem.bad # Reliable => d.mem.bad # Reliable
<1>1. LoadKeeps(c, d) /\ c \in Ctx /\ d \in Ctx /\ d.disk.resolution = c.disk.resolution /\ c.minted <= d.minted
  BY DEF LoadedMarker, LoadKeeps, Numbered
<1>2. /\ c.minted \in Nat /\ c.disk.marker \in Nat /\ c.disk.resolution.marker \in Nat
      /\ c.mem.bad \in Nat \cup {Reliable} /\ Reliable = -1 /\ d.minted \in Nat
  BY <1>1, CtxNumbers
<1>3. CASE c.disk.marker = 0 /\ d = c
  BY <1>3
<1>4. CASE c.disk.marker = c.disk.resolution.marker /\ d.disk.marker = 0 /\ d.mem.bad = c.mem.bad
  <2>1. Numbered(d)
    BY <1>1, <1>2, <1>4 DEF Numbered
  <2> QED BY <1>4, <2>1
<1>5. CASE /\ c.disk.marker \notin {0, c.disk.resolution.marker}
           /\ c.mem.bad = Reliable /\ d.mem.bad = c.disk.marker /\ d.disk.marker = c.disk.marker
  <2>1. Numbered(d)
    BY <1>1, <1>2, <1>5 DEF Numbered
  <2>2. d.mem.bad # Reliable
    BY <1>2, <1>5
  <2> QED BY <1>1, <1>5, <2>1, <2>2
<1>6. CASE c.disk.marker \notin {0, c.disk.resolution.marker} /\ MarkedBad(c, d) /\ NewMarker(c, d) /\ d.mem.bad # Reliable
  BY <1>1, <1>6, NumberedNext
<1> QED BY <1>3, <1>4, <1>5, <1>6 DEF LoadedMarker

\* load: a new daemon knows of every doubt its files hold.
LEMMA LoadedAware ==
    ASSUME NEW c \in Ctx, NEW N, Tracked(c.mem, c.disk, c.minted, N), NEW K, NEW D, Kept(c.disk, K, D),
           NEW d, Loaded(c, d)
    PROVE  Aware(d, {}, K, D)
<1>1. PICK b, x, y, z : /\ Rebooted(c, b) /\ LoadedQueue(b, x) /\ LoadedMarker(x, y)
                        /\ LoadedOpen(y, z) /\ LoadedAside(z, d)
  BY DEF Loaded
<1>2. /\ LoadKeeps(b, x) /\ LoadKeeps(x, y) /\ LoadKeeps(y, z) /\ LoadKeeps(z, d)
      /\ b \in Ctx /\ x \in Ctx /\ y \in Ctx /\ z \in Ctx /\ d \in Ctx
  BY <1>1 DEF LoadedQueue, LoadedMarker, LoadedOpen, LoadedAside, LoadKeeps, Rebooted
<1>3. /\ d.disk.resolution = c.disk.resolution /\ x.disk.resolution = c.disk.resolution
      /\ y.disk.resolution = c.disk.resolution /\ z.disk.resolution = c.disk.resolution
      /\ d.mem.inst = c.mem.inst + 1 /\ d.mem.grant = NoGrant /\ d.mem.up
      /\ b.disk = c.disk /\ b.minted = c.minted /\ b.mem.bad = Reliable /\ b.mem.inst = c.mem.inst + 1
      /\ b.mem.q = EmptyQueue
  BY <1>1, <1>2 DEF LoadKeeps, Rebooted
<1>4. /\ c.minted \in Nat /\ Reliable = -1 /\ c.mem.inst \in Nat
  BY CtxNumbers
<1>5. Numbered(b)
  BY <1>2, <1>3, <1>4 DEF Numbered, Tracked
<1>6. /\ x.disk.open = c.disk.open /\ ~x.disk.damaged /\ x.mem.q = x.disk.queue
      /\ \/ c.disk.damaged /\ x.disk.queue = EmptyQueue /\ x.disk.aside = c.disk.aside \cup {c.mem.inst + 1}
            /\ MarkedBad(b, x) /\ NewMarker(b, x) /\ x.mem.bad # Reliable
         \/ ~c.disk.damaged /\ x.disk = c.disk /\ x.mem.bad = Reliable
  BY <1>1, <1>3 DEF LoadedQueue
<1>7. Numbered(x)
  <2>1. CASE MarkedBad(b, x) /\ NewMarker(b, x)
    BY <1>2, <1>5, <2>1, NumberedNext
  <2>2. CASE x.disk = c.disk /\ x.mem.bad = Reliable
    <3>1. b.minted <= x.minted /\ x.minted \in Nat /\ c.disk.marker \in Nat /\ c.disk.resolution.marker \in Nat
      BY <1>2, CtxNumbers DEF LoadKeeps
    <3> QED BY <1>2, <1>3, <1>4, <2>2, <3>1 DEF Numbered, Tracked
  <2> QED BY <1>6, <2>1, <2>2
<1>8. /\ Numbered(y)
      /\ x.disk.marker \notin {0, x.disk.resolution.marker} =>
             y.disk.marker \notin {0, y.disk.resolution.marker} /\ y.mem.bad # Reliable
      /\ x.mem.bad # Reliable => y.mem.bad # Reliable
  BY <1>1, <1>7, NumberedMarker
<1>9. /\ MarkedBad(y, z) /\ NewMarker(y, z) /\ MarkedBad(z, d) /\ NewMarker(z, d)
  BY <1>1 DEF LoadedOpen, LoadedAside
<1>10. /\ Numbered(z)
       /\ y.disk.marker \notin {0, y.disk.resolution.marker} => z.disk.marker \notin {0, z.disk.resolution.marker}
  BY <1>2, <1>8, <1>9, NumberedNext
<1>11. /\ Numbered(d)
       /\ z.disk.marker \notin {0, z.disk.resolution.marker} => d.disk.marker \notin {0, d.disk.resolution.marker}
  BY <1>2, <1>9, <1>10, NumberedNext
<1>12. /\ d.mem.q = d.disk.queue /\ d.disk.queue = x.disk.queue /\ ~d.disk.damaged
       /\ d.mem.open = x.disk.open \ c.disk.resolution.open
       /\ d.disk.open \in {x.disk.open, d.mem.open}
       /\ d.disk.aside = x.disk.aside \ c.disk.resolution.aside
       /\ d.mem.open # {} \/ d.disk.aside # {} \/ y.mem.bad # Reliable => d.mem.bad # Reliable
  BY <1>1, <1>3, <1>6 DEF LoadedMarker, LoadedOpen, LoadedAside
<1>13. Doubt(x.disk) => Doubt(d.disk) /\ d.mem.bad # Reliable
  <2>1. CASE x.disk.marker \notin {0, x.disk.resolution.marker}
    BY <1>8, <1>10, <1>11, <1>12, <2>1 DEF Doubt
  <2>2. CASE ~(x.disk.open \subseteq x.disk.resolution.open)
    <3>1. d.mem.open # {} /\ ~(d.disk.open \subseteq d.disk.resolution.open)
      BY <1>3, <1>12, <2>2
    <3> QED BY <1>12, <3>1 DEF Doubt
  <2>3. CASE ~(x.disk.aside \subseteq x.disk.resolution.aside)
    <3>1. d.disk.aside # {} /\ ~(d.disk.aside \subseteq d.disk.resolution.aside)
      BY <1>3, <1>12, <2>3
    <3> QED BY <1>12, <3>1 DEF Doubt
  <2> QED BY <1>6, <2>1, <2>2, <2>3 DEF Doubt
<1>14. c.disk.damaged \/ Doubt(c.disk) => Doubt(x.disk)
  <2>1. CASE c.disk.damaged
    <3>1. c.mem.inst + 1 \in x.disk.aside
      BY <1>6, <2>1
    <3>2. c.mem.inst + 1 \notin x.disk.resolution.aside
      BY <1>3, <1>4 DEF Tracked
    <3> QED BY <3>1, <3>2 DEF Doubt
  <2>2. CASE ~c.disk.damaged
    BY <1>6, <2>2
  <2> QED BY <2>1, <2>2
<1>15. Passed(d.disk.queue, K, D)
  <2>1. PICK q : q = EmptyQueue
    OBVIOUS
  <2>2. Passed(q, K, D)
    BY <2>1, EmptyIsOK DEF Passed
  <2>3. Passed(c.disk.queue, K, D)
    BY DEF Kept
  <2> QED BY <1>6, <1>12, <2>1, <2>2, <2>3
<1>16. d.mem.bad = Reliable \/ ~Doubt(d.disk) => D \subseteq K \cup Evidence(d.disk.queue)
  <2>1. ASSUME d.mem.bad = Reliable \/ ~Doubt(d.disk) PROVE ~Doubt(c.disk) /\ d.disk.queue = c.disk.queue
    BY <1>6, <1>12, <1>13, <1>14, <2>1
  <2> QED BY <2>1 DEF Kept
<1>17. GrantPassed(d.mem, K, D)
  BY <1>3 DEF GrantPassed, NoGrant
<1>18. Kept(d.disk, K, D) /\ Minded(d.mem, d.disk, K, D)
  BY <1>12, <1>15, <1>16, <1>17 DEF Kept, Minded
<1>19. Tracked(d.mem, d.disk, d.minted, {})
  <2>1. /\ \A o \in d.disk.open \cup d.mem.open : o.inst <= d.mem.inst
        /\ \A o \in d.disk.resolution.open : o.inst < d.mem.inst
    <3>1. ASSUME NEW o \in Opens PROVE o.inst \in Nat
      BY <3>1 DEF Opens, Positive
    <3>2. c.disk.open \subseteq Opens /\ c.disk.resolution.open \subseteq Opens
      BY CtxNumbers
    <3>3. d.disk.open \cup d.mem.open \subseteq c.disk.open
      BY <1>6, <1>12
    <3>4. (\A o \in c.disk.open : o.inst <= c.mem.inst) /\ (\A o \in c.disk.resolution.open : o.inst < c.mem.inst)
      BY DEF Tracked
    <3> QED BY <1>3, <1>4, <3>1, <3>2, <3>3, <3>4
  <2>2. \A i \in d.disk.aside \cup d.disk.resolution.aside : i <= d.mem.inst
    <3>1. d.disk.aside \cup d.disk.resolution.aside \subseteq c.disk.aside \cup c.disk.resolution.aside \cup {c.mem.inst + 1}
      BY <1>3, <1>6, <1>12
    <3>2. \A i \in c.disk.aside \cup c.disk.resolution.aside : i \in Nat /\ i <= c.mem.inst
      BY CtxNumbers DEF Tracked, Positive
    <3> QED BY <1>3, <1>4, <3>1, <3>2
  <2> QED BY <1>11, <1>12, <2>1, <2>2 DEF Tracked, Numbered
<1> QED BY <1>2, <1>18, <1>19 DEF Aware

\* Fewer entries are needed.
LEMMA TrackedLess ==
    ASSUME NEW m, NEW f, NEW n, NEW M, Tracked(m, f, n, M), NEW N, N \subseteq M
    PROVE  Tracked(m, f, n, N)
  BY DEF Tracked

LEMMA AwareLess ==
    ASSUME NEW c, NEW M, NEW K, NEW D, Aware(c, M, K, D), NEW N, N \subseteq M
    PROVE  Aware(c, N, K, D)
  BY TrackedLess DEF Aware

\* A sealed queue is passed over as the one before.
LEMMA SealedPassed ==
    ASSUME NEW p, NEW q, Sealing(p, q), q.human = p.human, NEW K, NEW D, Passed(p, K, D)
    PROVE  Passed(q, K, D) /\ Evidence(q) = Evidence(p)
<1>1. Evidence(q) = Evidence(p) /\ Normals(q) = Normals(p)
  BY SealingEvidence
<1>2. ASSUME NEW b \in Markers(q), b.epoch < q.human PROVE b.frames \cap D \subseteq K
  <2>1. PICK k \in Markers(p) : SameMarker(k, b)
    BY DEF Sealing
  <2> QED BY <1>2, <2>1 DEF SameMarker, Passed
<1> QED BY <1>1, <1>2 DEF Passed

\* A takeover epoch is adopted, or that fails.
LEMMA AdoptsAware ==
    ASSUME NEW c, NEW N, NEW K, NEW D, Aware(c, N, K, D), NEW W, NEW A, NEW E \in Nat, SoundCtx(c, W, A, E),
           NEW e \in Nat, e <= E, NEW d, Adopts(c, d, e)
    PROVE  /\ Aware(d, N, K, D) /\ SoundCtx(d, W, A, E) /\ d.mem.q.human = c.mem.q.human
           /\ d.mem.up = c.mem.up /\ d.mem.inst = c.mem.inst /\ d.mem.seq = c.mem.seq /\ d.made = c.made
<1>1. CASE d = c
  BY <1>1
<1>2. CASE e > c.mem.q.epoch /\ Committed(c, d, Adopted(c.mem.q, e), "queue")
  <2>1. PICK m, stored, O, q : m = c.mem /\ stored = c.disk.queue /\ O = W \cup c.out /\ q = Adopted(c.mem.q, e)
    OBVIOUS
  <2>2. Sound(m, stored, O, A, E) /\ m.q.epoch <= e
    <3>1. c.mem.q.epoch \in Nat
      BY CtxNumbers, HeldShape DEF Aware
    <3> QED BY <1>2, <2>1, <3>1 DEF SoundCtx
  <2>3. Sealing(c.mem.q, q) /\ q.human = c.mem.q.human
    BY <2>1, <2>2, AdoptedStorable
  <2>4. /\ Passed(c.mem.q, K, D) /\ Passed(c.disk.queue, K, D) /\ GrantPassed(c.mem, K, D)
    BY DEF Aware, Minded, Kept
  <2>5. Passed(q, K, D) /\ Evidence(q) = Evidence(c.mem.q)
    BY <2>3, <2>4, SealedPassed
  <2>6. Committed(c, d, q, "queue")
    BY <1>2, <2>1
  <2>7. Aware(d, N, K, D)
    BY <2>4, <2>5, <2>6, CommitAware
  <2>8. d.mem.q \in {q, c.mem.q} /\ Steady(c, d)
    BY <2>6 DEF Committed
  <2>9. Storable(c.mem, q, W \cup c.out, A, E)
    BY <2>1, <2>2, AdoptedStorable
  <2>10. SoundCtx(d, W, A, E)
    BY <2>6, <2>9, CommitSound
  <2> QED BY <2>3, <2>7, <2>8, <2>10 DEF Steady
<1> QED BY <1>1, <1>2 DEF Adopts

\* What a handler leaves on disk, M being the open entries still needed.
Left(c, M, K, D) == c \in Ctx /\ Tracked(c.mem, c.disk, c.minted, M) /\ Kept(c.disk, K, D)

\* What made the evidence unreliable is resolved, with r among the open entries.
LEMMA ResolvedAware ==
    ASSUME NEW c, NEW N, NEW K, NEW D, Aware(c, N, K, D), N # {}, ~TornRecovery, NEW d, Resolved(c, d)
    PROVE  /\ Left(d, N, K, D) /\ Doubt(d.disk) /\ Passed(d.mem.q, K, D) /\ GrantPassed(d.mem, K, D)
           /\ d.ok => d.mem.bad = Reliable
           /\ d.ok \/ Aware(d, N, K, D) \/ ~d.alive
           /\ d.mem.inst = c.mem.inst /\ d.mem.q.human = c.mem.q.human
<1>1. /\ c \in Ctx /\ d \in Ctx /\ d.minted \in Nat /\ c.minted \in Nat /\ c.minted <= d.minted
      /\ d.mem.up = c.mem.up /\ d.mem.inst = c.mem.inst /\ d.mem.seq = c.mem.seq
      /\ d.mem.q = c.mem.q /\ d.mem.grant = c.mem.grant
      /\ d.disk.queue = c.disk.queue /\ d.disk.damaged = c.disk.damaged
  BY DEF Resolved, Aware, Ctx
<1>2. /\ c.disk.marker \in Nat /\ c.disk.resolution.marker \in Nat /\ c.mem.bad \in Nat \cup {Reliable}
      /\ d.disk.marker \in Nat /\ d.disk.resolution.marker \in Nat
      /\ Reliable = -1 /\ c.mem.inst \in Nat
  BY <1>1, CtxNumbers
<1>3. /\ Tracked(c.mem, c.disk, c.minted, N) /\ Kept(c.disk, K, D) /\ Minded(c.mem, c.disk, K, D)
  BY DEF Aware
<1>4. Passed(d.mem.q, K, D) /\ Passed(d.disk.queue, K, D) /\ GrantPassed(d.mem, K, D)
  BY <1>1, <1>3 DEF Minded, Kept, GrantPassed, BoundBy
<1>5. CASE d.mem = c.mem /\ d.disk = c.disk
  <2>1. Tracked(d.mem, d.disk, d.minted, N)
    BY <1>1, <1>2, <1>3, <1>5 DEF Tracked
  <2>2. Aware(d, N, K, D) /\ Left(d, N, K, D)
    BY <1>1, <1>3, <1>5, <2>1 DEF Aware, Left
  <2>3. Doubt(c.disk)
    BY <1>1, <1>3, OpenDoubt
  <2>4. d.ok => d.mem.bad = Reliable
    BY <1>2, <1>5 DEF Resolved
  <2> QED BY <1>1, <1>4, <1>5, <2>2, <2>3, <2>4
<1>6. CASE /\ d.ok = d.alive /\ d.mem.bad = Reliable /\ c.mem.bad # Reliable
           /\ d.disk.resolution.marker = c.mem.bad /\ d.disk.resolution.open = Stale(c)
           /\ d.disk.resolution.aside = c.disk.aside
           /\ d.mem.open \in {c.mem.open, c.mem.open \ Stale(c)}
           /\ d.disk.open \in {c.disk.open, c.mem.open \ Stale(c)}
           /\ d.disk.marker \in {c.disk.marker, 0}
           /\ d.disk.aside \in {c.disk.aside, {}}
  <2>1. d.disk.marker <= d.minted /\ d.disk.resolution.marker <= d.minted /\ d.mem.bad <= d.minted /\ ~(d.mem.bad > 0)
    BY <1>1, <1>2, <1>3, <1>6 DEF Tracked
  <2>2. \A o \in Stale(c) : o.inst < c.mem.inst
    <3>1. ASSUME NEW o \in Stale(c) PROVE o.inst < c.mem.inst
      <4>1. o \in c.mem.open /\ o.inst # c.mem.inst /\ o.inst <= c.mem.inst
        BY <1>3, <3>1 DEF Stale, Tracked
      <4>2. o.inst \in Nat
        BY <1>1, <4>1, CtxNumbers
      <4> QED BY <1>2, <4>1, <4>2
    <3> QED BY <3>1
  <2>3. \A o \in d.disk.open \cup d.mem.open : o.inst <= d.mem.inst
    BY <1>1, <1>3, <1>6 DEF Tracked
  <2>4. N \subseteq d.mem.open \cap d.disk.open /\ \A o \in N : o.inst = d.mem.inst
    BY <1>1, <1>3, <1>6 DEF Tracked, Stale
  <2>5. \A i \in d.disk.aside \cup d.disk.resolution.aside : i <= d.mem.inst
    BY <1>1, <1>3, <1>6 DEF Tracked
  <2>6. Tracked(d.mem, d.disk, d.minted, N)
    <3>1. d.mem.up => ~d.disk.damaged
      BY <1>1, <1>3 DEF Tracked
    <3>2. \A o \in d.disk.resolution.open : o.inst < d.mem.inst
      BY <1>1, <1>6, <2>2
    <3> QED BY <2>1, <2>3, <2>4, <2>5, <3>1, <3>2 DEF Tracked
  <2>7. Doubt(d.disk)
    BY <1>1, <2>6, OpenDoubt
  <2>8. Left(d, N, K, D)
    BY <1>1, <1>4, <2>6, <2>7 DEF Left, Kept
  <2> QED BY <1>1, <1>4, <1>6, <2>7, <2>8
<1> QED BY <1>5, <1>6 DEF Resolved

\* The takeover of a human start fails.
LEMMA NotTakenOver ==
    ASSUME NEW c, NEW N, NEW K, NEW D, Left(c, N, K, D), Doubt(c.disk), Passed(c.mem.q, K, D), GrantPassed(c.mem, K, D),
           c.ok \/ Aware(c, N, K, D) \/ ~c.alive, N # {},
           ~TornRecovery, NEW e, NEW d, TakenOver(c, d, e), ~d.ok
    PROVE  Left(d, N, K, D) /\ (d.alive => Aware(d, N, K, D)) /\ d.mem.inst = c.mem.inst
<1>1. CASE d = c
  BY <1>1
<1>2. ASSUME NEW q \in Queue, Committed(c, d, q, "recovery")
      PROVE  Left(d, N, K, D) /\ (d.alive => Aware(d, N, K, D)) /\ d.mem.inst = c.mem.inst
  <2>1. /\ Steady(c, d) /\ MarkedBad(c, d) /\ d.mem.open = c.mem.open /\ d.disk.open = c.disk.open
        /\ d.disk.queue = c.disk.queue /\ d.mem.q = c.mem.q /\ d.mem.bad # Reliable
    BY <1>2 DEF Committed
  <2>2. c \in Ctx /\ Tracked(c.mem, c.disk, c.minted, N) /\ Kept(c.disk, K, D)
    BY DEF Left
  <2>3. N \subseteq d.mem.open \cap d.disk.open /\ (\A o \in N : o.inst = c.mem.inst)
        /\ (\A o \in d.mem.open \cup d.disk.open : o.inst <= c.mem.inst)
    BY <2>1, <2>2 DEF Tracked
  <2>4. Tracked(d.mem, d.disk, d.minted, N) /\ Doubt(d.disk)
    BY <2>1, <2>2, <2>3, SteadyTracked
  <2>5. d \in Ctx /\ d.mem.inst = c.mem.inst /\ GrantPassed(d.mem, K, D)
    <3>1. d \in Ctx /\ d.mem.grant = c.mem.grant /\ d.mem.inst = c.mem.inst /\ d.mem.up = c.mem.up /\ d.mem.seq = c.mem.seq
      BY <2>1 DEF Steady
    <3> QED BY <3>1 DEF GrantPassed, BoundBy
  <2>6. Kept(d.disk, K, D) /\ Minded(d.mem, d.disk, K, D)
    BY <2>1, <2>2, <2>4, <2>5 DEF Kept, Minded
  <2> QED BY <2>4, <2>5, <2>6 DEF Left, Aware
<1> QED BY <1>1, <1>2 DEF TakenOver

\* The takeover of a human start is recorded: it accounts for all of D.
LEMMA TookOver ==
    ASSUME NEW c, NEW N, NEW K, NEW D, Left(c, N, K, D), Passed(c.mem.q, K, D), c.mem.bad = Reliable, c.ok,
           NEW e \in Nat, c.mem.q.human < e, NEW d, TakenOver(c, d, e), d.ok,
           NEW l, NEW b, Granted(d, b, l), NEW W, NEW A, NEW E, SoundCtx(b, W, A, E), NEW J, D \subseteq J
    PROVE  b.alive /\ Aware(b, N, J, D)
<1>1. c \in Ctx /\ Tracked(c.mem, c.disk, c.minted, N) /\ c.mem.q \in Queue /\ c.mem.q.human \in Nat
  BY CtxNumbers, HeldShape DEF Left
<1>2. PICK q \in Queue : /\ q.entries = c.mem.q.entries /\ q.sending = c.mem.q.sending
                         /\ q.epoch = c.mem.q.epoch /\ q.human = e /\ Committed(c, d, q, "recovery")
  BY <1>1 DEF TakenOver
<1>3. /\ Steady(c, d) /\ MarkedBad(c, d) /\ d.mem.open = c.mem.open /\ d.disk.open = c.disk.open
      /\ d.mem.q = q /\ d.disk.queue = q /\ d.mem.bad = Reliable /\ d.alive
  BY <1>2 DEF Committed
<1>4. Tracked(d.mem, d.disk, d.minted, N)
  <2>1. N \subseteq d.mem.open \cap d.disk.open /\ (\A o \in N : o.inst = c.mem.inst)
        /\ (\A o \in d.mem.open \cup d.disk.open : o.inst <= c.mem.inst)
    BY <1>1, <1>3 DEF Tracked
  <2> QED BY <1>1, <1>3, <2>1, SteadyTracked
<1>5. /\ b \in Ctx /\ b.mem.up = d.mem.up /\ b.mem.inst = d.mem.inst
      /\ b.mem.q = q /\ b.mem.bad = Reliable /\ b.mem.open = d.mem.open /\ b.disk = d.disk /\ b.minted = d.minted
      /\ b.alive /\ b.mem.grant.known = {WireForm(m) : m \in Blocking(q)}
  BY <1>3 DEF Granted
<1>6. Tracked(b.mem, b.disk, b.minted, N)
  <2>1. b.mem.bad = d.mem.bad
    BY <1>3, <1>5
  <2> QED BY <1>4, <1>5, <2>1 DEF Tracked
<1>7. Passed(q, J, D)
  <2>1. Normals(q) = Normals(c.mem.q)
    BY <1>2 DEF Normals, Held
  <2> QED BY <2>1 DEF Passed
<1>8. GrantPassed(b.mem, J, D)
  <2>1. ASSUME NEW g \in b.mem.grant.known, NEW x \in g.frames PROVE x \in Frames /\ BoundBy(x, b.mem)
    <3>1. PICK m \in Blocking(q) : g = WireForm(m)
      BY <1>5, <2>1
    <3>2. m \in Markers(q) /\ m \in Entry /\ m.t # "normal"
      BY <3>1, Kinds DEF Blocking, Entry
    <3>3. g.frames = m.frames
      BY <3>1, <3>2, WireFormIs
    <3>4. x \in Evidence(q)
      BY <2>1, <3>2, <3>3 DEF Evidence, MarkerFrames
    <3>5. x \in Frames
      BY <3>4, EvidenceFrames
    <3>6. BoundBy(x, b.mem)
      BY <1>5, <3>4 DEF SoundCtx, Sound, Good
    <3> QED BY <3>5, <3>6
  <2> QED BY <2>1 DEF GrantPassed
<1>9. Kept(b.disk, J, D) /\ Minded(b.mem, b.disk, J, D)
  BY <1>3, <1>5, <1>7, <1>8 DEF Kept, Minded
<1> QED BY <1>5, <1>6, <1>9 DEF Aware

\* An entry that is closed when the daemon may be dead.
LEMMA ClosedLeft ==
    ASSUME NEW c, NEW M, NEW K, NEW D, Left(c, M, K, D), c.alive => Aware(c, M, K, D),
           NEW N, N \subseteq M, NEW gone, N \cap gone = {}, NEW d, Closed(c, d, gone)
    PROVE  Left(d, N, K, D) /\ (d.alive => Aware(d, N, K, D))
<1>1. CASE c.alive
  <2>1. Aware(c, N, K, D)
    BY <1>1, AwareLess
  <2>2. Aware(d, N, K, D)
    BY <2>1, ClosedAware
  <2> QED BY <2>2 DEF Aware, Left
<1>2. CASE ~c.alive
  <2>1. /\ Steady(c, d) /\ MarkedBad(c, d) /\ ~d.alive /\ d.disk = c.disk /\ d.mem.open \in {c.mem.open, c.mem.open \ gone}
    BY <1>2 DEF Closed, Steady
  <2>2. c \in Ctx /\ Tracked(c.mem, c.disk, c.minted, N) /\ Kept(c.disk, K, D)
    BY TrackedLess DEF Left
  <2>3. N \subseteq d.mem.open \cap d.disk.open /\ (\A o \in N : o.inst = c.mem.inst)
        /\ (\A o \in d.mem.open \cup d.disk.open : o.inst <= c.mem.inst)
    BY <2>1, <2>2 DEF Tracked
  <2>4. Tracked(d.mem, d.disk, d.minted, N)
    BY <2>1, <2>2, <2>3, SteadyTracked
  <2>5. d \in Ctx
    BY <2>1 DEF Steady
  <2> QED BY <2>1, <2>2, <2>4, <2>5 DEF Left
<1> QED BY <1>1, <1>2

\* The recovery of a human start, whose request is r: admitted, it accounts for
\* all of D; refused, it forgets nothing.
LEMMA RecoveredAware ==
    ASSUME NEW c, NEW l, NEW r, r = Request(l, c.mem.inst), NEW N, r \notin N, NEW K, NEW D,
           Aware(c, N \cup {r}, K, D), ~TornRecovery,
           NEW e \in Nat, c.mem.q.human < e, NEW a, Recovered(c, a, l, e),
           NEW W, NEW A, NEW E, a.answer = "admitted" => SoundCtx(a.c, W, A, E)
    PROVE  /\ a.answer = "admitted" => a.c.alive /\ \A J : D \subseteq J => Aware(a.c, N \cup {r}, J, D)
           /\ a.answer # "admitted" => Left(a.c, N, K, D) /\ (a.c.alive => Aware(a.c, N, K, D))
<1>0. PICK M, R : M = N \cup {r} /\ R = {Request(l, c.mem.inst)}
  OBVIOUS
<1>1. PICK x, t : /\ Resolved(c, x) /\ TakenOver(x, t, e)
                  /\ \/ t.ok /\ a.answer = "admitted" /\ Granted(t, a.c, l)
                     \/ ~t.ok /\ a.answer = "storage_blocked" /\ Closed(t, a.c, R)
  BY <1>0 DEF Recovered
<1>2. Aware(c, M, K, D) /\ M # {} /\ N \subseteq M /\ N \cap R = {}
  BY <1>0
<1>3. /\ Left(x, M, K, D) /\ Doubt(x.disk) /\ Passed(x.mem.q, K, D) /\ GrantPassed(x.mem, K, D)
      /\ x.ok => x.mem.bad = Reliable
      /\ x.ok \/ Aware(x, M, K, D) \/ ~x.alive
      /\ x.mem.inst = c.mem.inst /\ x.mem.q.human = c.mem.q.human
  BY <1>1, <1>2, ResolvedAware
<1>4. CASE t.ok /\ a.answer = "admitted" /\ Granted(t, a.c, l)
  <2>1. x.ok
    BY <1>1, <1>4 DEF TakenOver
  <2>2. PICK b : b = a.c
    OBVIOUS
  <2>3. SoundCtx(b, W, A, E) /\ Granted(t, b, l)
    BY <1>4, <2>2
  <2>4. x.mem.bad = Reliable /\ x.mem.q.human < e
    BY <1>3, <2>1
  <2>5. ASSUME NEW J, D \subseteq J PROVE b.alive /\ Aware(b, M, J, D)
    BY <1>1, <1>3, <1>4, <2>1, <2>3, <2>4, <2>5, TookOver
  <2> QED BY <1>0, <1>4, <2>2, <2>5
<1>5. CASE ~t.ok /\ a.answer = "storage_blocked" /\ Closed(t, a.c, R)
  <2>1. Left(t, M, K, D) /\ (t.alive => Aware(t, M, K, D)) /\ t.mem.inst = x.mem.inst
    BY <1>1, <1>2, <1>3, <1>5, NotTakenOver
  <2>2. PICK b : b = a.c
    OBVIOUS
  <2>3. Left(b, N, K, D) /\ (b.alive => Aware(b, N, K, D))
    BY <1>2, <1>5, <2>1, <2>2, ClosedLeft
  <2> QED BY <1>5, <2>2, <2>3
<1> QED BY <1>1, <1>4, <1>5

\* Start l, whose request is r, is answered with a.
Asked(c, l, r, N, K, D, e, human, a, W, A, E) ==
    /\ l \in Launches /\ r = Request(l, c.mem.inst) /\ r \notin N /\ Aware(c, N, K, D)
    /\ e \in Nat /\ human \in BOOLEAN /\ (human => c.mem.q.human < e)
    /\ Answered(c, a, l, human, e) /\ (a.answer = "admitted" => SoundCtx(a.c, W, A, E))

\* What c remembers after the answer.
Told(c, r, N, K, D, human, a) ==
    /\ a.answer = "needs_manual" => ~human /\ a.c = c
    /\ a.answer = "admitted" =>
           /\ a.c.alive
           /\ ~human => Aware(a.c, N \cup {r}, K, D)
           /\ human => \A J : D \subseteq J => Aware(a.c, N \cup {r}, J, D)
    /\ a.answer \notin {"admitted", "needs_manual"} => Left(a.c, N, K, D) /\ (a.c.alive => Aware(a.c, N, K, D))

LEMMA AskedTold ==
    ASSUME ~TornRecovery, NEW c, NEW l, NEW r, NEW N, NEW K, NEW D, NEW e, NEW human, NEW a, NEW W, NEW A, NEW E,
           Asked(c, l, r, N, K, D, e, human, a, W, A, E)
    PROVE  Told(c, r, N, K, D, human, a)
<1>0. /\ l \in Launches /\ r = Request(l, c.mem.inst) /\ r \notin N /\ Aware(c, N, K, D)
      /\ e \in Nat /\ human \in BOOLEAN /\ (human => c.mem.q.human < e)
      /\ Answered(c, a, l, human, e) /\ (a.answer = "admitted" => SoundCtx(a.c, W, A, E))
  BY DEF Asked
<1>1. Aware(c, N, K, D) => Left(c, N, K, D)
  BY DEF Aware, Left
<1>2. CASE a.c = c /\ a.answer = "storage_blocked"
  BY <1>0, <1>1, <1>2 DEF Told
<1>3. CASE a.c = c /\ a.answer = "needs_manual" /\ ~human
  BY <1>3 DEF Told
<1>4. ASSUME NEW o, Opened(c, o, c.mem.open \cup {Request(l, c.mem.inst)}),
             \/ ~o.ok /\ a.c = o /\ a.answer = "storage_blocked" /\ o.mem.bad # Reliable
             \/ o.ok /\ ~human /\ a.c = o /\ a.answer = "admitted"
             \/ o.ok /\ human /\ Recovered(o, a, l, e)
      PROVE  Told(c, r, N, K, D, human, a)
  <2>1. r.inst = c.mem.inst /\ Opened(c, o, c.mem.open \cup {r})
    BY <1>0, <1>4 DEF Request
  <2>2. Aware(o, N, K, D) /\ (o.ok => Aware(o, N \cup {r}, K, D))
    BY <1>0, <2>1, OpenedAware
  <2>3. o.mem.inst = c.mem.inst /\ o.mem.q = c.mem.q /\ (o.ok => o.alive)
    BY <1>4 DEF Opened, Steady
  <2>4. CASE ~o.ok /\ a.c = o /\ a.answer = "storage_blocked"
    BY <2>2, <2>4 DEF Left, Aware, Told
  <2>5. CASE o.ok /\ ~human /\ a.c = o /\ a.answer = "admitted"
    BY <2>2, <2>3, <2>5 DEF Told
  <2>6. CASE o.ok /\ human /\ Recovered(o, a, l, e)
    <3>1. r = Request(l, o.mem.inst) /\ Aware(o, N \cup {r}, K, D) /\ o.mem.q.human < e
      BY <1>0, <2>2, <2>3, <2>6
    <3>2. /\ a.answer = "admitted" => a.c.alive /\ \A J : D \subseteq J => Aware(a.c, N \cup {r}, J, D)
          /\ a.answer # "admitted" => Left(a.c, N, K, D) /\ (a.c.alive => Aware(a.c, N, K, D))
      BY <1>0, <2>6, <3>1, RecoveredAware
    <3>3. a.answer \in {"admitted", "storage_blocked"}
      BY <2>6 DEF Recovered
    <3> QED BY <2>6, <3>2, <3>3 DEF Told
  <2> QED BY <1>4, <2>4, <2>5, <2>6
<1> QED BY <1>0, <1>2, <1>3, <1>4 DEF Answered

-----------------------------------------------------------------------------
\* The invariant of what is remembered.

\* The entry that must be open while a start stands at s.
EntryOf(l, s, i) ==
    IF s \in {"pending", "passed"} THEN {Request(l, i)}
    ELSE IF s \in {"starting", "running"} THEN {Process(l, i)} ELSE {}
NeededBut(l) == UNION {EntryOf(k, launch[k], mem.inst) : k \in Launches \ {l}}
Needed == NeededBut(0)
Known == Judged \cup told \cup covered

\* Evidence x may be owed beside memory m: a frame, or the orphan <<0, l>> of a launch.
Owing(D, m) == \A x \in D : (x \in Frames \/ x[1] = 0) /\ BoundBy(x, m)

Recall ==
    /\ Tracked(mem, disk, minted, Needed) /\ Kept(disk, Known, owed)
    /\ mem.up => Minded(mem, disk, Known, owed)
    /\ ~mem.up => Live = {}
    /\ covered \subseteq owed /\ Owing(owed, mem)

LEMMA LaterOwing ==
    ASSUME NEW c, NEW d, Later(c, d), NEW D, Owing(D, c.mem)
    PROVE  Owing(D, d.mem)
<1>1. c \in Ctx /\ d \in Ctx /\ d.mem.inst = c.mem.inst /\ d.mem.up = c.mem.up /\ c.mem.seq <= d.mem.seq
  BY DEF Later
<1>2. ASSUME NEW x \in D PROVE (x \in Frames \/ x[1] = 0) /\ BoundBy(x, d.mem)
  <2>1. (x \in Frames \/ x[1] = 0) /\ BoundBy(x, c.mem)
    BY <1>2 DEF Owing
  <2> QED BY <1>1, <2>1, LaterBound
<1> QED BY <1>2 DEF Owing

\* The entries of a launch and of the others.
LEMMA EntriesApart ==
    ASSUME NEW l, NEW i
    PROVE  /\ NeededBut(l) \cap {Request(l, i)} = {} /\ NeededBut(l) \cap {Process(l, i)} = {}
           /\ Request(l, i) # Process(l, i)
<1>1. ASSUME NEW x \in NeededBut(l) PROVE x.launch # l
  <2>1. PICK k \in Launches \ {l} : x \in EntryOf(k, launch[k], mem.inst)
    BY <1>1 DEF NeededBut
  <2> QED BY <2>1 DEF EntryOf, Request, Process
<1> QED BY <1>1 DEF Request, Process

LEMMA NeededIs ==
    ASSUME NEW l \in Launches
    PROVE  Needed = NeededBut(l) \cup EntryOf(l, launch[l], mem.inst)
<1>1. 0 \notin Launches
  BY OutboxAssumption DEF Launches
<1> QED BY <1>1 DEF Needed, NeededBut

\* A waiting launch needs an entry.
LEMMA WaitingNeeds ==
    ASSUME NEW l, NEW s \in Waiting, NEW i
    PROVE  EntryOf(l, s, i) # {}
  BY DEF Waiting, EntryOf

LEMMA LiveNeeds ==
    ASSUME NEW l, NEW k \in Live \ {l}
    PROVE  NeededBut(l) # {}
<1>1. k \in Launches \ {l} /\ launch[k] \in Waiting
  BY DEF Live
<1>2. EntryOf(k, launch[k], mem.inst) # {}
  BY <1>1, WaitingNeeds
<1> QED BY <1>1, <1>2 DEF NeededBut

\* Where nothing waits, nothing is needed.
LEMMA NothingNeeded ==
    ASSUME Live = {}, NEW l
    PROVE  NeededBut(l) = {}
<1>1. ASSUME NEW k \in Launches PROVE EntryOf(k, launch[k], mem.inst) = {}
  <2>1. launch[k] \notin Waiting
    BY DEF Live
  <2> QED BY <2>1 DEF EntryOf, Waiting
<1> QED BY <1>1 DEF NeededBut

\* A handler of a running daemon begins aware.
LEMMA BeginsAware ==
    ASSUME Recall, mem.up, NEW c, Begins(c)
    PROVE  Aware(c, Needed, Known, owed) /\ Owing(owed, c.mem) /\ c.made = {}
  BY DEF Recall, Begins, Aware

\* Launches without an outcome are no frames.
LEMMA OrphansApart ==
    ASSUME NEW L, NEW q \in Queue
    PROVE  Orphans(L) \cap Evidence(q) = {} /\ \A x \in Orphans(L) : x[1] = 0 /\ x \notin Frames
<1>1. ASSUME NEW x \in Orphans(L) PROVE x[1] = 0 /\ x \notin Frames
  <2>1. PICK l \in L : x = <<0, l>>
    BY <1>1 DEF Orphans
  <2> QED BY <2>1 DEF Frames, Positive
<1> QED BY <1>1, EvidenceFrames

\* A crash within a handler, or between handlers, leaves the launches L without
\* an outcome.
LEMMA DownRecall ==
    ASSUME NEW c, NEW M, NEW K, NEW F, Left(c, M, K, F), Owing(F, c.mem),
           NEW L, L # {} => M # {}, NEW m, m = [FreshMemory(c.mem.inst) EXCEPT !.up = FALSE],
           NEW G, G = F \cup Orphans(L)
    PROVE  Tracked(m, c.disk, c.minted, {}) /\ Kept(c.disk, K, G) /\ Owing(G, m) /\ ~m.up
<1>1. c \in Ctx /\ c.mem \in Memory /\ c.mem.inst \in Nat /\ c.disk.queue \in Queue
  BY CtxNumbers DEF Left
<1>2. ~m.up /\ m.inst = c.mem.inst /\ m.bad = Reliable /\ m.open = {}
  BY <1>1, DownIs
<1>3. c.minted \in Nat /\ Reliable = -1
  BY <1>1, CtxNumbers
<1>4. Tracked(m, c.disk, c.minted, {})
  BY <1>2, <1>3 DEF Left, Tracked
<1>5. Owing(G, m)
  <2>1. ASSUME NEW x \in F PROVE (x \in Frames \/ x[1] = 0) /\ BoundBy(x, m)
    BY <1>2, <2>1 DEF Owing, BoundBy
  <2>2. ASSUME NEW x \in Orphans(L) PROVE (x \in Frames \/ x[1] = 0) /\ BoundBy(x, m)
    <3>1. \A y \in Orphans(L) : y[1] = 0
      BY <1>1, OrphansApart
    <3>2. x[1] = 0
      BY <2>2, <3>1
    <3> QED BY <1>1, <1>2, <3>2 DEF BoundBy
  <2> QED BY <2>1, <2>2 DEF Owing
<1>6. Kept(c.disk, K, G)
  <2>1. PICK X : X = Orphans(L)
    OBVIOUS
  <2>2. X \cap Evidence(c.disk.queue) = {} /\ G \subseteq F \cup X
    BY <1>1, <2>1, OrphansApart
  <2>3. Passed(c.disk.queue, K, F)
    BY DEF Left, Kept
  <2>4. Passed(c.disk.queue, K, G)
    BY <2>2, <2>3, PassedAlso
  <2>5. CASE L = {}
    <3>1. G = F
      BY <2>5 DEF Orphans
    <3> QED BY <3>1 DEF Left
  <2>6. CASE L # {}
    <3>1. Doubt(c.disk)
      BY <1>1, <2>6, OpenDoubt DEF Left
    <3> QED BY <2>4, <3>1 DEF Kept
  <2> QED BY <2>5, <2>6
<1> QED BY <1>2, <1>4, <1>5, <1>6

\* More is known.
LEMMA PassedMore ==
    ASSUME NEW q, NEW K, NEW D, Passed(q, K, D), NEW J, K \subseteq J
    PROVE  Passed(q, J, D)
  BY DEF Passed

LEMMA KeptMore ==
    ASSUME NEW f, NEW K, NEW D, Kept(f, K, D), NEW J, K \subseteq J
    PROVE  Kept(f, J, D)
<1>1. Passed(f.queue, J, D)
  BY PassedMore DEF Kept
<1> QED BY <1>1 DEF Kept

LEMMA MindedMore ==
    ASSUME NEW m, NEW f, NEW K, NEW D, Minded(m, f, K, D), NEW J, K \subseteq J
    PROVE  Minded(m, f, J, D)
<1>1. Passed(m.q, J, D)
  BY PassedMore DEF Minded
<1>2. GrantPassed(m, J, D)
  BY DEF Minded, GrantPassed
<1> QED BY <1>1, <1>2 DEF Minded

\* A handler ends.
LEMMA HandledRecall ==
    ASSUME Delivery, Recall, NEW c, NEW d, NEW l, NEW at, Handled(c, d, l, at),
           l \in Launches \/ at = "none",
           NEW F, F = owed \cup (IF l \in Live THEN d.made ELSE {}),
           NEW K, K = Judged \cup told \cup covered', covered' \subseteq F,
           NEW M, M = NeededBut(l) \cup EntryOf(l, at, d.mem.inst),
           d.mem.inst = mem.inst \/ Live = {},
           Left(d, M, K, F), d.alive => d.mem.up /\ Minded(d.mem, d.disk, K, F), Owing(F, d.mem)
    PROVE  Recall'
<1>1. direct \subseteq direct' /\ applied \subseteq applied' /\ told' = told
  BY DEF Handled
<1>2. PICK others : EndsWith(d, l, at, others)
  BY DEF Handled
<1>3. PICK J : J = Known'
  OBVIOUS
<1>4. disk' = d.disk /\ minted' = d.minted /\ K \subseteq J
  BY <1>1, <1>2, <1>3, JudgedGrows DEF EndsWith, Known
<1>5. d \in Ctx /\ Kept(d.disk, J, F)
  BY <1>4, KeptMore DEF Left
<1>6. CASE d.alive
  <2>1. /\ mem' = d.mem /\ owed' = F
        /\ launch' = [k \in Launches |-> IF k = l THEN at ELSE IF k \in others THEN "over" ELSE launch[k]]
    BY <1>2, <1>6 DEF EndsWith
  <2>2. Needed' \subseteq M
    <3>1. ASSUME NEW k \in Launches PROVE EntryOf(k, launch'[k], d.mem.inst) \subseteq M
      <4>1. CASE k = l
        <5>1. launch'[k] = at
          BY <2>1, <4>1
        <5> QED BY <4>1, <5>1
      <4>2. CASE k # l /\ k \in others
        <5>1. launch'[k] = "over"
          BY <2>1, <4>2
        <5> QED BY <5>1 DEF EntryOf
      <4>3. CASE k # l /\ k \notin others
        <5>1. launch'[k] = launch[k]
          BY <2>1, <4>3
        <5>2. CASE d.mem.inst = mem.inst
          <6>1. EntryOf(k, launch[k], mem.inst) \subseteq NeededBut(l)
            BY <4>3 DEF NeededBut
          <6> QED BY <5>1, <5>2, <6>1
        <5>3. CASE Live = {}
          <6>1. launch[k] \notin Waiting
            BY <5>3 DEF Live
          <6> QED BY <5>1, <6>1 DEF Waiting, EntryOf
        <5> QED BY <5>2, <5>3
      <4> QED BY <4>1, <4>2, <4>3
    <3> QED BY <2>1, <3>1 DEF Needed, NeededBut
  <2>3. Tracked(mem', disk', minted', Needed')
    <3>1. Tracked(d.mem, d.disk, d.minted, M)
      BY DEF Left
    <3>2. PICK N : N = Needed'
      OBVIOUS
    <3>3. Tracked(d.mem, d.disk, d.minted, N)
      BY <2>2, <3>1, <3>2, TrackedLess
    <3> QED BY <1>4, <2>1, <3>2, <3>3
  <2>4. Kept(disk', Known', owed') /\ Minded(mem', disk', Known', owed') /\ mem'.up
    <3>1. Minded(d.mem, d.disk, J, F) /\ d.mem.up
      BY <1>4, <1>6, MindedMore
    <3> QED BY <1>3, <1>4, <1>5, <2>1, <3>1
  <2>5. covered' \subseteq owed' /\ Owing(owed', mem')
    BY <2>1
  <2> QED BY <2>3, <2>4, <2>5 DEF Recall
<1>7. CASE ~d.alive
  <2>1. PICK L : L = IF at \in Waiting THEN Live ELSE Live \ {l}
    OBVIOUS
  <2>2. PICK m, G : m = [FreshMemory(d.mem.inst) EXCEPT !.up = FALSE] /\ G = F \cup Orphans(L)
    OBVIOUS
  <2>3. mem' = m /\ launch' = Killed /\ owed' = G
    BY <1>2, <1>7, <2>1, <2>2 DEF EndsWith
  <2>4. L # {} => M # {}
    <3>1. CASE at \in Waiting
      <4>1. EntryOf(l, at, d.mem.inst) # {}
        BY <3>1, WaitingNeeds
      <4> QED BY <4>1
    <3>2. CASE at \notin Waiting
      <4>1. ASSUME NEW k \in Live \ {l} PROVE NeededBut(l) # {}
        BY <4>1, LiveNeeds
      <4> QED BY <2>1, <3>2, <4>1
    <3> QED BY <3>1, <3>2
  <2>5. Left(d, M, J, F)
    BY <1>5 DEF Left
  <2>6. Tracked(m, d.disk, d.minted, {}) /\ Kept(d.disk, J, G) /\ Owing(G, m) /\ ~m.up
    BY <2>2, <2>4, <2>5, DownRecall
  <2>7. Live' = {}
    BY <2>3 DEF Live, Killed, Waiting
  <2>8. Needed' = {}
    <3>1. ASSUME NEW k \in Launches PROVE EntryOf(k, launch'[k], mem'.inst) = {}
      BY <2>7, <3>1 DEF Live, EntryOf, Waiting
    <3> QED BY <3>1 DEF Needed, NeededBut
  <2>9. Tracked(mem', disk', minted', Needed') /\ Kept(disk', Known', owed') /\ Owing(owed', mem') /\ ~mem'.up
    BY <1>3, <1>4, <2>3, <2>6, <2>8
  <2>10. covered' \subseteq owed'
    BY <2>2, <2>3
  <2> QED BY <2>7, <2>9, <2>10 DEF Recall
<1> QED BY <1>6, <1>7

LEMMA BeginsSound ==
    ASSUME Delivery, NEW c, Begins(c)
    PROVE  SoundCtx(c, wire, Judged, epoch)
<1>1. wire \cup c.out = wire /\ c.mem = mem /\ c.disk = disk /\ c \in Ctx
  BY DEF Begins
<1> QED BY <1>1 DEF Delivery, SoundCtx

\* A handler of a running daemon ends aware.
LEMMA AwareRecall ==
    ASSUME Delivery, Recall, NEW c, NEW d, NEW l, NEW at, Handled(c, d, l, at),
           l \in Launches \/ at = "none", covered' = covered,
           NEW F, F = owed \cup (IF l \in Live THEN d.made ELSE {}),
           NEW N, NeededBut(l) \cup EntryOf(l, at, mem.inst) \subseteq N,
           Aware(d, N, Known, F), d.mem.inst = mem.inst, d.mem.up, Owing(F, d.mem)
    PROVE  Recall'
<1>1. PICK M, K : M = NeededBut(l) \cup EntryOf(l, at, d.mem.inst) /\ K = Judged \cup told \cup covered'
  OBVIOUS
<1>2. K = Known /\ M \subseteq N
  BY <1>1 DEF Known
<1>3. Aware(d, M, K, F)
  BY <1>2, AwareLess
<1>4. Left(d, M, K, F) /\ Minded(d.mem, d.disk, K, F)
  BY <1>3 DEF Aware, Left
<1>5. covered' \subseteq F
  BY DEF Recall
<1> QED BY <1>1, <1>4, <1>5, HandledRecall

\* A frame of a waiting launch l is enqueued.
LEMMA FrameAware ==
    ASSUME Delivery, Recall, mem.up, NEW l \in Launches, launch[l] \in Waiting,
           NEW c, Begins(c), NEW b, SoundCtx(b, wire, Judged, epoch), b.made = {},
           b.mem.inst = mem.inst, b.mem.up, Aware(b, Needed, Known, owed), Owing(owed, b.mem),
           NEW turn \in BOOLEAN, NEW gone, NEW N, N \subseteq Needed, N \cap gone = {}, NEW d, Enqueued(b, d, turn, gone),
           NEW F, F = owed \cup d.made
    PROVE  Aware(d, N, Known, F) /\ Owing(F, d.mem) /\ d.mem.inst = mem.inst /\ d.mem.up
<1>1. Needed # {}
  <2>1. EntryOf(l, launch[l], mem.inst) # {}
    BY WaitingNeeds
  <2> QED BY <2>1, NeededIs
<1>2. Doubt(b.disk)
  <2>1. b \in Ctx /\ Tracked(b.mem, b.disk, b.minted, Needed)
    BY DEF Aware
  <2> QED BY <1>1, <2>1, OpenDoubt
<1>3. PICK K, D : K = Known /\ D = owed
  OBVIOUS
<1>4. Aware(b, N, K, D)
  BY <1>3, AwareLess
<1>5. \A x \in D : (x \in Frames \/ x[1] = 0) /\ BoundBy(x, b.mem)
  BY <1>3 DEF Owing
<1>6. F = D \cup d.made
  BY <1>3
<1>7. Aware(d, N, K, F) /\ \A x \in F : (x \in Frames \/ x[1] = 0) /\ BoundBy(x, d.mem)
  BY <1>2, <1>4, <1>5, <1>6, EnqueuedAware
<1>8. d.mem.inst = b.mem.inst /\ d.mem.up = b.mem.up
  BY EnqueuedKeeps
<1> QED BY <1>3, <1>7, <1>8 DEF Owing

LEMMA EnqueueRecall ==
    ASSUME Delivery, Recall, mem.up, NEW l \in Launches, launch[l] \in Waiting, NEW at, NEW turn \in BOOLEAN, NEW gone,
           FrameSteps(l, at, turn, gone), NEW N, N \subseteq Needed, N \cap gone = {},
           NeededBut(l) \cup EntryOf(l, at, mem.inst) \subseteq N
    PROVE  Recall'
<1>1. PICK c, d : Handled(c, d, l, at) /\ Enqueued(c, d, turn, gone) /\ covered' = covered
  BY DEF FrameSteps
<1>2. Begins(c) /\ c.mem.inst = mem.inst /\ c.mem.up
  BY <1>1 DEF Handled, Begins
<1>3. SoundCtx(c, wire, Judged, epoch) /\ Aware(c, Needed, Known, owed) /\ Owing(owed, c.mem) /\ c.made = {}
  BY <1>2, BeginsSound, BeginsAware
<1>4. PICK F : F = owed \cup d.made
  OBVIOUS
<1>5. Aware(d, N, Known, F) /\ Owing(F, d.mem) /\ d.mem.inst = mem.inst /\ d.mem.up
  BY <1>1, <1>2, <1>3, <1>4, FrameAware
<1>6. F = owed \cup (IF l \in Live THEN d.made ELSE {})
  BY <1>4 DEF Live
<1> QED BY <1>1, <1>5, <1>6, AwareRecall

LEMMA SpawnedRecall ==
    ASSUME Delivery, Recall, NEW l \in Launches, Spawned(l)
    PROVE  Recall'
<1>1. PICK at, turn, gone, N : at = "running" /\ turn = FALSE /\ gone = {Request(l, mem.inst)} /\ N = Needed
  OBVIOUS
<1>2. FrameSteps(l, at, turn, gone) /\ mem.up /\ launch[l] = "starting"
  BY <1>1, SpawnedIs
<1>3. EntryOf(l, launch[l], mem.inst) = EntryOf(l, at, mem.inst) /\ EntryOf(l, at, mem.inst) = {Process(l, mem.inst)}
  BY <1>1, <1>2 DEF EntryOf
<1>4. N = NeededBut(l) \cup EntryOf(l, at, mem.inst)
  BY <1>1, <1>3, NeededIs
<1>5. N \cap gone = {}
  BY <1>1, <1>3, <1>4, EntriesApart
<1>6. launch[l] \in Waiting /\ turn \in BOOLEAN
  BY <1>1, <1>2 DEF Waiting
<1> QED BY <1>1, <1>2, <1>4, <1>5, <1>6, EnqueueRecall

LEMMA OutcomeRecall ==
    ASSUME Delivery, Recall, NEW l \in Launches, NEW turn \in BOOLEAN, Outcome(l, turn)
    PROVE  Recall'
<1>1. PICK at, gone, N : at = "running" /\ gone = {} /\ N = Needed
  OBVIOUS
<1>2. FrameSteps(l, at, turn, gone) /\ mem.up /\ launch[l] = at
  BY <1>1, OutcomeIs
<1>3. N = NeededBut(l) \cup EntryOf(l, at, mem.inst)
  BY <1>1, <1>2, NeededIs
<1>4. launch[l] \in Waiting /\ N \cap gone = {}
  BY <1>1, <1>2 DEF Waiting
<1> QED BY <1>1, <1>2, <1>3, <1>4, EnqueueRecall

LEMMA ExitedRecall ==
    ASSUME Delivery, Recall, NEW l \in Launches, Exited(l)
    PROVE  Recall'
<1>1. PICK at, turn, gone, N : at = "over" /\ turn = FALSE /\ gone = {Process(l, mem.inst)} /\ N = NeededBut(l)
  OBVIOUS
<1>2. FrameSteps(l, at, turn, gone) /\ mem.up /\ launch[l] = "running"
  BY <1>1, ExitedIs
<1>3. N \subseteq Needed /\ N \cap gone = {}
  BY <1>1, NeededIs, EntriesApart
<1>4. NeededBut(l) \cup EntryOf(l, at, mem.inst) \subseteq N
  BY <1>1 DEF EntryOf
<1>5. launch[l] \in Waiting /\ turn \in BOOLEAN
  BY <1>1, <1>2 DEF Waiting
<1> QED BY <1>1, <1>2, <1>3, <1>4, <1>5, EnqueueRecall

LEMMA SpawnFailsRecall ==
    ASSUME Delivery, Recall, NEW l \in Launches, SpawnFails(l)
    PROVE  Recall'
<1>1. FailSteps(l) /\ mem.up /\ launch[l] = "starting"
  BY SpawnFailsIs
<1>2. PICK R, P, at : R = {Request(l, mem.inst)} /\ P = {Process(l, mem.inst)} /\ at = "over"
  OBVIOUS
<1>3. PICK c, x, d : Handled(c, d, l, at) /\ Enqueued(c, x, FALSE, R) /\ Closed(x, d, P) /\ covered' = covered
  BY <1>1, <1>2 DEF FailSteps
<1>4. Begins(c) /\ c.mem.inst = mem.inst /\ c.mem.up
  BY <1>1, <1>3 DEF Handled, Begins
<1>5. SoundCtx(c, wire, Judged, epoch) /\ Aware(c, Needed, Known, owed) /\ Owing(owed, c.mem) /\ c.made = {}
  BY <1>1, <1>4, BeginsSound, BeginsAware
<1>6. PICK F, N, turn : F = owed \cup x.made /\ N = NeededBut(l) /\ turn = FALSE
  OBVIOUS
<1>7. N \subseteq Needed /\ N \cap R = {} /\ N \cap P = {} /\ turn \in BOOLEAN /\ launch[l] \in Waiting
  BY <1>1, <1>2, <1>6, NeededIs, EntriesApart DEF Waiting
<1>8. Enqueued(c, x, turn, R)
  BY <1>3, <1>6
<1>9. Aware(x, N, Known, F) /\ Owing(F, x.mem) /\ x.mem.inst = mem.inst /\ x.mem.up
  BY <1>1, <1>4, <1>5, <1>6, <1>7, <1>8, FrameAware
<1>10. Aware(d, N, Known, F)
  BY <1>3, <1>7, <1>9, ClosedAware
<1>11. d.mem.inst = x.mem.inst /\ d.mem.up = x.mem.up /\ d.mem.seq = x.mem.seq /\ d.made = x.made
  BY <1>3 DEF Closed, Steady
<1>12. Owing(F, d.mem)
  BY <1>9, <1>11 DEF Owing, BoundBy
<1>13. F = owed \cup (IF l \in Live THEN d.made ELSE {})
  BY <1>6, <1>7, <1>11 DEF Live
<1>14. NeededBut(l) \cup EntryOf(l, at, mem.inst) \subseteq N
  BY <1>2, <1>6 DEF EntryOf
<1> QED BY <1>3, <1>9, <1>10, <1>11, <1>12, <1>13, <1>14, AwareRecall

\* A frame of launch l is enqueued by a later part of a handler, or nothing is.
LEMMA PartRecall ==
    ASSUME Delivery, Recall, mem.up, NEW l \in Launches, launch[l] \in Waiting,
           NEW c, NEW d, NEW at, Handled(c, d, l, at), covered' = covered,
           NEW b, SoundCtx(b, wire, Judged, epoch), b.made = {},
           b.mem.inst = mem.inst, b.mem.up, Owing(owed, b.mem),
           NEW N, Aware(b, N, Known, owed), NeededBut(l) \cup EntryOf(l, at, mem.inst) \subseteq N,
           d = b \/ (Aware(b, Needed, Known, owed) /\ EntryOf(l, at, mem.inst) = {}
                     /\ Enqueued(b, d, FALSE, {Request(l, mem.inst)}))
    PROVE  Recall'
<1>1. l \in Live
  BY DEF Live
<1>2. CASE d = b
  <2>1. PICK F : F = owed \cup (IF l \in Live THEN d.made ELSE {})
    OBVIOUS
  <2>2. F = owed
    BY <1>2, <2>1
  <2> QED BY <1>2, <2>1, <2>2, AwareRecall
<1>3. CASE /\ Aware(b, Needed, Known, owed) /\ EntryOf(l, at, mem.inst) = {}
           /\ Enqueued(b, d, FALSE, {Request(l, mem.inst)})
  <2>1. PICK F, M, turn, gone : /\ F = owed \cup d.made /\ M = NeededBut(l) /\ turn = FALSE
                                /\ gone = {Request(l, mem.inst)}
    OBVIOUS
  <2>2. M \subseteq Needed /\ M \cap gone = {} /\ turn \in BOOLEAN /\ Enqueued(b, d, turn, gone)
    BY <1>3, <2>1, NeededIs, EntriesApart
  <2>3. Begins(c)
    BY DEF Handled
  <2>4. Aware(d, M, Known, F) /\ Owing(F, d.mem) /\ d.mem.inst = mem.inst /\ d.mem.up
    BY <1>3, <2>1, <2>2, <2>3, FrameAware
  <2>5. F = owed \cup (IF l \in Live THEN d.made ELSE {}) /\ NeededBut(l) \cup EntryOf(l, at, mem.inst) \subseteq M
    BY <1>1, <1>3, <2>1
  <2> QED BY <2>4, <2>5, AwareRecall
<1> QED BY <1>2, <1>3

LEMMA OpenProcessRecall ==
    ASSUME Delivery, Recall, NEW l \in Launches, OpenProcess(l)
    PROVE  Recall'
<1>1. OpenSteps(l) /\ mem.up /\ launch[l] = "passed"
  BY OpenProcessIs
<1>2. PICK r, g : r = Process(l, mem.inst) /\ g = mem.open \cup {r}
  OBVIOUS
<1>3. PICK c, o, d, at :
        /\ Handled(c, d, l, at) /\ Opened(c, o, g) /\ covered' = covered
        /\ \/ o.ok /\ d = o /\ at = "starting"
           \/ ~o.ok /\ at = "over" /\ (Later(o, d) \/ Enqueued(o, d, FALSE, {Request(l, mem.inst)}))
  BY <1>1, <1>2 DEF OpenSteps
<1>4. Begins(c) /\ c.mem = mem /\ c.mem.up
  BY <1>1, <1>3 DEF Handled, Begins
<1>5. SoundCtx(c, wire, Judged, epoch) /\ Aware(c, Needed, Known, owed) /\ Owing(owed, c.mem) /\ c.made = {}
  BY <1>1, <1>4, BeginsSound, BeginsAware
<1>6. r.inst = c.mem.inst /\ Opened(c, o, c.mem.open \cup {r})
  BY <1>2, <1>3, <1>4 DEF Process
<1>7. Aware(o, Needed, Known, owed) /\ (o.ok => Aware(o, Needed \cup {r}, Known, owed))
  BY <1>5, <1>6, OpenedAware
<1>8. /\ o \in Ctx /\ o.mem.inst = mem.inst /\ o.mem.up /\ o.mem.seq = mem.seq /\ o.mem.q = c.mem.q
      /\ o.disk.queue = c.disk.queue /\ o.out = c.out /\ o.made = {}
  BY <1>3, <1>4, <1>5 DEF Opened, Steady
<1>9. SoundCtx(o, wire, Judged, epoch)
  <2>1. Quiet(c, o)
    BY <1>4, <1>8 DEF Quiet
  <2> QED BY <1>5, <2>1, QuietSound
<1>10. Owing(owed, o.mem)
  BY <1>4, <1>5, <1>8 DEF Owing, BoundBy
<1>11. launch[l] \in Waiting /\ NeededBut(l) \subseteq Needed
  BY <1>1, NeededIs DEF Waiting
<1>12. CASE o.ok /\ d = o /\ at = "starting"
  <2>1. PICK N : N = Needed \cup {r}
    OBVIOUS
  <2>2. NeededBut(l) \cup EntryOf(l, at, mem.inst) \subseteq N
    BY <1>2, <1>11, <1>12, <2>1 DEF EntryOf
  <2>3. Aware(o, N, Known, owed)
    BY <1>7, <1>12, <2>1
  <2> QED BY <1>1, <1>3, <1>8, <1>9, <1>10, <1>11, <1>12, <2>2, <2>3, PartRecall
<1>13. CASE ~o.ok /\ at = "over" /\ Enqueued(o, d, FALSE, {Request(l, mem.inst)})
  <2>1. EntryOf(l, at, mem.inst) = {}
    BY <1>13 DEF EntryOf
  <2>2. PICK N : N = Needed
    OBVIOUS
  <2>3. Aware(o, N, Known, owed) /\ NeededBut(l) \cup EntryOf(l, at, mem.inst) \subseteq N
    BY <1>7, <1>11, <2>1, <2>2
  <2> QED BY <1>1, <1>3, <1>7, <1>8, <1>9, <1>10, <1>11, <1>13, <2>1, <2>3, PartRecall
<1>14. CASE ~o.ok /\ at = "over" /\ Later(o, d)
  <2>1. EntryOf(l, at, mem.inst) = {}
    BY <1>14 DEF EntryOf
  <2>2. PICK N : N = Needed
    OBVIOUS
  <2>3. Aware(d, N, Known, owed) /\ NeededBut(l) \cup EntryOf(l, at, mem.inst) \subseteq N
    BY <1>7, <1>11, <1>14, <2>1, <2>2, LaterAware
  <2>4. SoundCtx(d, wire, Judged, epoch)
    BY ONLY <1>9, <1>14, LaterIsSound
  <2>5. Owing(owed, d.mem)
    BY <1>10, <1>14, LaterOwing
  <2>6. d.made = {} /\ d.mem.inst = mem.inst /\ d.mem.up
    BY <1>8, <1>14 DEF Later
  <2> QED BY <1>1, <1>3, <1>11, <2>3, <2>4, <2>5, <2>6, PartRecall
<1> QED BY <1>3, <1>12, <1>13, <1>14

LEMMA GateRecall ==
    ASSUME Delivery, Recall, NEW l \in Launches, Gate(l)
    PROVE  Recall'
<1>1. GateSteps(l) /\ mem.up /\ launch[l] = "pending"
  BY GateIs
<1>2. PICK c, b, d, at :
        /\ Handled(c, d, l, at) /\ Alike(c, b) /\ covered' = covered
        /\ \/ at \in {"over", "rebound"} /\ Enqueued(b, d, FALSE, {Request(l, mem.inst)})
           \/ at = "passed" /\ d = b
  BY <1>1 DEF GateSteps
<1>3. Begins(c) /\ c.mem = mem /\ c.mem.up
  BY <1>1, <1>2 DEF Handled, Begins
<1>4. SoundCtx(c, wire, Judged, epoch) /\ Aware(c, Needed, Known, owed) /\ Owing(owed, c.mem) /\ c.made = {}
  BY <1>1, <1>3, BeginsSound, BeginsAware
<1>5. PICK N : N = Needed
  OBVIOUS
<1>6. Aware(b, N, Known, owed) /\ Aware(b, Needed, Known, owed)
  BY <1>2, <1>4, <1>5, AlikeAware
<1>7. /\ b \in Ctx /\ b.mem.inst = mem.inst /\ b.mem.up /\ b.mem.seq = mem.seq /\ b.mem.q = c.mem.q
      /\ b.disk.queue = c.disk.queue /\ b.out = c.out /\ b.made = {}
  BY <1>2, <1>3, <1>4 DEF Alike
<1>8. SoundCtx(b, wire, Judged, epoch)
  <2>1. Quiet(c, b)
    BY <1>3, <1>7 DEF Quiet
  <2> QED BY <1>4, <2>1, QuietSound
<1>9. Owing(owed, b.mem)
  BY <1>3, <1>4, <1>7 DEF Owing, BoundBy
<1>10. launch[l] \in Waiting /\ Needed = NeededBut(l) \cup {Request(l, mem.inst)}
  BY <1>1, NeededIs DEF Waiting, EntryOf
<1>11. EntryOf(l, at, mem.inst) = (IF at = "passed" THEN {Request(l, mem.inst)} ELSE {})
  BY <1>2 DEF EntryOf
<1>12. NeededBut(l) \cup EntryOf(l, at, mem.inst) \subseteq N
  BY <1>5, <1>10, <1>11
<1>13. d = b \/ (Aware(b, Needed, Known, owed) /\ EntryOf(l, at, mem.inst) = {}
                 /\ Enqueued(b, d, FALSE, {Request(l, mem.inst)}))
  BY <1>2, <1>6, <1>11
<1> QED BY <1>1, <1>2, <1>6, <1>7, <1>8, <1>9, <1>10, <1>12, <1>13, PartRecall

\* Numbers and seq of what is answered.
LEMMA AnsweredSeq ==
    ASSUME NEW c, NEW a, NEW l, NEW human, NEW e, Answered(c, a, l, human, e)
    PROVE  a.c.mem.seq = c.mem.seq
<1>1. CASE a.c = c
  BY <1>1
<1>2. ASSUME NEW o, Opened(c, o, c.mem.open \cup {Request(l, c.mem.inst)}), a.c = o \/ Recovered(o, a, l, e)
      PROVE  a.c.mem.seq = c.mem.seq
  <2>1. o.mem.seq = c.mem.seq
    BY <1>2 DEF Opened, Steady
  <2>2. ASSUME Recovered(o, a, l, e) PROVE a.c.mem.seq = o.mem.seq
    <3>1. PICK r, t : /\ Resolved(o, r) /\ TakenOver(r, t, e)
                      /\ Granted(t, a.c, l) \/ Closed(t, a.c, {Request(l, o.mem.inst)})
      BY <2>2 DEF Recovered
    <3>2. r.mem.seq = o.mem.seq
      BY <3>1 DEF Resolved
    <3>3. t.mem.seq = r.mem.seq
      BY <3>1 DEF TakenOver, Committed, Steady
    <3> QED BY <3>1, <3>2, <3>3 DEF Granted, Closed, Steady
  <2> QED BY <1>2, <2>1, <2>2
<1> QED BY <1>1, <1>2 DEF Answered

LEMMA PumpedSeq ==
    ASSUME NEW c, NEW d, Pumped(c, d)
    PROVE  d.mem.seq = c.mem.seq
  BY DEF Pumped, Sends, Committed, Steady

\* A handler of no launch in particular.
LEMMA LinkRecall ==
    ASSUME Delivery, Recall, mem.up, NEW c, NEW d, Handled(c, d, 0, "none"), covered' = covered,
           Aware(d, Needed, Known, owed), d.mem.inst = mem.inst, d.mem.up, d.mem.seq = mem.seq
    PROVE  Recall'
<1>1. PICK l, at, F, N : l = 0 /\ at = "none" /\ F = owed /\ N = Needed
  OBVIOUS
<1>2. l \notin Live
  BY <1>1, OutboxAssumption DEF Live, Launches
<1>3. F = owed \cup (IF l \in Live THEN d.made ELSE {})
  BY <1>1, <1>2
<1>4. NeededBut(l) \cup EntryOf(l, at, mem.inst) \subseteq N
  BY <1>1 DEF Needed, EntryOf
<1>5. Owing(F, d.mem)
  BY <1>1 DEF Recall, Owing, BoundBy
<1> QED BY <1>1, <1>3, <1>4, <1>5, AwareRecall

LEMMA SendRecall ==
    ASSUME Delivery, Recall, mem.up, SendSteps
    PROVE  Recall'
<1>1. PICK c, b, d : Handled(c, d, 0, "none") /\ Alike(c, b) /\ Pumped(b, d) /\ covered' = covered
  BY DEF SendSteps
<1>2. Begins(c) /\ c.mem = mem
  BY <1>1 DEF Handled, Begins
<1>3. Aware(c, Needed, Known, owed)
  BY <1>2, BeginsAware
<1>4. PICK N : N = Needed
  OBVIOUS
<1>5. Aware(b, N, Known, owed)
  BY <1>1, <1>3, <1>4, AlikeAware
<1>6. Aware(d, N, Known, owed)
  BY <1>1, <1>5, PumpedAware
<1>7. d.mem.inst = mem.inst /\ d.mem.up /\ d.mem.seq = mem.seq
  BY <1>1, <1>2, PumpedKeeps, PumpedSeq DEF Alike
<1> QED BY <1>1, <1>4, <1>6, <1>7, LinkRecall

LEMMA AckRecall ==
    ASSUME Delivery, Recall, NEW id \in acks, ReceiveAck(id)
    PROVE  Recall'
<1>1. AckSteps(id) /\ mem.up
  BY ReceiveAckIs
<1>2. PICK r : r = Acked(mem.q, id)
  OBVIOUS
<1>3. PICK c, x, d :
        /\ Handled(c, d, 0, "none") /\ Committed(c, x, r, "queue")
        /\ \E e \in Held(mem.q) : Id(e) = id /\ Acknowledges(mem.q, r, e)
        /\ (x.ok /\ Pumped(x, d)) \/ (~x.ok /\ d = x)
        /\ covered' = covered
  BY <1>1, <1>2 DEF AckSteps
<1>4. PICK e \in Held(mem.q) : Id(e) = id /\ Acknowledges(mem.q, r, e)
  BY <1>3
<1>5. (e.t = "normal" => Origin(e) \in Judged) /\ (e.t # "normal" => e.frames \subseteq told)
  BY <1>4, Learned
<1>6. Begins(c) /\ c.mem = mem
  BY <1>3 DEF Handled, Begins
<1>7. Aware(c, Needed, Known, owed)
  BY <1>1, <1>6, BeginsAware
<1>8. PICK N, K : N = Needed /\ K = Known
  OBVIOUS
<1>9. (e.t = "normal" => Origin(e) \in K) /\ (e.t # "normal" => e.frames \subseteq K)
  BY <1>5, <1>8 DEF Known
<1>10. Aware(d, N, K, owed)
  <2>1. Aware(c, N, K, owed) /\ Acknowledges(c.mem.q, r, e)
    BY <1>4, <1>6, <1>7, <1>8
  <2> QED BY <1>3, <1>9, <2>1, AckedAware
<1>11. d.mem.inst = mem.inst /\ d.mem.up /\ d.mem.seq = mem.seq
  <2>1. x.mem.inst = mem.inst /\ x.mem.up /\ x.mem.seq = mem.seq
    BY <1>1, <1>3, <1>6 DEF Committed, Steady
  <2> QED BY <1>3, <2>1, PumpedKeeps, PumpedSeq
<1> QED BY <1>1, <1>3, <1>8, <1>10, <1>11, LinkRecall

LEMMA BootRecall ==
    ASSUME Delivery, Recall, Boot
    PROVE  Recall'
<1>1. BootSteps /\ ~mem.up /\ Live = {}
  BY BootIs DEF Recall
<1>2. PICK l, at, F : l = 0 /\ at = "none" /\ F = owed
  OBVIOUS
<1>3. PICK c, d : Handled(c, d, l, at) /\ Loaded(c, d) /\ covered' = covered
  BY <1>1, <1>2 DEF BootSteps
<1>4. Begins(c) /\ c \in Ctx /\ c.mem = mem /\ c.disk = disk /\ c.minted = minted
  BY <1>3 DEF Handled, Begins
<1>5. Tracked(c.mem, c.disk, c.minted, Needed) /\ Kept(c.disk, Known, owed)
  BY <1>4 DEF Recall
<1>6. Aware(d, {}, Known, owed)
  BY <1>3, <1>4, <1>5, LoadedAware
<1>7. d.mem.inst = mem.inst + 1 /\ d.mem.up /\ mem.inst \in Nat
  BY <1>3, <1>4, LoadedKeeps, CtxNumbers
<1>8. PICK M, K : M = NeededBut(l) \cup EntryOf(l, at, d.mem.inst) /\ K = Judged \cup told \cup covered'
  OBVIOUS
<1>9. M = {} /\ K = Known
  BY <1>1, <1>2, <1>3, <1>8, NothingNeeded DEF EntryOf, Known
<1>10. F = owed \cup (IF l \in Live THEN d.made ELSE {})
  BY <1>1, <1>2
<1>11. Owing(F, d.mem)
  <2>1. ASSUME NEW x \in owed PROVE (x \in Frames \/ x[1] = 0) /\ BoundBy(x, d.mem)
    <3>1. (x \in Frames \/ x[1] = 0) /\ x[1] <= mem.inst
      BY <2>1 DEF Recall, Owing, BoundBy
    <3>2. x[1] \in Nat
      BY <3>1 DEF Frames, Positive
    <3> QED BY <1>7, <3>1, <3>2 DEF BoundBy
  <2> QED BY <1>2, <2>1 DEF Owing
<1>12. Left(d, M, K, F) /\ Minded(d.mem, d.disk, K, F)
  BY <1>2, <1>6, <1>9 DEF Aware, Left
<1>13. covered' \subseteq F
  BY <1>2, <1>3 DEF Recall
<1> QED BY <1>1, <1>2, <1>3, <1>7, <1>8, <1>10, <1>11, <1>12, <1>13, HandledRecall

LEMMA StartRecall ==
    ASSUME Delivery, Recall, ~TornRecovery, NEW l \in Launches, NEW human \in BOOLEAN, Start(l, human)
    PROVE  Recall'
<1>1. StartSteps(l, human) /\ mem.up /\ launch[l] = "none"
  BY StartIs
<1>2. PICK c, x, a, d, at :
        /\ Handled(c, d, l, at) /\ Adopts(c, x, epoch') /\ Answered(x, a, l, human, epoch')
        /\ \/ a.answer = "needs_manual" /\ Enqueued(a.c, d, FALSE, {}) /\ at = "over" /\ covered' = covered
           \/ a.answer = "admitted" /\ d = a.c /\ d.alive /\ at = "pending" /\ covered' = IF human THEN owed ELSE covered
           \/ /\ a.answer # "needs_manual" /\ Later(a.c, d) /\ at = "over" /\ covered' = covered
              /\ a.answer = "admitted" => d = a.c /\ ~d.alive
        /\ epoch' = IF human THEN epoch + 1 ELSE epoch
  BY <1>1 DEF StartSteps
<1>3. Begins(c) /\ c.mem = mem /\ c.mem.up /\ c.disk = disk /\ c \in Ctx /\ wire \cup c.out = wire
  BY <1>1, <1>2 DEF Handled, Begins
<1>4. SoundCtx(c, wire, Judged, epoch) /\ Aware(c, Needed, Known, owed) /\ Owing(owed, c.mem) /\ c.made = {}
  BY <1>1, <1>3, BeginsSound, BeginsAware
<1>5. PICK e : e = epoch'
  OBVIOUS
<1>6. e \in Nat /\ epoch \in Nat /\ epoch <= e /\ (human => e = epoch + 1) /\ e <= e
  BY <1>2, <1>5 DEF Delivery, Types
<1>7. SoundCtx(c, wire, Judged, e)
  <2>1. PICK m, stored, O : m = c.mem /\ stored = c.disk.queue /\ O = wire \cup c.out
    OBVIOUS
  <2>2. Sound(m, stored, O, Judged, epoch)
    BY <1>4, <2>1 DEF SoundCtx
  <2>3. Sound(m, stored, O, Judged, e)
    BY <1>6, <2>2, SoundLater
  <2> QED BY <1>3, <2>1, <2>3 DEF SoundCtx
<1>8. human => c.mem.q.human < e
  <2>1. c.mem.q.human \in Nat /\ c.mem.q.epoch \in Nat
    BY <1>3, CtxNumbers, HeldShape
  <2>2. c.mem.q.human <= c.mem.q.epoch /\ c.mem.q.epoch <= epoch
    BY <1>4 DEF SoundCtx, Sound, Good, Fits
  <2> QED BY <1>6, <2>1, <2>2
<1>9. PICK N, K, D : N = Needed /\ K = Known /\ D = owed
  OBVIOUS
<1>10. Adopts(c, x, e) /\ Answered(x, a, l, human, e) /\ Aware(c, N, K, D)
  BY <1>2, <1>4, <1>5, <1>9
<1>11. /\ Aware(x, N, K, D) /\ SoundCtx(x, wire, Judged, e) /\ x.mem.q.human = c.mem.q.human
       /\ x.mem.up /\ x.mem.inst = mem.inst /\ x.mem.seq = mem.seq /\ x.made = {}
  BY <1>3, <1>4, <1>6, <1>7, <1>10, AdoptsAware
<1>12. a.c.mem.inst = mem.inst /\ a.c.mem.up /\ a.c.mem.seq = mem.seq
  BY <1>10, <1>11, AnsweredKeeps, AnsweredSeq
<1>13. N = NeededBut(l)
  <2>1. EntryOf(l, launch[l], mem.inst) = {}
    BY <1>1 DEF EntryOf
  <2> QED BY <1>9, <2>1, NeededIs
<1>14. PICK r : r = Request(l, x.mem.inst)
  OBVIOUS
<1>15. r \notin N /\ l \notin Live
  BY <1>1, <1>13, <1>14, EntriesApart DEF Live, Waiting
<1>16. a.answer = "admitted" => SoundCtx(a.c, wire, Judged, e)
  BY <1>2, <1>5 DEF Handled
<1>17. human => x.mem.q.human < e
  BY <1>8, <1>11
<1>18. /\ a.answer = "needs_manual" => ~human /\ a.c = x
       /\ a.answer = "admitted" =>
              /\ a.c.alive
              /\ ~human => Aware(a.c, N \cup {r}, K, D)
              /\ human => \A J : D \subseteq J => Aware(a.c, N \cup {r}, J, D)
       /\ a.answer \notin {"admitted", "needs_manual"} => Left(a.c, N, K, D) /\ (a.c.alive => Aware(a.c, N, K, D))
  <2>1. PICK W, A : W = wire /\ A = Judged
    OBVIOUS
  <2>2. Asked(x, l, r, N, K, D, e, human, a, W, A, e)
    BY <1>6, <1>10, <1>11, <1>14, <1>15, <1>16, <1>17, <2>1 DEF Asked
  <2>3. Told(x, r, N, K, D, human, a)
    BY <2>2, AskedTold
  <2> QED BY <2>3 DEF Told
<1>19. Owing(owed, x.mem) /\ Owing(owed, a.c.mem)
  BY <1>3, <1>4, <1>11, <1>12 DEF Owing, BoundBy
<1>20. CASE a.answer = "needs_manual" /\ Enqueued(a.c, d, FALSE, {}) /\ at = "over" /\ covered' = covered
  <2>1. PICK turn \in BOOLEAN : turn = FALSE
    OBVIOUS
  <2>2. PICK gone : gone = {}
    OBVIOUS
  <2>3. Enqueued(x, d, turn, gone) /\ N \cap gone = {}
    BY <1>18, <1>20, <2>1, <2>2
  <2>4. \A y \in D : (y \in Frames \/ y[1] = 0) /\ BoundBy(y, x.mem)
    BY <1>9, <1>19 DEF Owing
  <2>5. Aware(d, N, K, D) /\ \A y \in D : (y \in Frames \/ y[1] = 0) /\ BoundBy(y, d.mem)
    BY <1>11, <2>3, <2>4, EnqueuedAware
  <2>6. d.mem.inst = mem.inst /\ d.mem.up
    BY <1>11, <2>3, EnqueuedKeeps
  <2>7. D = owed \cup (IF l \in Live THEN d.made ELSE {})
    BY <1>9, <1>15
  <2>8. NeededBut(l) \cup EntryOf(l, at, mem.inst) \subseteq N
    BY <1>13, <1>20 DEF EntryOf
  <2>9. Aware(d, N, Known, D) /\ Owing(D, d.mem)
    BY <1>9, <2>5 DEF Owing
  <2> QED BY <1>2, <1>20, <2>6, <2>7, <2>8, <2>9, AwareRecall
<1>21. CASE a.answer = "admitted" /\ d = a.c /\ d.alive /\ at = "pending" /\ covered' = IF human THEN owed ELSE covered
  <2>1. PICK M, F, J : /\ M = NeededBut(l) \cup EntryOf(l, at, d.mem.inst)
                       /\ F = owed \cup (IF l \in Live THEN d.made ELSE {})
                       /\ J = Judged \cup told \cup covered'
    OBVIOUS
  <2>2. M = N \cup {r} /\ F = D
    BY <1>9, <1>11, <1>12, <1>13, <1>14, <1>15, <1>21, <2>1 DEF EntryOf
  <2>3. Aware(d, M, J, F)
    <3>1. CASE human
      <4>1. D \subseteq J
        BY <1>9, <1>21, <2>1, <3>1
      <4> QED BY <1>18, <1>21, <2>2, <3>1, <4>1
    <3>2. CASE ~human
      <4>1. J = K
        BY <1>9, <1>21, <2>1, <3>2 DEF Known
      <4> QED BY <1>18, <1>21, <2>2, <3>2, <4>1
    <3> QED BY <3>1, <3>2
  <2>4. Left(d, M, J, F) /\ Minded(d.mem, d.disk, J, F)
    BY <2>3 DEF Aware, Left
  <2>5. covered' \subseteq F
    BY <1>9, <1>21, <2>2 DEF Recall
  <2>6. Owing(F, d.mem) /\ d.mem.up /\ d.mem.inst = mem.inst
    BY <1>9, <1>12, <1>19, <1>21, <2>2
  <2> QED BY <1>2, <2>1, <2>4, <2>5, <2>6, HandledRecall
<1>22. CASE /\ a.answer # "needs_manual" /\ Later(a.c, d) /\ at = "over" /\ covered' = covered
            /\ a.answer = "admitted" => d = a.c /\ ~d.alive
  <2>1. PICK M, F, J : /\ M = NeededBut(l) \cup EntryOf(l, at, d.mem.inst)
                       /\ F = owed \cup (IF l \in Live THEN d.made ELSE {})
                       /\ J = Judged \cup told \cup covered'
    OBVIOUS
  <2>2. M = N /\ F = D /\ J = K
    BY <1>9, <1>13, <1>15, <1>22, <2>1 DEF EntryOf, Known
  <2>3. Left(d, M, J, F) /\ (d.alive => Minded(d.mem, d.disk, J, F))
    <3>1. d \in Ctx /\ d.disk = a.c.disk /\ d.minted = a.c.minted /\ d.alive = a.c.alive
      BY <1>22 DEF Later
    <3>2. Left(a.c, N, K, D) /\ (a.c.alive => Minded(a.c.mem, a.c.disk, K, D))
      BY <1>18, <1>22, <3>1 DEF Aware
    <3>3. Tracked(d.mem, d.disk, d.minted, N) /\ (a.c.alive => Minded(d.mem, d.disk, K, D))
      BY <1>22, <3>2, LaterAware DEF Left
    <3> QED BY <2>2, <3>1, <3>2, <3>3 DEF Left
  <2>4. covered' \subseteq F
    BY <1>9, <1>22, <2>2 DEF Recall
  <2>5. Owing(F, d.mem) /\ d.mem.up /\ d.mem.inst = mem.inst
    <3>1. Owing(owed, d.mem)
      BY <1>19, <1>22, LaterOwing
    <3> QED BY <1>9, <1>12, <1>22, <2>2, <3>1 DEF Later
  <2> QED BY <1>2, <2>1, <2>3, <2>4, <2>5, HandledRecall
<1> QED BY <1>2, <1>20, <1>21, <1>22

\* The server learns more.
LEMMA LearnsRecall ==
    ASSUME Recall, UNCHANGED <<mem, disk, minted, launch, direct, owed, covered>>,
           applied \subseteq applied', told \subseteq told'
    PROVE  Recall'
<1>1. PICK K, J : K = Known /\ J = Known'
  OBVIOUS
<1>2. K \subseteq J
  BY <1>1, JudgedGrows DEF Known
<1>3. Kept(disk, J, owed)
  BY <1>1, <1>2, KeptMore DEF Recall
<1>4. mem.up => Minded(mem, disk, J, owed)
  BY <1>1, <1>2, MindedMore DEF Recall
<1>5. Needed' = Needed /\ Live' = Live
  BY DEF Needed, NeededBut, Live
<1> QED BY <1>1, <1>3, <1>4, <1>5 DEF Recall

LEMMA ReceiveRecall ==
    ASSUME Delivery, Recall, NEW e \in wire, Receive(e)
    PROVE  Recall'
<1>1. /\ UNCHANGED <<mem, disk, minted, launch, direct, owed, covered>>
      /\ applied \subseteq applied' /\ told \subseteq told'
  BY DEF Receive
<1> QED BY <1>1, LearnsRecall

LEMMA ReceiveDirectRecall ==
    ASSUME Delivery, Recall, NEW d \in direct, ReceiveDirect(d)
    PROVE  Recall'
<1>1. /\ UNCHANGED <<mem, disk, minted, launch, direct, owed, covered>>
      /\ applied \subseteq applied' /\ told \subseteq told'
  BY DEF ReceiveDirect
<1> QED BY <1>1, LearnsRecall

\* What a daemon would find that started now.
LEMMA DownNow ==
    ASSUME Delivery, Recall, NEW c, Begins(c), NEW m, m = [FreshMemory(mem.inst) EXCEPT !.up = FALSE],
           NEW G, G = owed \cup Orphans(Live)
    PROVE  /\ Tracked(m, disk, minted, {}) /\ Kept(disk, Known, G) /\ Owing(G, m) /\ ~m.up
           /\ Tracked(c.mem, c.disk, c.minted, Needed) /\ Kept(c.disk, Known, G)
<1>1. c \in Ctx /\ c.mem = mem /\ c.disk = disk /\ c.minted = minted
  BY DEF Begins
<1>2. PICK M, K, F, L : M = Needed /\ K = Known /\ F = owed /\ L = Live
  OBVIOUS
<1>3. Left(c, M, K, F) /\ Owing(F, c.mem)
  BY <1>1, <1>2 DEF Recall, Left
<1>4. L # {} => M # {}
  <2>1. ASSUME NEW k \in Live PROVE NeededBut(0) # {}
    <3>1. k \in Live \ {0}
      BY <2>1, OutboxAssumption DEF Live, Launches
    <3> QED BY <3>1, LiveNeeds
  <2> QED BY <1>2, <2>1 DEF Needed
<1>5. m = [FreshMemory(c.mem.inst) EXCEPT !.up = FALSE] /\ G = F \cup Orphans(L)
  BY <1>1, <1>2
<1>6. Tracked(m, c.disk, c.minted, {}) /\ Kept(c.disk, K, G) /\ Owing(G, m) /\ ~m.up
  BY <1>3, <1>4, <1>5, DownRecall
<1> QED BY <1>1, <1>2, <1>3, <1>6 DEF Left

LEMMA NoFaultPossible == NoFault \in PossibleFaults
  BY DEF PossibleFaults, Faults

LEMMA CrashRecall ==
    ASSUME Delivery, Recall, Crash
    PROVE  Recall'
<1>1. PICK f \in PossibleFaults : TRUE
  BY NoFaultPossible
<1>2. PICK c : c = Context(f)
  OBVIOUS
<1>3. Begins(c)
  BY <1>2, ContextIs
<1>4. PICK m, G : m = [FreshMemory(mem.inst) EXCEPT !.up = FALSE] /\ G = owed \cup Orphans(Live)
  OBVIOUS
<1>5. Tracked(m, disk, minted, {}) /\ Kept(disk, Known, G) /\ Owing(G, m) /\ ~m.up
  BY <1>3, <1>4, DownNow
<1>6. /\ mem' = m /\ launch' = Killed /\ owed' = G /\ covered' = covered
      /\ disk' = disk /\ minted' = minted /\ Known' = Known
  BY <1>4, JudgedKept DEF Crash, serverVars, Known
<1>7. Live' = {}
  BY <1>6 DEF Live, Killed, Waiting
<1>8. Needed' = {}
  <2>1. ASSUME NEW k \in Launches PROVE EntryOf(k, launch'[k], mem'.inst) = {}
    BY <1>7, <2>1 DEF Live, EntryOf, Waiting
  <2> QED BY <2>1 DEF Needed, NeededBut
<1>9. Tracked(mem', disk', minted', Needed') /\ Kept(disk', Known', owed') /\ Owing(owed', mem') /\ ~mem'.up
  BY <1>5, <1>6, <1>8
<1>10. covered' \subseteq owed'
  BY <1>4, <1>6 DEF Recall
<1> QED BY <1>7, <1>9, <1>10 DEF Recall

LEMMA DisconnectRecall ==
    ASSUME Delivery, Recall, Disconnect
    PROVE  Recall'
<1>1. PICK m : m = [mem EXCEPT !.link = FALSE]
  OBVIOUS
<1>2. mem \in Memory
  BY DEF Delivery, Types
<1>3. /\ m.up = mem.up /\ m.inst = mem.inst /\ m.seq = mem.seq /\ m.q = mem.q /\ m.bad = mem.bad
      /\ m.open = mem.open /\ m.grant = mem.grant
  BY <1>1, <1>2 DEF Memory
<1>4. /\ mem' = m /\ UNCHANGED <<disk, minted, launch, owed, covered>> /\ Known' = Known
  BY <1>1, JudgedKept DEF Disconnect, serverVars, Known
<1>5. Needed' = Needed /\ Live' = Live
  BY <1>3, <1>4 DEF Needed, NeededBut, Live
<1>6. Tracked(m, disk, minted, Needed)
  BY <1>3 DEF Recall, Tracked
<1>7. mem.up => Minded(m, disk, Known, owed)
  BY <1>3 DEF Recall, Minded, GrantPassed, BoundBy
<1>8. Owing(owed, m)
  BY <1>3 DEF Recall, Owing, BoundBy
<1> QED BY <1>3, <1>4, <1>5, <1>6, <1>7, <1>8 DEF Recall

LEMMA DamageRecall ==
    ASSUME Delivery, Recall, Damage
    PROVE  Recall'
<1>1. PICK f : f = [disk EXCEPT !.damaged = TRUE]
  OBVIOUS
<1>2. disk \in Files /\ ~mem.up
  BY DEF Delivery, Types, Damage
<1>3. /\ f.damaged /\ f.queue = disk.queue /\ f.marker = disk.marker /\ f.open = disk.open
      /\ f.resolution = disk.resolution /\ f.aside = disk.aside
  BY <1>1, <1>2 DEF Files
<1>4. /\ disk' = f /\ UNCHANGED <<mem, minted, launch, owed, covered>> /\ Known' = Known
  BY <1>1, JudgedKept DEF Damage, serverVars, Known
<1>5. Needed' = Needed /\ Live' = Live
  BY <1>4 DEF Needed, NeededBut, Live
<1>6. Tracked(mem, f, minted, Needed)
  BY <1>2, <1>3 DEF Recall, Tracked
<1>7. Kept(f, Known, owed)
  BY <1>3 DEF Recall, Kept, Doubt
<1> QED BY <1>2, <1>4, <1>5, <1>6, <1>7 DEF Recall

LEMMA RecallInit ==
    ASSUME Init
    PROVE  Recall
<1>1. Delivery
  BY DeliveryInit
<1>2. mem = FreshMemory(1) /\ disk = EmptyDisk /\ minted = 0 /\ owed = {} /\ covered = {}
      /\ launch = [l \in Launches |-> "none"]
  BY DEF Init
<1>3. PICK q, g : q = EmptyQueue /\ g = NoGrant
  OBVIOUS
<1>4. Markers(q) = {} /\ Normals(q) = {} /\ g.known = {}
  BY <1>3, EmptyIsOK DEF NoGrant
<1>5. /\ mem.up /\ mem.inst = 1 /\ mem.q = q /\ mem.bad = -1 /\ mem.open = {} /\ mem.grant = g
  BY <1>2, <1>3 DEF FreshMemory, Reliable
<1>6. /\ disk.queue = q /\ ~disk.damaged /\ disk.marker = 0 /\ disk.open = {} /\ disk.aside = {}
      /\ disk.resolution.marker = 0 /\ disk.resolution.open = {} /\ disk.resolution.aside = {}
  BY <1>2, <1>3 DEF EmptyDisk, NoResolution
<1>7. Needed = {}
  <2>1. Live = {}
    BY <1>2 DEF Live, Waiting
  <2> QED BY <2>1, NothingNeeded DEF Needed
<1>8. Tracked(mem, disk, minted, Needed)
  BY <1>2, <1>5, <1>6, <1>7 DEF Tracked
<1>9. Kept(disk, Known, owed) /\ Minded(mem, disk, Known, owed)
  BY <1>2, <1>4, <1>5, <1>6 DEF Kept, Minded, Passed, GrantPassed
<1>10. covered \subseteq owed /\ Owing(owed, mem)
  BY <1>2 DEF Owing
<1> QED BY <1>5, <1>8, <1>9, <1>10 DEF Recall

LEMMA RecallStutter ==
    ASSUME Recall, UNCHANGED vars
    PROVE  Recall'
<1>1. Known' = Known
  BY JudgedKept DEF vars, serverVars, Known
<1> QED BY <1>1 DEF Recall, vars, Needed, NeededBut, Live

LEMMA RecallNext ==
    ASSUME Delivery, Recall, ~TornRecovery, Next
    PROVE  Recall'
<1>1. ASSUME NEW l \in Launches, NEW human \in BOOLEAN, Start(l, human) PROVE Recall'
  BY <1>1, StartRecall
<1>2. ASSUME NEW l \in Launches, Gate(l) PROVE Recall'
  BY <1>2, GateRecall
<1>3. ASSUME NEW l \in Launches, OpenProcess(l) PROVE Recall'
  BY <1>3, OpenProcessRecall
<1>4. ASSUME NEW l \in Launches, Spawned(l) PROVE Recall'
  BY <1>4, SpawnedRecall
<1>5. ASSUME NEW l \in Launches, SpawnFails(l) PROVE Recall'
  BY <1>5, SpawnFailsRecall
<1>6. ASSUME NEW l \in Launches, Exited(l) PROVE Recall'
  BY <1>6, ExitedRecall
<1>7. ASSUME NEW l \in Launches, NEW turn \in BOOLEAN, Outcome(l, turn) PROVE Recall'
  BY <1>7, OutcomeRecall
<1>8. CASE Connect
  BY <1>8, ConnectIs, SendRecall
<1>9. CASE Retransmit
  BY <1>9, RetransmitIs, SendRecall
<1>10. ASSUME NEW id \in acks, ReceiveAck(id) PROVE Recall'
  BY <1>10, AckRecall
<1>11. CASE Boot
  BY <1>11, BootRecall
<1>12. CASE Disconnect \/ Crash \/ Damage
  BY <1>12, DisconnectRecall, CrashRecall, DamageRecall
<1>13. ASSUME NEW e \in wire, Receive(e) PROVE Recall'
  BY <1>13, ReceiveRecall
<1>14. ASSUME NEW d \in direct, ReceiveDirect(d) PROVE Recall'
  BY <1>14, ReceiveDirectRecall
<1> QED BY <1>1, <1>2, <1>3, <1>4, <1>5, <1>6, <1>7, <1>8, <1>9, <1>10, <1>11, <1>12, <1>13, <1>14 DEF Next

\* The invariant of what is remembered, if the two writes of a human recovery
\* are not torn.  Evidence the server took for a duplicate counts as known: it
\* was applied, or lies below a direct refusal that was.
THEOREM OutboxRecalls ==
    ASSUME ~TornRecovery
    PROVE  Spec => [](Delivery /\ Recall)
<1>1. Init => Delivery /\ Recall
  BY DeliveryInit, RecallInit
<1>2. Delivery /\ Recall /\ [Next]_vars => Delivery' /\ Recall'
  BY DeliveryNext, DeliveryStutter, RecallNext, RecallStutter
<1> QED BY <1>1, <1>2, PTL DEF Spec

\* Evidence that is neither known nor in a queue's frames blocks a start.
LEMMA ClearIsSettled ==
    ASSUME NEW q \in Queue, NEW D, D \subseteq Known \cup Evidence(q),
           \A b \in Markers(q) : b.frames \cap D \subseteq Known
    PROVE  D \subseteq Settled(q)
<1>1. ASSUME NEW x \in D PROVE x \in Settled(q)
  <2>1. CASE x \in Known
    BY <2>1 DEF Known, Judged, Settled
  <2>2. CASE x \in MarkerFrames(q)
    <3>1. PICK b \in Markers(q) : x \in b.frames
      BY <2>2 DEF MarkerFrames
    <3>2. x \in Known
      BY <1>1, <3>1
    <3> QED BY <3>2 DEF Known, Judged, Settled
  <2>3. CASE x \in {Origin(n) : n \in Normals(q)}
    <3>1. PICK n \in Normals(q) : x = Origin(n)
      BY <2>3
    <3>2. Frame(n) = x
      BY <3>1, Kinds DEF Origin, Frame
    <3> QED BY <3>1, <3>2 DEF Settled
  <2> QED BY <1>1, <2>1, <2>2, <2>3 DEF Evidence
<1> QED BY <1>1

LEMMA UnrefusedIsSettled ==
    ASSUME NEW m \in Memory, NEW f, NEW D, Minded(m, f, Known, D), ~RefusesAutomatic(m)
    PROVE  D \subseteq Settled(m.q)
<1>1. m.bad = Reliable /\ Blocking(m.q) = {} /\ m.q \in Queue
  BY DEF RefusesAutomatic, Memory
<1>2. \A b \in Markers(m.q) : b.epoch < m.q.human
  <2>1. ASSUME NEW b \in Markers(m.q) PROVE b.epoch < m.q.human
    <3>1. b.epoch \in Nat /\ m.q.human \in Nat /\ ~(b.epoch >= m.q.human)
      BY <1>1, <2>1, Kinds, HeldShape DEF Blocking, MarkerRecord
    <3> QED BY <3>1
  <2> QED BY <2>1
<1>3. \A b \in Markers(m.q) : b.frames \cap D \subseteq Known
  BY <1>2 DEF Minded, Passed
<1>4. D \subseteq Known \cup Evidence(m.q)
  BY <1>1 DEF Minded
<1> QED BY <1>1, <1>3, <1>4, ClearIsSettled

LEMMA RecalledLoss ==
    ASSUME Delivery, Recall
    PROVE  LossIsRemembered
<1>1. mem.up => RefusesAutomatic(mem) \/ owed \subseteq Settled(mem.q)
  BY UnrefusedIsSettled DEF Recall, Delivery, Types
<1>2. PICK f \in PossibleFaults : f = NoFault
  BY NoFaultPossible
<1>3. PICK c, W, A, E : c = Context(f) /\ W = wire /\ A = Judged /\ E = epoch
  OBVIOUS
<1>4. Begins(c) /\ SoundCtx(c, W, A, E) /\ E \in Nat /\ c \in Ctx
  BY <1>3, ContextIs DEF Begins, Delivery, Types
<1>5. PICK d : d = Load(c)
  OBVIOUS
<1>6. SoundCtx(d, W, A, E) /\ Loaded(c, d)
  BY <1>4, <1>5, LoadIs
<1>7. PICK m, G, K, N : /\ m = [FreshMemory(mem.inst) EXCEPT !.up = FALSE] /\ G = owed \cup Orphans(Live)
                        /\ K = Known /\ N = Needed
  OBVIOUS
<1>8. Tracked(c.mem, c.disk, c.minted, N) /\ Kept(c.disk, K, G)
  BY <1>4, <1>7, DownNow
<1>9. Aware(d, {}, K, G)
  BY <1>4, <1>6, <1>8, LoadedAware
<1>10. d.mem \in Memory /\ Minded(d.mem, d.disk, Known, G)
  BY <1>7, <1>9 DEF Aware, Ctx
<1>11. RefusesAutomatic(d.mem) \/ G \subseteq Settled(d.mem.q)
  BY <1>10, UnrefusedIsSettled
<1> QED BY <1>1, <1>2, <1>3, <1>5, <1>7, <1>11 DEF LossIsRemembered

\* Evidence that is lost keeps refusing automatic starts, in the running daemon
\* and in one that starts from its files (markUnreliable, load), unless a
\* recovery write is torn, or a direct refusal overtook what is lost.
THEOREM LossStaysRemembered ==
    ASSUME ~TornRecovery
    PROVE  Spec => []LossIsRemembered
<1>1. Delivery /\ Recall => LossIsRemembered
  BY RecalledLoss
<1>2. Spec => [](Delivery /\ Recall)
  BY OutboxRecalls
<1> QED BY <1>1, <1>2, PTL

\* A start that is not refused: what is owed is known, or will be delivered.
LEMMA CoveredIsSettled ==
    ASSUME NEW m \in Memory, NEW f, NEW D, NEW l, Minded(m, f, Known, D), ~Refused(m, l)
    PROVE  D \subseteq Settled(m.q)
<1>1. CASE m.grant.launch # l
  <2>1. ~RefusesAutomatic(m)
    BY <1>1 DEF Refused
  <2> QED BY <2>1, UnrefusedIsSettled
<1>2. CASE m.grant.launch = l
  <2>1. m.bad = Reliable /\ m.q \in Queue /\ \A b \in Blocking(m.q) : WireForm(b) \in m.grant.known
    BY <1>2 DEF Refused, GrantCovers, Memory
  <2>2. D \subseteq Known \cup Evidence(m.q)
    BY <2>1 DEF Minded
  <2>3. ASSUME NEW b \in Markers(m.q) PROVE b.frames \cap D \subseteq Known
    <3>1. b \in Entry /\ b.t # "normal" /\ b.epoch \in Nat /\ m.q.human \in Nat
      BY <2>1, <2>3, Kinds, HeldShape DEF MarkerRecord
    <3>2. CASE b.epoch < m.q.human
      BY <2>3, <3>2 DEF Minded, Passed
    <3>3. CASE ~(b.epoch < m.q.human)
      <4>1. b \in Blocking(m.q)
        BY <2>3, <3>1, <3>3 DEF Blocking
      <4>2. PICK g \in m.grant.known : g = WireForm(b)
        BY <2>1, <4>1
      <4>3. g.frames = b.frames
        BY <3>1, <4>2, WireFormIs
      <4>4. \A x \in g.frames : x \in D => x \in Known
        BY <4>2 DEF Minded, GrantPassed
      <4> QED BY <4>3, <4>4
    <3> QED BY <3>2, <3>3
  <2> QED BY <2>1, <2>2, <2>3, ClearIsSettled
<1> QED BY <1>1, <1>2

\* Start l passes the gate in a step.
GoesOn(l) == launch[l] = "pending" /\ launch'[l] \in {"passed", "rebound"}

\* A handler moves no start on but its own.
LEMMA OwnStart ==
    ASSUME NEW l \in Launches, GoesOn(l), NEW c, NEW d, NEW k, NEW at, Handled(c, d, k, at)
    PROVE  k = l /\ at # "over"
<1>1. PICK others : EndsWith(d, k, at, others)
  BY DEF Handled
<1>2. launch' = Killed \/ launch' = [j \in Launches |-> IF j = k THEN at
                                                        ELSE IF j \in others THEN "over" ELSE launch[j]]
  BY <1>1 DEF EndsWith
<1>3. launch' # Killed
  BY DEF GoesOn, Killed, Live, Waiting
<1> QED BY <1>2, <1>3 DEF GoesOn

LEMMA GateIsSettled ==
    ASSUME Delivery, Recall, NEW l \in Launches, GoesOn(l), NEW k \in Launches, Gate(k)
    PROVE  owed \subseteq Settled(mem.q)
<1>1. GateSteps(k) /\ mem.up
  BY GateIs
<1>2. PICK c, d, at : Handled(c, d, k, at) /\ (at # "over" => ~Refused(mem, k))
  BY <1>1 DEF GateSteps
<1>3. ~Refused(mem, k)
  BY <1>2, OwnStart
<1>4. mem \in Memory /\ Minded(mem, disk, Known, owed)
  BY <1>1 DEF Recall, Delivery, Types
<1> QED BY <1>3, <1>4, CoveredIsSettled

\* No other step lets a start pass.
LEMMA OnlyTheGate ==
    ASSUME Delivery, NEW l \in Launches, GoesOn(l), Next
    PROVE  \E k \in Launches : Gate(k)
<1>0. 0 \notin Launches
  BY OutboxAssumption DEF Launches
<1>1. ASSUME NEW k \in Launches, NEW human \in BOOLEAN, Start(k, human) PROVE FALSE
  <2>1. StartSteps(k, human) /\ launch[k] = "none"
    BY <1>1, StartIs
  <2>2. PICK c, d, at : Handled(c, d, k, at)
    BY <2>1 DEF StartSteps
  <2> QED BY <2>1, <2>2, OwnStart DEF GoesOn
<1>2. ASSUME NEW k \in Launches, OpenProcess(k) PROVE FALSE
  <2>1. OpenSteps(k) /\ launch[k] = "passed"
    BY <1>2, OpenProcessIs
  <2>2. PICK c, d, at : Handled(c, d, k, at)
    BY <2>1 DEF OpenSteps
  <2> QED BY <2>1, <2>2, OwnStart DEF GoesOn
<1>3. ASSUME NEW k, NEW at, NEW turn, NEW gone, FrameSteps(k, at, turn, gone), launch[k] # "pending" PROVE FALSE
  <2>1. PICK c, d : Handled(c, d, k, at)
    BY <1>3 DEF FrameSteps
  <2> QED BY <1>3, <2>1, OwnStart DEF GoesOn
<1>4. ASSUME NEW k \in Launches, Spawned(k) PROVE FALSE
  <2>1. PICK at, turn, gone : at = "running" /\ turn = FALSE /\ gone = {Request(k, mem.inst)}
    OBVIOUS
  <2>2. FrameSteps(k, at, turn, gone) /\ launch[k] = "starting"
    BY <1>4, <2>1, SpawnedIs
  <2> QED BY <1>3, <2>2
<1>5. ASSUME NEW k \in Launches, SpawnFails(k) PROVE FALSE
  <2>1. FailSteps(k) /\ launch[k] = "starting"
    BY <1>5, SpawnFailsIs
  <2>2. PICK c, d : Handled(c, d, k, "over")
    BY <2>1 DEF FailSteps
  <2> QED BY <2>1, <2>2, OwnStart DEF GoesOn
<1>6. ASSUME NEW k \in Launches, Exited(k) PROVE FALSE
  <2>1. PICK at, turn, gone : at = "over" /\ turn = FALSE /\ gone = {Process(k, mem.inst)}
    OBVIOUS
  <2>2. FrameSteps(k, at, turn, gone) /\ launch[k] = "running"
    BY <1>6, <2>1, ExitedIs
  <2> QED BY <1>3, <2>2
<1>7. ASSUME NEW k \in Launches, NEW turn \in BOOLEAN, Outcome(k, turn) PROVE FALSE
  <2>1. PICK at, gone : at = "running" /\ gone = {}
    OBVIOUS
  <2>2. FrameSteps(k, at, turn, gone) /\ launch[k] = "running"
    BY <1>7, <2>1, OutcomeIs
  <2> QED BY <1>3, <2>2
<1>8. ASSUME NEW c, NEW d, Handled(c, d, 0, "none") PROVE FALSE
  BY <1>0, <1>8, OwnStart
<1>9. ~Connect /\ ~Retransmit
  BY <1>8, ConnectIs, RetransmitIs DEF SendSteps
<1>10. ASSUME NEW id \in acks, ReceiveAck(id) PROVE FALSE
  BY <1>8, <1>10, ReceiveAckIs DEF AckSteps
<1>11. ~Boot
  BY <1>8, BootIs DEF BootSteps
<1>12. ~Crash
  BY DEF Crash, GoesOn, Killed, Live, Waiting
<1>13. ~Disconnect /\ ~Damage
  BY DEF Disconnect, Damage, GoesOn
<1>14. ASSUME NEW e \in wire, Receive(e) PROVE FALSE
  BY <1>14 DEF Receive, GoesOn
<1>15. ASSUME NEW d \in direct, ReceiveDirect(d) PROVE FALSE
  BY <1>15 DEF ReceiveDirect, GoesOn
<1> QED BY <1>1, <1>2, <1>4, <1>5, <1>6, <1>7, <1>9, <1>10, <1>11, <1>12, <1>13, <1>14, <1>15 DEF Next

\* No start passes the spawn gate (startDecision), with a recovery grant or
\* without, while evidence is missing that no person knew of when a start was
\* last admitted and that no direct refusal overtook, unless a recovery write
\* is torn.
THEOREM NoStartIsBlind ==
    ASSUME ~TornRecovery
    PROVE  Spec => NoBlindStart
<1>1. Spec => [](Delivery /\ Recall)
  BY OutboxRecalls
<1>2. ASSUME Delivery, Recall, [Next]_vars, NEW l \in Launches, GoesOn(l) PROVE owed \subseteq Settled(mem.q)
  <2>1. CASE Next
    BY <1>2, <2>1, OnlyTheGate, GateIsSettled
  <2>2. CASE UNCHANGED vars
    BY <1>2, <2>2 DEF vars, GoesOn
  <2> QED BY <1>2, <2>1, <2>2
<1>3. Delivery /\ Recall /\ [Next]_vars =>
        [\A l \in Launches :
           launch[l] = "pending" /\ launch'[l] \in {"passed", "rebound"} => owed \subseteq Settled(mem.q)]_vars
  BY <1>2 DEF GoesOn
<1> QED BY <1>1, <1>3, PTL DEF Spec, NoBlindStart
=============================================================================
