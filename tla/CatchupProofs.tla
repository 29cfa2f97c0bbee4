----------------------------- MODULE CatchupProofs ---------------------------
(***************************************************************************)
(* What the catch-up obligation promises for every inbox, number of        *)
(* conversations and launches, and every limit: the record is well formed  *)
(* and within its bound, and where messages commit in the order of their   *)
(* numbers, a cursor never passes a row that was not delivered, and a row  *)
(* owed by name stays owed until it is; and a start that cannot carry      *)
(* everything leaves out what is owed only for what is owed longer.        *)
(***************************************************************************)
EXTENDS CatchupObligation, SetInduction, FiniteSetTheorems, SequenceTheorems, TLAPS

\* Cursors up to which every deliverable row is paid, or among some rows; the
\* rows still to be committed are above them.
Honest(cursors, rows) ==
    CommitInOrder =>
        /\ \A c \in Conversations, s \in Seqs \ committed : cursors[c] < s
        /\ \A s \in committed \ Hidden : s <= cursors[ConversationOf[s]] => Paid(s) \/ s \in rows

\* Messages are committed in the order of their numbers.
InOrder == CommitInOrder => \A r \in committed, s \in Seqs \ committed : r < s

\* Cursors at or below committed rows.
Below(cursors) == CommitInOrder => \A c \in Conversations, s \in Seqs \ committed : cursors[c] < s

\* The variables no other conjunct speaks of.
Typed ==
    /\ inbox \in Inboxes /\ committed \subseteq Seqs /\ read \in Cursors /\ Below(read)
    /\ current \in Launches \cup {NoLaunch} /\ bound \in Launches \cup {NoLaunch}
    /\ rendered \subseteq committed
    /\ DOMAIN start = Launches

Phases == {"idle", "plain", "chain", "rows", "claim", "record", "running", "done"}

\* What a start has read may be old, and is still true: the cursors it read are
\* honest, and so is the batch it built.
StartOk(x, l) ==
    /\ x.phase \in Phases
    /\ x.phase \in {"chain", "rows"} => x.ob \in Obligations /\ Honest(x.ob.cursor, {})
    /\ x.phase = "rows" =>
          /\ {x.chain.read, x.chain.first, x.chain.latest} \subseteq Cursors
          /\ \A c \in Conversations : x.chain.read[c] <= read[c]
          /\ Below(x.chain.latest)
    /\ x.phase \in {"claim", "record"} =>
          /\ x \in [phase : Phases, batch : Batches, cursors : Cursors]
          /\ x.batch.launch = l /\ x.batch.rows \subseteq committed
          /\ Honest(x.batch.coverage, x.batch.rows)
          /\ \A c \in Conversations : x.cursors[c] <= read[c]
    /\ x.phase \in {"running", "done"} => x \in [phase : Phases, rows : SUBSET committed]

\* The batch of the record is the one its launch was started with.
PendingOk(b) ==
    b.launch # NoLaunch =>
        /\ b.rows \subseteq committed /\ Honest(b.coverage, b.rows)
        /\ start[b.launch].phase \in {"running", "done"}
        /\ (start[b.launch].phase = "running" => start[b.launch].rows = b.rows)

ObligationOk(o) ==
    /\ o \in Obligations
    /\ Honest(o.cursor, {})
    /\ Cardinality(OwedConversations(o)) <= OwedMax
    /\ PendingOk(o.pending)

\* A row owed by name is paid or under its ceiling.
DebtOk ==
    \A s \in debt :
        /\ s \in committed \ Hidden
        /\ CommitInOrder =>
              (Paid(s) \/ (obligation # NoObligation /\ obligation.owed[ConversationOf[s]] >= s))

\* The inductive invariant.
IInv ==
    /\ Typed /\ InOrder
    /\ \A l \in Launches : StartOk(start[l], l)
    /\ (obligation = NoObligation \/ ObligationOk(obligation))
    /\ DebtOk

\* What every step does: messages, read cursors and rendered rows only grow,
\* and a launch that runs keeps its rows.
Monotone ==
    /\ inbox' = inbox /\ committed \subseteq committed' /\ rendered \subseteq rendered'
    /\ \A c \in Conversations : read[c] <= read'[c]
    /\ \A k \in Launches : start[k].phase \in {"running", "done"} =>
          /\ start'[k].phase \in {"running", "done"}
          /\ start'[k].phase = "running" => start'[k] = start[k]

-----------------------------------------------------------------------------
(* Maxima. *)

LEMMA MaxOfTwo ==
    ASSUME NEW a \in Int, NEW b \in Int
    PROVE  Max({a, b}) = IF a >= b THEN a ELSE b
<1> DEFINE m == IF a >= b THEN a ELSE b
<1>1. m \in {a, b} /\ \A y \in {a, b} : m >= y
  OBVIOUS
<1>2. \A x \in {a, b} : (\A y \in {a, b} : x >= y) => x = m
  OBVIOUS
<1> HIDE DEF m
<1>3. \E x \in {a, b} : \A y \in {a, b} : x >= y
  BY <1>1
<1>4. Max({a, b}) \in {a, b} /\ \A y \in {a, b} : Max({a, b}) >= y
  BY <1>3 DEF Max
<1> QED BY <1>2, <1>4 DEF m

LEMMA MinOfTwo ==
    ASSUME NEW a \in Int, NEW b \in Int
    PROVE  Min({a, b}) = IF a <= b THEN a ELSE b
<1> DEFINE m == IF a <= b THEN a ELSE b
<1>1. m \in {a, b} /\ \A y \in {a, b} : m <= y
  OBVIOUS
<1>2. \A x \in {a, b} : (\A y \in {a, b} : x <= y) => x = m
  OBVIOUS
<1> HIDE DEF m
<1>3. \E x \in {a, b} : \A y \in {a, b} : x <= y
  BY <1>1
<1>4. Min({a, b}) \in {a, b} /\ \A y \in {a, b} : Min({a, b}) <= y
  BY <1>3 DEF Min
<1> QED BY <1>2, <1>4 DEF m

\* A set of sequence numbers that is not empty has a largest member.
LEMMA MaxOfSet ==
    ASSUME NEW S, S \subseteq Seqs, S # {}
    PROVE  Max(S) \in S /\ \A k \in S : k <= Max(S)
<1> DEFINE T == {MaxSeq - x : x \in S}
<1>0. MaxSeq \in Nat /\ \A x \in S : x \in Nat /\ x <= MaxSeq
  BY CatchupAssumption DEF Seqs
<1>1. T \subseteq Nat /\ T # {}
  BY <1>0
<1>2. PICK m \in T : \A k \in T : ~(k < m)
  <2> HIDE DEF T
  <2> QED BY <1>1, LeastMember
<1>3. PICK x \in S : m = MaxSeq - x
  BY <1>2
<1>4. \A y \in S : x >= y
  <2> SUFFICES ASSUME NEW y \in S PROVE x >= y
    OBVIOUS
  <2>1. MaxSeq - y \in T
    OBVIOUS
  <2>2. ~(MaxSeq - y < MaxSeq - x)
    BY <1>2, <1>3, <2>1
  <2> QED BY <1>0, <2>2
<1>5. Max(S) \in S /\ \A y \in S : Max(S) >= y
  BY <1>4 DEF Max
<1> QED BY <1>0, <1>5

LEMMA MinOfSet ==
    ASSUME NEW S, S \subseteq Seqs, S # {}
    PROVE  Min(S) \in S /\ \A k \in S : Min(S) <= k
<1>0. S \subseteq Nat
  BY CatchupAssumption DEF Seqs
<1>1. PICK m \in S : \A k \in S : ~(k < m)
  BY <1>0, LeastMember
<1>2. \A k \in S : m <= k
  BY <1>0, <1>1
<1> QED BY <1>2 DEF Min

-----------------------------------------------------------------------------
(* What a step leaves true. *)

LEMMA Basics ==
    /\ MaxSeq \in Nat /\ Seqs = 1..MaxSeq /\ NoLaunch \notin Launches
    /\ OwedMax \in Nat /\ MaxCandidates \in Nat /\ ChannelRows \in Nat /\ TotalRows \in Nat
    /\ MaxChannels \in Nat /\ MaxCandidates > 0
    /\ IsFiniteSet(Conversations) /\ Conversations \subseteq Nat
    /\ NoSeq \in Cursors /\ \A c \in Conversations : NoSeq[c] = 0
BY CatchupAssumption DEF Seqs, NoSeq, Cursors

\* The conversation of a message.
LEMMA InboxFacts ==
    ASSUME Typed, NEW s \in Seqs
    PROVE  ConversationOf[s] \in Conversations
<1>1. inbox \in [conversation : [1..MaxSeq -> Conversations], hidden : SUBSET (1..MaxSeq)]
  BY CatchupAssumption DEF Typed
<1>2. inbox.conversation \in [1..MaxSeq -> Conversations]
  BY <1>1
<1> QED BY <1>2 DEF ConversationOf, Seqs

LEMMA CursorFacts ==
    ASSUME NEW cursors \in Cursors, NEW c \in Conversations
    PROVE  cursors[c] \in Nat /\ cursors[c] <= MaxSeq /\ cursors[c] \in 0..MaxSeq
BY Basics DEF Cursors

\* Cursors stay honest.
LEMMA HonestStays ==
    ASSUME Typed, Typed', Monotone, NEW cursors \in Cursors, NEW rows, Honest(cursors, rows)
    PROVE  Honest(cursors, rows)'
<1> SUFFICES ASSUME CommitInOrder
             PROVE  /\ \A c \in Conversations, s \in Seqs \ committed' : cursors[c] < s
                    /\ \A s \in committed' \ Hidden' :
                          s <= cursors[(ConversationOf[s])'] => Paid(s)' \/ s \in rows
  BY DEF Honest
<1>1. committed \subseteq committed' /\ Hidden' = Hidden /\ ConversationOf' = ConversationOf
      /\ rendered \subseteq rendered' /\ committed' \subseteq Seqs
  BY DEF Monotone, Hidden, ConversationOf, Typed
<1>2. /\ \A c \in Conversations, s \in Seqs \ committed : cursors[c] < s
      /\ \A s \in committed \ Hidden : s <= cursors[ConversationOf[s]] => Paid(s) \/ s \in rows
  BY DEF Honest
<1>3. ASSUME NEW s \in committed' \ Hidden', s <= cursors[ConversationOf[s]]
      PROVE  Paid(s)' \/ s \in rows
  <2>0. s \in Seqs /\ s \in Nat /\ ConversationOf[s] \in Conversations
    BY <1>1, InboxFacts, Basics
  <2>1. cursors[ConversationOf[s]] \in Nat
    BY <2>0, CursorFacts
  <2>2. s \in committed
    <3> SUFFICES ASSUME s \notin committed PROVE FALSE
      OBVIOUS
    <3>1. cursors[ConversationOf[s]] < s
      BY <1>2, <2>0
    <3> QED BY <1>3, <2>0, <2>1, <3>1
  <2>3. Paid(s) \/ s \in rows
    BY <1>1, <1>2, <1>3, <2>2
  <2>4. CASE s <= read[ConversationOf[s]]
    <3>1. read[ConversationOf[s]] \in Nat /\ read'[ConversationOf[s]] \in Nat
      BY <2>0, CursorFacts DEF Typed
    <3>2. read[ConversationOf[s]] <= read'[ConversationOf[s]]
      BY <2>0 DEF Monotone
    <3>3. s <= read'[ConversationOf[s]]
      BY <2>0, <2>4, <3>1, <3>2
    <3> QED BY <1>1, <3>3 DEF Paid
  <2>5. CASE s \in rendered
    BY <1>1, <2>5 DEF Paid
  <2> QED BY <2>3, <2>4, <2>5 DEF Paid
<1> QED BY <1>1, <1>2, <1>3

LEMMA PaidStays ==
    ASSUME Typed, Typed', Monotone, NEW s \in committed, Paid(s)
    PROVE  Paid(s)'
<1>0. s \in Seqs /\ s \in Nat /\ ConversationOf[s] \in Conversations
  BY InboxFacts, Basics DEF Typed
<1>1. ConversationOf' = ConversationOf /\ rendered \subseteq rendered'
  BY DEF Monotone, ConversationOf
<1>2. CASE s <= read[ConversationOf[s]]
  <2>1. read[ConversationOf[s]] \in Nat /\ read'[ConversationOf[s]] \in Nat
    BY <1>0, CursorFacts DEF Typed
  <2>2. read[ConversationOf[s]] <= read'[ConversationOf[s]]
    BY <1>0 DEF Monotone
  <2>3. s <= read'[ConversationOf[s]]
    BY <1>0, <1>2, <2>1, <2>2
  <2> QED BY <1>1, <2>3 DEF Paid
<1>3. CASE s \in rendered
  BY <1>1, <1>3 DEF Paid
<1> QED BY <1>2, <1>3 DEF Paid

\* What a start has read stays true.
LEMMA StartStays ==
    ASSUME Typed, Typed', Monotone, NEW l \in Launches, NEW x, StartOk(x, l)
    PROVE  StartOk(x, l)'
<1>0. committed \subseteq committed' /\ MaxSeq \in Nat
  BY Basics DEF Monotone
<1>1. ASSUME x.phase \in {"chain", "rows"} PROVE x.ob \in Obligations /\ Honest(x.ob.cursor, {})'
  <2>1. x.ob \in Obligations /\ Honest(x.ob.cursor, {})
    BY <1>1 DEF StartOk
  <2>2. x.ob.cursor \in Cursors
    BY <2>1 DEF Obligations
  <2> QED BY <2>1, <2>2, HonestStays
<1>2. ASSUME x.phase = "rows"
      PROVE  /\ {x.chain.read, x.chain.first, x.chain.latest} \subseteq Cursors
             /\ \A c \in Conversations : x.chain.read[c] <= read'[c]
             /\ Below(x.chain.latest)'
  <2>1. /\ {x.chain.read, x.chain.first, x.chain.latest} \subseteq Cursors
        /\ \A c \in Conversations : x.chain.read[c] <= read[c]
        /\ Below(x.chain.latest)
    BY <1>2 DEF StartOk
  <2>2. ASSUME NEW c \in Conversations PROVE x.chain.read[c] <= read'[c]
    <3>1. x.chain.read[c] \in Nat /\ read[c] \in Nat /\ read'[c] \in Nat
      BY <1>0, <2>1 DEF Typed, Cursors
    <3> QED BY <2>1, <3>1 DEF Monotone
  <2>3. Below(x.chain.latest)'
    BY <1>0, <2>1 DEF Below
  <2> QED BY <2>1, <2>2, <2>3
<1>3. ASSUME x.phase \in {"claim", "record"}
      PROVE  /\ x \in [phase : Phases, batch : Batches, cursors : Cursors]
             /\ x.batch.launch = l /\ x.batch.rows \subseteq committed'
             /\ Honest(x.batch.coverage, x.batch.rows)'
             /\ \A c \in Conversations : x.cursors[c] <= read'[c]
  <2>0. x \in [phase : Phases, batch : Batches, cursors : Cursors]
    BY <1>3 DEF StartOk
  <2>1. /\ x.batch \in Batches /\ x.batch.launch = l
        /\ x.batch.rows \subseteq committed /\ Honest(x.batch.coverage, x.batch.rows)
        /\ x.cursors \in Cursors /\ \A c \in Conversations : x.cursors[c] <= read[c]
    BY <1>3, <2>0 DEF StartOk
  <2>2. x.batch.coverage \in Cursors
    BY <2>1 DEF Batches
  <2>3. Honest(x.batch.coverage, x.batch.rows)'
    BY <2>1, <2>2, HonestStays
  <2>4. ASSUME NEW c \in Conversations PROVE x.cursors[c] <= read'[c]
    <3>1. x.cursors[c] \in Nat /\ read[c] \in Nat /\ read'[c] \in Nat
      BY <1>0, <2>1 DEF Typed, Cursors
    <3> QED BY <2>1, <3>1 DEF Monotone
  <2> QED BY <1>0, <2>0, <2>1, <2>3, <2>4
<1>4. ASSUME x.phase \in {"running", "done"}
      PROVE  x \in [phase : Phases, rows : SUBSET committed']
  <2>1. x \in [phase : Phases, rows : SUBSET committed]
    BY <1>4 DEF StartOk
  <2> QED BY <1>0, <2>1
<1>5. x.phase \in Phases
  BY DEF StartOk
<1> QED BY <1>1, <1>2, <1>3, <1>4, <1>5 DEF StartOk

LEMMA PendingStays ==
    ASSUME Typed, Typed', Monotone, NEW b \in Batches \cup {NoBatch}, PendingOk(b)
    PROVE  PendingOk(b)'
<1> SUFFICES ASSUME b.launch # NoLaunch
             PROVE  /\ b.rows \subseteq committed' /\ Honest(b.coverage, b.rows)'
                    /\ start'[b.launch].phase \in {"running", "done"}
                    /\ (start'[b.launch].phase = "running" => start'[b.launch].rows = b.rows)
  BY DEF PendingOk
<1>1. b \in Batches
  BY DEF NoBatch
<1>2. b.launch \in Launches /\ b.coverage \in Cursors
  BY <1>1 DEF Batches
<1>3. /\ b.rows \subseteq committed /\ Honest(b.coverage, b.rows)
      /\ start[b.launch].phase \in {"running", "done"}
      /\ (start[b.launch].phase = "running" => start[b.launch].rows = b.rows)
  BY DEF PendingOk
<1>4. Honest(b.coverage, b.rows)'
  BY <1>2, <1>3, HonestStays
<1> HIDE DEF PendingOk
<1>5. /\ start'[b.launch].phase \in {"running", "done"}
      /\ start'[b.launch].phase = "running" => start'[b.launch] = start[b.launch]
  BY <1>2, <1>3 DEF Monotone
<1>6. b.rows \subseteq committed'
  BY <1>3 DEF Monotone
<1> QED BY <1>3, <1>4, <1>5, <1>6

LEMMA ObligationStays ==
    ASSUME Typed, Typed', Monotone, NEW o, ObligationOk(o)
    PROVE  ObligationOk(o)'
<1>1. o \in Obligations /\ Honest(o.cursor, {}) /\ PendingOk(o.pending)
      /\ Cardinality(OwedConversations(o)) <= OwedMax
  BY DEF ObligationOk
<1>2. o.cursor \in Cursors /\ o.pending \in Batches \cup {NoBatch}
  BY <1>1 DEF Obligations
<1>3. Honest(o.cursor, {})'
  BY <1>1, <1>2, HonestStays
<1>4. PendingOk(o.pending)'
  BY <1>1, <1>2, PendingStays
<1> QED BY <1>1, <1>3, <1>4 DEF ObligationOk

-----------------------------------------------------------------------------
(* Building a batch. *)

\* Rows fetched so far, and cursors up to which nothing else is missing.
Good(acc) ==
    /\ acc \in [rows : SUBSET committed, channels : Nat, coverage : Cursors, truncated : BOOLEAN]
    /\ Honest(acc.coverage, acc.rows)

\* What a start has read of the inbox.
ChainOk(chain) ==
    /\ {chain.read, chain.first, chain.latest} \subseteq Cursors
    /\ \A c \in Conversations : chain.read[c] <= read[c]
    /\ Below(chain.latest)

\* Cursors honest in one conversation.
HonestAt(n, c, rows) ==
    CommitInOrder =>
        /\ \A s \in Seqs \ committed : n < s
        /\ \A s \in RowsOf(c) \ Hidden : s <= n => Paid(s) \/ s \in rows

LEMMA HonestWith ==
    ASSUME Typed, NEW rows, NEW more, NEW cursors \in Cursors, Honest(cursors, rows),
           NEW c \in Conversations, NEW n \in 0..MaxSeq, HonestAt(n, c, more)
    PROVE  /\ [cursors EXCEPT ![c] = n] \in Cursors
           /\ Honest([cursors EXCEPT ![c] = n], rows \cup more)
<1> DEFINE new == [cursors EXCEPT ![c] = n]
<1>1. new \in Cursors /\ new[c] = n /\ \A d \in Conversations : d # c => new[d] = cursors[d]
  BY DEF Cursors
<1> HIDE DEF new
<1>2. Honest(new, rows \cup more)
  <2> SUFFICES ASSUME CommitInOrder
               PROVE  /\ \A d \in Conversations, s \in Seqs \ committed : new[d] < s
                      /\ \A s \in committed \ Hidden :
                            s <= new[ConversationOf[s]] => Paid(s) \/ s \in rows \cup more
    BY DEF Honest
  <2>1. /\ \A d \in Conversations, s \in Seqs \ committed : cursors[d] < s
        /\ \A s \in committed \ Hidden : s <= cursors[ConversationOf[s]] => Paid(s) \/ s \in rows
        /\ \A s \in Seqs \ committed : n < s
        /\ \A s \in RowsOf(c) \ Hidden : s <= n => Paid(s) \/ s \in more
    BY DEF Honest, HonestAt
  <2>2. ASSUME NEW d \in Conversations, NEW s \in Seqs \ committed PROVE new[d] < s
    BY <1>1, <2>1
  <2>3. ASSUME NEW s \in committed \ Hidden, s <= new[ConversationOf[s]]
        PROVE  Paid(s) \/ s \in rows \cup more
    <3>0. ConversationOf[s] \in Conversations
      BY InboxFacts DEF Typed
    <3>1. CASE ConversationOf[s] = c
      <4>1. s \in RowsOf(c) \ Hidden /\ s <= n
        BY <1>1, <2>3, <3>1 DEF RowsOf
      <4> QED BY <2>1, <4>1
    <3>2. CASE ConversationOf[s] # c
      BY <1>1, <2>1, <2>3, <3>0, <3>2
    <3> QED BY <3>1, <3>2
  <2> QED BY <2>2, <2>3
<1> QED BY <1>1, <1>2 DEF new

\* The lower bound of a conversation is paid.
LEMMA LowerBoundPaid ==
    ASSUME Typed, NEW ob \in Obligations, Honest(ob.cursor, {}), NEW chain, ChainOk(chain),
           NEW c \in Conversations
    PROVE  /\ LowerBound(ob, c, chain.read[c]) \in 0..MaxSeq
           /\ HonestAt(LowerBound(ob, c, chain.read[c]), c, {})
<1> DEFINE from == LowerBound(ob, c, chain.read[c])
<1>0. ob.cursor \in Cursors /\ chain.read \in Cursors /\ read \in Cursors
  BY DEF Obligations, ChainOk, Typed
<1>1. ob.cursor[c] \in 0..MaxSeq /\ chain.read[c] \in 0..MaxSeq /\ read[c] \in 0..MaxSeq /\ MaxSeq \in Nat
  BY <1>0, CursorFacts, Basics
<1>2. from = IF chain.read[c] >= ob.cursor[c] THEN chain.read[c] ELSE ob.cursor[c]
  BY <1>1, MaxOfTwo DEF LowerBound
<1>3. chain.read[c] <= read[c]
  BY DEF ChainOk
<1>4. from \in 0..MaxSeq
  BY <1>1, <1>2
<1> HIDE DEF from
<1>5. ASSUME CommitInOrder, NEW s \in Seqs \ committed PROVE from < s
  <2>1. ob.cursor[c] < s /\ read[c] < s
    BY <1>5 DEF Honest, Typed, Below
  <2> QED BY <1>1, <1>2, <1>3, <2>1, Basics
<1>6. ASSUME CommitInOrder, NEW s \in RowsOf(c) \ Hidden, s <= from PROVE Paid(s)
  <2>1. s \in committed \ Hidden /\ ConversationOf[s] = c /\ s \in Nat
    BY <1>6, Basics DEF RowsOf, Typed
  <2>2. CASE s <= ob.cursor[c]
    BY <1>6, <2>1, <2>2 DEF Honest
  <2>3. CASE ~(s <= ob.cursor[c])
    <3>1. s <= read[c]
      BY <1>1, <1>2, <1>3, <1>6, <2>1, <2>3
    <3> QED BY <2>1, <3>1 DEF Paid
  <2> QED BY <2>2, <2>3
<1> QED BY <1>4, <1>5, <1>6 DEF from, HonestAt

\* The rows fetched of a conversation leave no gap.
LEMMA FetchOneGood ==
    ASSUME Typed, InOrder, NEW ob \in Obligations, Honest(ob.cursor, {}),
           NEW chain, ChainOk(chain), NEW acc, Good(acc), NEW c \in Conversations
    PROVE  Good(FetchOne(ob, chain, acc, c))
<1> DEFINE from == LowerBound(ob, c, chain.read[c])
           limit == Min({ChannelRows, TotalRows - Cardinality(acc.rows)})
           eligible == {s \in RowsOf(c) : s > from /\ s \notin Hidden}
           upTo(s) == {r \in eligible : r <= s}
           fetched == {s \in eligible : Cardinality(upTo(s)) <= limit}
           covered == IF fetched = {} THEN from
                      ELSE IF fetched # eligible THEN Max(fetched)
                      ELSE Max({Max(fetched), chain.latest[c]})
<1>0. from \in 0..MaxSeq /\ HonestAt(from, c, {})
  BY LowerBoundPaid
<1>1. /\ acc.rows \subseteq committed /\ acc.channels \in Nat /\ acc.coverage \in Cursors
      /\ acc.truncated \in BOOLEAN /\ Honest(acc.coverage, acc.rows)
      /\ committed \subseteq Seqs /\ Seqs \subseteq Nat
  BY Basics DEF Good, Typed
<1>2. RowsOf(c) \subseteq committed
  BY DEF RowsOf
<1> HIDE DEF from
<1>3. ASSUME NEW s \in RowsOf(c) \ Hidden, s \notin eligible PROVE s <= from
  <2>0. s \in Nat
    <3> HIDE DEF eligible
    <3> QED BY <1>1, <1>2, <1>3
  <2>1. from \in Int
    BY <1>0, Basics
  <2>2. ~(s > from)
    BY <1>3
  <2> QED BY <2>0, <2>1, <2>2
<1>4. eligible \subseteq RowsOf(c) /\ fetched \subseteq eligible
  OBVIOUS
<1>5. limit \in Int
  <2>1. IsFiniteSet(acc.rows)
    <3>1. IsFiniteSet(Seqs)
      BY Basics, FS_Interval
    <3> QED BY <1>1, <3>1, FS_Subset
  <2>2. Cardinality(acc.rows) \in Nat
    BY <2>1, FS_CardinalityType
  <2>3. TotalRows - Cardinality(acc.rows) \in Int /\ ChannelRows \in Int
    BY <2>2, Basics
  <2> QED BY <2>3, MinOfTwo
<1> HIDE DEF limit
<1>6. ASSUME NEW s \in eligible, NEW m \in fetched, s <= m PROVE s \in fetched
  <2>1. s \in Nat /\ m \in Nat /\ m \in eligible /\ eligible \subseteq Seqs
    BY <1>1, <1>2, <1>4
  <2>2. upTo(s) \subseteq upTo(m) /\ upTo(m) \subseteq Seqs
    <3>1. ASSUME NEW r \in upTo(s) PROVE r \in upTo(m)
      <4>1. r \in eligible /\ r <= s
        OBVIOUS
      <4> HIDE DEF eligible
      <4>2. r \in Nat
        BY <1>1, <2>1, <4>1
      <4>3. r <= m
        BY <1>6, <2>1, <4>1, <4>2
      <4> QED BY <4>1, <4>3
    <3> HIDE DEF eligible
    <3> QED BY <2>1, <3>1
  <2>3. IsFiniteSet(Seqs)
    BY Basics, FS_Interval
  <2>4. Cardinality(upTo(m)) <= limit
    OBVIOUS
  <2> HIDE DEF upTo
  <2>5. IsFiniteSet(upTo(m)) /\ IsFiniteSet(upTo(s)) /\ Cardinality(upTo(s)) <= Cardinality(upTo(m))
    BY <2>2, <2>3, FS_Subset
  <2>6. Cardinality(upTo(m)) \in Nat /\ Cardinality(upTo(s)) \in Nat
    BY <2>5, FS_CardinalityType
  <2> QED BY <1>5, <2>4, <2>5, <2>6
<1> HIDE DEF fetched, eligible
<1>7. ASSUME fetched # {}
      PROVE  Max(fetched) \in fetched /\ Max(fetched) \in Seqs /\ \A s \in fetched : s <= Max(fetched)
  <2>1. fetched \subseteq Seqs
    BY <1>1, <1>2, <1>4
  <2> QED BY <1>7, <2>1, MaxOfSet
<1>8. covered \in 0..MaxSeq /\ HonestAt(covered, c, fetched)
  <2>1. CASE fetched = {}
    BY <1>0, <2>1
  <2>2. CASE fetched # {} /\ fetched # eligible
    <3> DEFINE m == Max(fetched)
    <3>1. covered = m
      BY <2>2
    <3>2. m \in fetched /\ m \in Seqs /\ m \in committed
      BY <1>1, <1>2, <1>4, <1>7, <2>2
    <3> HIDE DEF m
    <3>3. ASSUME CommitInOrder, NEW s \in Seqs \ committed PROVE m < s
      BY <3>2, <3>3 DEF InOrder
    <3>4. ASSUME CommitInOrder, NEW s \in RowsOf(c) \ Hidden, s <= m PROVE Paid(s) \/ s \in fetched
      <4>1. CASE s \in eligible
        BY <1>6, <3>2, <3>4, <4>1
      <4>2. CASE s <= from
        BY <1>0, <3>4, <4>2 DEF HonestAt
      <4> QED BY <1>3, <4>1, <4>2
    <3>5. m \in 0..MaxSeq
      BY <3>2, Basics
    <3> HIDE DEF covered
    <3> QED BY <3>1, <3>3, <3>4, <3>5 DEF HonestAt
  <2>3. CASE fetched # {} /\ fetched = eligible
    <3> DEFINE m == Max(fetched)
               k == chain.latest[c]
    <3>2. m \in fetched /\ m \in Seqs /\ m \in committed
      BY <1>1, <1>2, <1>4, <1>7, <2>3
    <3>3. k \in 0..MaxSeq /\ k \in Nat
      BY CursorFacts DEF ChainOk
    <3>4. CommitInOrder => \A s \in Seqs \ committed : k < s
      BY DEF ChainOk, Below
    <3> HIDE DEF m, k
    <3>5. covered = Max({m, k})
      BY <2>3 DEF m, k
    <3>6. m \in 0..MaxSeq /\ m \in Nat
      BY <3>2, Basics
    <3>7. covered = IF m >= k THEN m ELSE k
      BY <3>3, <3>5, <3>6, MaxOfTwo
    <3> HIDE DEF covered
    <3>8. ASSUME CommitInOrder, NEW s \in Seqs \ committed PROVE covered < s
      BY <3>2, <3>4, <3>7, <3>8 DEF InOrder
    <3>9. ASSUME CommitInOrder, NEW s \in RowsOf(c) \ Hidden PROVE Paid(s) \/ s \in fetched
      <4>1. CASE s \in eligible
        BY <2>3, <4>1
      <4>2. CASE s <= from
        BY <1>0, <3>9, <4>2 DEF HonestAt
      <4> QED BY <1>3, <4>1, <4>2
    <3>10. covered \in 0..MaxSeq
      BY <3>3, <3>6, <3>7
    <3> QED BY <3>8, <3>9, <3>10 DEF HonestAt
  <2> QED BY <2>1, <2>2, <2>3
<1> HIDE DEF covered
<1> DEFINE rows == acc.rows \cup fetched
           coverage == [acc.coverage EXCEPT ![c] = covered]
           next == [rows |-> rows,
                    channels |-> acc.channels + (IF fetched = {} THEN 0 ELSE 1),
                    coverage |-> coverage,
                    truncated |-> acc.truncated \/ fetched # eligible]
<1>9. coverage \in Cursors /\ Honest(coverage, rows)
  BY <1>1, <1>8, HonestWith
<1>10. rows \subseteq committed
  BY <1>1, <1>2, <1>4
<1> HIDE DEF rows, coverage
<1>11. Good(next)
  <2>1. acc.channels + (IF fetched = {} THEN 0 ELSE 1) \in Nat
    BY <1>1
  <2>2. (acc.truncated \/ fetched # eligible) \in BOOLEAN
    OBVIOUS
  <2>3. next \in [rows : SUBSET committed, channels : Nat, coverage : Cursors, truncated : BOOLEAN]
    BY <1>9, <1>10, <2>1, <2>2
  <2>4. next.coverage = coverage /\ next.rows = rows
    OBVIOUS
  <2> HIDE DEF next
  <2> QED BY <1>9, <2>3, <2>4 DEF Good
<1>12. FetchOne(ob, chain, acc, c) = acc \/ FetchOne(ob, chain, acc, c) = next
  BY DEF FetchOne, next, rows, coverage, covered, fetched, eligible, limit, from
<1> HIDE DEF next
<1> QED BY <1>11, <1>12

LEMMA NoSeqHonest == ASSUME Typed PROVE Honest(NoSeq, {})
<1>1. \A s \in Seqs : s \in Nat /\ s > 0
  BY Basics
<1>2. \A s \in committed : s \in Seqs /\ ConversationOf[s] \in Conversations
  BY InboxFacts DEF Typed
<1>3. ASSUME NEW s \in committed, s <= NoSeq[ConversationOf[s]] PROVE FALSE
  <2>1. NoSeq[ConversationOf[s]] = 0
    BY <1>2, Basics
  <2> QED BY <1>1, <1>2, <1>3, <2>1
<1>4. \A c \in Conversations, s \in Seqs : NoSeq[c] < s
  BY <1>1, Basics
<1> QED BY <1>3, <1>4 DEF Honest

\* The rows of a start are fetched candidate by candidate, in any order.
Steps(f, ob, chain, order, n) ==
    /\ f[0] = NothingFetched
    /\ \A i \in 1..n : f[i] = FetchOne(ob, chain, f[i - 1], order[i])
    /\ \A i \in 0..n : Good(f[i])
    /\ Fetched(ob, chain, order, n) = f[n]

LEMMA FetchedSteps ==
    ASSUME Typed, InOrder, NEW ob \in Obligations, Honest(ob.cursor, {}),
           NEW chain, ChainOk(chain), NEW n \in Nat, NEW order,
           \A i \in 1..n : order[i] \in Conversations
    PROVE  \E f : Steps(f, ob, chain, order, n)
<1> DEFINE D == {t \in [rows : SUBSET committed, channels : Nat, coverage : Cursors,
                        truncated : BOOLEAN] : Honest(t.coverage, t.rows)}
           after(t, i) == FetchOne(ob, chain, t, order[i])
           Q(f) == f = [i \in 0..n |-> IF i = 0 THEN NothingFetched
                                       ELSE FetchOne(ob, chain, f[i - 1], order[i])]
           step == [i \in 1..n |-> [t \in D |-> after(t, i)]]
           fit == CHOOSE f : Q(f)
<1>0. \A t : t \in D <=> Good(t)
  BY DEF Good
<1> HIDE DEF D
<1>1. NothingFetched \in D
  <2>1. NothingFetched \in [rows : SUBSET committed, channels : Nat, coverage : Cursors, truncated : BOOLEAN]
    BY Basics DEF NothingFetched
  <2>2. NothingFetched.coverage = NoSeq /\ NothingFetched.rows = {}
    BY DEF NothingFetched
  <2> QED BY <1>0, <2>1, <2>2, NoSeqHonest DEF Good
<1>2. ASSUME NEW t \in D, NEW i \in 1..n PROVE after(t, i) \in D
  BY <1>0, FetchOneGood
<1>3. step \in [1..n -> [D -> D]] /\ \A i \in 1..n, t \in D : step[i][t] = after(t, i)
  <2> HIDE DEF after
  <2> QED BY <1>2
<1> HIDE DEF step
<1>4. PICK g : Solves(g, n, D, NothingFetched, step)
  BY <1>1, <1>3, RecursionExists
<1>5. Q(g)
  <2> DEFINE h == [i \in 0..n |-> IF i = 0 THEN NothingFetched ELSE after(g[i - 1], i)]
  <2>1. ASSUME NEW i \in 0..n PROVE g[i] = h[i]
    <3>1. CASE i = 0
      BY <3>1, <1>4 DEF Solves
    <3>2. CASE i # 0
      <4>1. i \in 1..n /\ i - 1 \in 0..n
        BY <3>2
      <4>2. g[i] = after(g[i - 1], i)
        <5> HIDE DEF after
        <5> QED BY <1>3, <1>4, <4>1 DEF Solves
      <4>3. h[i] = after(g[i - 1], i)
        <5> HIDE DEF after
        <5> QED BY <3>2
      <4> QED BY <4>2, <4>3
    <3> QED BY <3>1, <3>2
  <2>2. h = [i \in 0..n |-> h[i]]
    OBVIOUS
  <2> HIDE DEF h
  <2>3. g = [i \in 0..n |-> g[i]]
    BY <1>4 DEF Solves
  <2>4. g = h
    BY <2>1, <2>2, <2>3
  <2> QED BY <2>4 DEF h
<1>6. Q(fit)
  <2>1. \E f : Q(f)
    BY <1>5
  <2> HIDE DEF Q
  <2> QED BY <2>1
<1>7. Fetched(ob, chain, order, n) = fit[n]
  BY DEF Fetched
<1> HIDE DEF fit
<1>8. fit[0] = NothingFetched /\ \A i \in 1..n : fit[i] = after(fit[i - 1], i)
  <2>1. \A i \in 0..n : fit[i] = IF i = 0 THEN NothingFetched ELSE after(fit[i - 1], i)
    BY <1>6
  <2>2. 0 \in 0..n /\ \A i \in 1..n : i \in 0..n /\ i # 0
    OBVIOUS
  <2> HIDE DEF after
  <2> QED BY <2>1, <2>2
<1> HIDE DEF after, Q
<1> DEFINE S == {i \in 0..n : fit[i] \in D}
<1>9. 0 \in S
  BY <1>1, <1>8
<1>10. \A i \in 0..(n - 1) : i \in S => i + 1 \in S
  <2> SUFFICES ASSUME NEW i \in 0..(n - 1), i \in S PROVE i + 1 \in S
    OBVIOUS
  <2>1. i + 1 \in 1..n /\ i + 1 \in 0..n /\ (i + 1) - 1 = i
    OBVIOUS
  <2>2. fit[i + 1] = after(fit[i], i + 1)
    BY <1>8, <2>1
  <2> QED BY <1>2, <2>1, <2>2
<1> HIDE DEF S
<1>11. \A i \in 0..n : i \in S
  BY <1>9, <1>10, SetInductionUpTo
<1>12. \A i \in 0..n : Good(fit[i])
  BY <1>0, <1>11 DEF S
<1> QED BY <1>7, <1>8, <1>12 DEF Steps, after

\* An order of the candidates lists each of them, the ones that precede first.
LEMMA OrderFacts ==
    ASSUME NEW ob, NEW chain, NEW order \in Candidates(ob, chain)
    PROVE  /\ Len(order) \in Nat
           /\ order \in [1..Len(order) -> Above(ob, chain)]
           /\ \A c \in Above(ob, chain) : \E i \in 1..Len(order) : order[i] = c
           /\ \A i, j \in 1..Len(order) : i < j => Precedes(ob, chain, order[i], order[j])
<1> DEFINE A == Above(ob, chain)
           D == 1..Cardinality(A)
<1>1. A \subseteq Conversations /\ IsFiniteSet(A)
  <2>1. A \subseteq Conversations
    BY DEF Above
  <2> QED BY <2>1, Basics, FS_Subset
<1>2. Cardinality(A) \in Nat
  BY <1>1, FS_CardinalityType
<1>3. /\ order \in [D -> A] /\ \A i, j \in D : i # j => order[i] # order[j]
      /\ \A i, j \in DOMAIN order : i < j => Precedes(ob, chain, order[i], order[j])
  BY DEF Candidates, SetToSeqs
<1> HIDE DEF A
<1>4. Len(order) = Cardinality(A)
  <2>1. order \in Seq(A)
    BY <1>2, <1>3
  <2>2. DOMAIN order = 1..Len(order) /\ Len(order) \in Nat
    BY <2>1
  <2>3. DOMAIN order = 1..Cardinality(A)
    BY <1>3
  <2> QED BY <1>2, <2>2, <2>3
<1>5. order \in Surjection(D, A)
  <2>1. order \in Injection(D, A)
    BY <1>3 DEF Injection, IsInjective
  <2>2. Cardinality(D) = Cardinality(A)
    BY <1>2, FS_Interval
  <2> HIDE DEF D
  <2> QED BY <1>1, <2>1, <2>2, FS_Injection
<1>6. \A c \in A : \E i \in D : order[i] = c
  <2> HIDE DEF D
  <2> QED BY <1>5 DEF Surjection
<1> QED BY <1>2, <1>3, <1>4, <1>6 DEF A

LEMMA BuildFacts ==
    ASSUME Typed, InOrder, NEW ob \in Obligations, Honest(ob.cursor, {}),
           NEW chain, ChainOk(chain), NEW order \in Candidates(ob, chain), NEW l \in Launches
    PROVE  LET b == Build(ob, chain, l, order)
           IN  /\ b \in Batches /\ b.launch = l /\ b.rows \subseteq committed
               /\ Honest(b.coverage, b.rows)
<1> DEFINE n == IF Len(order) > MaxCandidates THEN MaxCandidates ELSE Len(order)
           acc == Fetched(ob, chain, order, n)
           b == Build(ob, chain, l, order)
<1>1. Len(order) \in Nat /\ order \in [1..Len(order) -> Above(ob, chain)]
  BY OrderFacts
<1>2. n \in Nat /\ \A i \in 1..n : i \in 1..Len(order)
  BY <1>1, Basics
<1> HIDE DEF n
<1>3. \A i \in 1..n : order[i] \in Conversations
  BY <1>1, <1>2 DEF Above
<1>4. Good(acc)
  <2>1. PICK f : Steps(f, ob, chain, order, n)
    BY <1>2, <1>3, FetchedSteps
  <2>2. n \in 0..n
    BY <1>2
  <2> QED BY <2>1, <2>2 DEF Steps
<1>5. acc.rows \subseteq committed /\ acc.coverage \in Cursors /\ Honest(acc.coverage, acc.rows)
  BY <1>4 DEF Good
<1>6. /\ b.launch = l /\ b.rows = acc.rows /\ b.coverage = acc.coverage
      /\ b = [launch |-> l, rows |-> acc.rows, coverage |-> acc.coverage, complete |-> b.complete]
      /\ b.complete \in BOOLEAN
  <2> HIDE DEF acc
  <2>1. /\ Build(ob, chain, l, order).launch = l
        /\ Build(ob, chain, l, order).rows = acc.rows
        /\ Build(ob, chain, l, order).coverage = acc.coverage
        /\ Build(ob, chain, l, order).complete \in BOOLEAN
        /\ Build(ob, chain, l, order) = [launch |-> l, rows |-> acc.rows, coverage |-> acc.coverage,
               complete |-> Build(ob, chain, l, order).complete]
    BY DEF Build, acc, n
  <2> QED BY <2>1
<1> HIDE DEF acc, b
<1>7. acc.rows \subseteq Seqs
  BY <1>5 DEF Typed
<1>8. b \in Batches
  BY <1>5, <1>6, <1>7 DEF Batches
<1> QED BY <1>5, <1>6, <1>8 DEF b

-----------------------------------------------------------------------------
(* What is owed goes first. *)

\* No further candidate is fetched: the rows or the conversations of a batch
\* are used up.
Stopped(acc) == TotalRows <= Cardinality(acc.rows) \/ acc.channels = MaxChannels

\* A conversation with a row to deliver, as a start has read it.
Deliverable(ob, chain, c) ==
    \E s \in RowsOf(c) \ Hidden : LowerBound(ob, c, chain.read[c]) < s

\* A candidate only adds rows of its own; none once the batch is full; and a
\* candidate with a row to deliver gets at least its oldest one before that.
LEMMA FetchOneRows ==
    ASSUME Typed, NEW ob \in Obligations, Honest(ob.cursor, {}),
           NEW chain, ChainOk(chain), NEW acc, Good(acc), NEW c \in Conversations
    PROVE  LET next == FetchOne(ob, chain, acc, c)
           IN  /\ acc.rows \subseteq next.rows /\ next.rows \subseteq acc.rows \cup RowsOf(c)
               /\ Stopped(acc) => next.rows = acc.rows /\ Stopped(next)
               /\ (~Stopped(acc) /\ Deliverable(ob, chain, c)) => \E r \in next.rows : r \in RowsOf(c)
<1> DEFINE from == LowerBound(ob, c, chain.read[c])
           limit == Min({ChannelRows, TotalRows - Cardinality(acc.rows)})
           eligible == {s \in RowsOf(c) : s > from /\ s \notin Hidden}
           upTo(s) == {r \in eligible : r <= s}
           fetched == {s \in eligible : Cardinality(upTo(s)) <= limit}
           next == FetchOne(ob, chain, acc, c)
           more == acc.channels + (IF fetched = {} THEN 0 ELSE 1)
<1>0. from \in 0..MaxSeq
  BY LowerBoundPaid
<1> HIDE DEF from
<1>1. /\ acc.rows \subseteq committed /\ acc.channels \in Nat
      /\ committed \subseteq Seqs /\ Seqs \subseteq Nat
  BY Basics DEF Good, Typed
<1>2. RowsOf(c) \subseteq committed /\ eligible \subseteq RowsOf(c) /\ fetched \subseteq RowsOf(c)
  BY DEF RowsOf
<1>3. Cardinality(acc.rows) \in Nat
  <2>1. IsFiniteSet(Seqs)
    BY Basics, FS_Interval
  <2> QED BY <1>1, <2>1, FS_Subset, FS_CardinalityType
<1>4. limit = IF ChannelRows <= TotalRows - Cardinality(acc.rows)
              THEN ChannelRows ELSE TotalRows - Cardinality(acc.rows)
  <2>1. TotalRows - Cardinality(acc.rows) \in Int /\ ChannelRows \in Int
    BY <1>3, Basics
  <2> QED BY <2>1, MinOfTwo
<1>5. ChannelRows \in Nat /\ ChannelRows > 0 /\ TotalRows \in Nat
  BY CatchupAssumption
<1> HIDE DEF limit
<1>6. limit \in Int /\ (limit <= 0 <=> TotalRows <= Cardinality(acc.rows))
  BY <1>3, <1>4, <1>5
<1>7. \/ limit = 0 \/ acc.channels = MaxChannels
      \/ next.rows = acc.rows \cup fetched /\ next.channels = more
  BY DEF FetchOne, from, limit
<1>8. limit = 0 \/ acc.channels = MaxChannels => next = acc
  BY DEF FetchOne, limit
<1>9. ASSUME limit < 0 PROVE fetched = {}
  <2> SUFFICES ASSUME NEW s \in eligible PROVE ~(Cardinality(upTo(s)) <= limit)
    OBVIOUS
  <2>1. upTo(s) \subseteq Seqs
    BY <1>1, <1>2
  <2> HIDE DEF upTo
  <2>2. Cardinality(upTo(s)) \in Nat
    <3>1. IsFiniteSet(Seqs)
      BY Basics, FS_Interval
    <3>2. IsFiniteSet(upTo(s))
      BY <2>1, <3>1, FS_Subset
    <3> QED BY <3>2, FS_CardinalityType
  <2> QED BY <1>6, <1>9, <2>2
<1>10. ASSUME Stopped(acc) PROVE next.rows = acc.rows /\ Stopped(next)
  <2>1. CASE limit = 0 \/ acc.channels = MaxChannels
    BY <1>8, <1>10, <2>1
  <2>2. CASE ~(limit = 0 \/ acc.channels = MaxChannels)
    <3>1. limit < 0 /\ TotalRows <= Cardinality(acc.rows)
      BY <1>6, <1>10, <2>2 DEF Stopped
    <3>2. next.rows = acc.rows
      BY <1>7, <1>9, <2>2, <3>1
    <3> HIDE DEF next
    <3> QED BY <3>1, <3>2 DEF Stopped
  <2> QED BY <2>1, <2>2
<1>11. ASSUME ~Stopped(acc), Deliverable(ob, chain, c) PROVE \E r \in next.rows : r \in RowsOf(c)
  <2>1. PICK s \in RowsOf(c) \ Hidden : from < s
    BY <1>11 DEF Deliverable, from
  <2>2. s \in Nat /\ from \in Nat
    <3>1. s \in Seqs
      <4> HIDE DEF eligible, fetched
      <4> QED BY <1>1, <1>2, <2>1
    <3> QED BY <1>0, <3>1, Basics
  <2>3. s \in eligible
    BY <2>1, <2>2
  <2>4. eligible \subseteq Seqs /\ eligible # {}
    BY <1>1, <1>2, <2>3
  <2>5. PICK m : m \in eligible /\ \A k \in eligible : m <= k
    <3> HIDE DEF eligible
    <3> QED BY <2>4, MinOfSet
  <2>6. upTo(m) = {m}
    <3>1. ASSUME NEW r \in eligible, r <= m PROVE r = m
      <4> HIDE DEF eligible
      <4>1. r \in Nat /\ m \in Nat /\ m <= r
        BY <1>1, <2>4, <2>5, <3>1
      <4> QED BY <3>1, <4>1
    <3>2. m \in upTo(m)
      <4>1. m \in eligible /\ m \in Nat
        BY <1>1, <1>2, <2>5
      <4> HIDE DEF eligible
      <4> QED BY <4>1
    <3> HIDE DEF eligible
    <3> QED BY <3>1, <3>2
  <2>7. Cardinality(upTo(m)) = 1
    <3> HIDE DEF upTo
    <3> QED BY <2>6, FS_Singleton
  <2>8. limit >= 1 /\ limit # 0 /\ acc.channels # MaxChannels
    BY <1>6, <1>11, <1>3, <1>5 DEF Stopped
  <2>9. m \in fetched
    <3>1. Cardinality(upTo(m)) <= limit
      BY <1>6, <2>7, <2>8
    <3> HIDE DEF upTo, eligible
    <3> QED BY <2>5, <3>1
  <2>10. next.rows = acc.rows \cup fetched
    BY <1>7, <2>8
  <2> HIDE DEF next, fetched
  <2> QED BY <1>2, <2>9, <2>10
<1>12. acc.rows \subseteq next.rows /\ next.rows \subseteq acc.rows \cup RowsOf(c)
  <2>1. CASE next = acc
    BY <2>1
  <2>2. CASE next.rows = acc.rows \cup fetched
    <3> HIDE DEF next, fetched
    <3> QED BY <1>2, <2>2
  <2> QED BY <1>7, <1>8, <2>1, <2>2
<1> QED BY <1>10, <1>11, <1>12

\* Rows fetched of the first candidates only.
From(rows, order, i) == \A r \in rows : \E j \in 1..i : ConversationOf[r] = order[j]

Carries(rows, c) == \E r \in rows : ConversationOf[r] = c

\* A candidate with a row to deliver that a batch leaves out: the batch has only
\* rows of the candidates before it.
LEMMA FetchedInOrder ==
    ASSUME Typed, InOrder, NEW ob \in Obligations, Honest(ob.cursor, {}),
           NEW chain, ChainOk(chain), NEW n \in Nat, NEW order,
           \A i \in 1..n : order[i] \in Conversations,
           NEW k \in Nat \ {0}, Deliverable(ob, chain, order[k]),
           ~Carries(Fetched(ob, chain, order, n).rows, order[k])
    PROVE  From(Fetched(ob, chain, order, n).rows, order, k - 1)
<1>1. PICK f : Steps(f, ob, chain, order, n)
  BY FetchedSteps
<1> DEFINE Fair(i) == i < k \/ Carries(f[i].rows, order[k])
                      \/ (Stopped(f[i]) /\ From(f[i].rows, order, k - 1))
           S == {i \in 0..n : From(f[i].rows, order, i) /\ Fair(i)}
<1>2. /\ f[0] = NothingFetched /\ Fetched(ob, chain, order, n) = f[n]
      /\ \A i \in 1..n : f[i] = FetchOne(ob, chain, f[i - 1], order[i])
      /\ \A i \in 0..n : Good(f[i])
  BY <1>1 DEF Steps
<1>3. 0 \in S
  BY <1>2 DEF From, NothingFetched
<1>4. ASSUME NEW i \in 0..(n - 1), i \in S PROVE i + 1 \in S
  <2>1. i + 1 \in 1..n /\ i + 1 \in 0..n /\ (i + 1) - 1 = i /\ i \in Nat
    OBVIOUS
  <2>2. PICK d, acc, next : d = order[i + 1] /\ acc = f[i] /\ next = f[i + 1]
    OBVIOUS
  <2>3. Good(acc) /\ d \in Conversations /\ next = FetchOne(ob, chain, acc, d)
    BY <1>2, <2>1, <2>2
  <2>4. /\ acc.rows \subseteq next.rows /\ next.rows \subseteq acc.rows \cup RowsOf(d)
        /\ Stopped(acc) => next.rows = acc.rows /\ Stopped(next)
        /\ (~Stopped(acc) /\ Deliverable(ob, chain, d)) => \E r \in next.rows : r \in RowsOf(d)
    BY <2>3, FetchOneRows
  <2>5. From(acc.rows, order, i) /\ Fair(i)
    BY <1>4, <2>2
  <2>6. From(next.rows, order, i + 1)
    <3> SUFFICES ASSUME NEW r \in next.rows
                 PROVE  \E j \in 1..(i + 1) : ConversationOf[r] = order[j]
      BY DEF From
    <3>1. CASE r \in acc.rows
      <4>1. PICK j \in 1..i : ConversationOf[r] = order[j]
        BY <2>5, <3>1 DEF From
      <4>2. j \in 1..(i + 1)
        BY <2>1
      <4> QED BY <4>1, <4>2
    <3>2. CASE r \in RowsOf(d)
      <4>1. ConversationOf[r] = order[i + 1]
        BY <2>2, <3>2 DEF RowsOf
      <4>2. i + 1 \in 1..(i + 1)
        BY <2>1
      <4> QED BY <4>1, <4>2
    <3> QED BY <2>4, <3>1, <3>2
  <2>7. Fair(i + 1)
    <3>1. CASE i + 1 < k
      BY <3>1
    <3>2. CASE i + 1 = k
      <4>1. d = order[k] /\ i = k - 1
        BY <2>1, <2>2, <3>2
      <4>2. CASE Stopped(acc)
        BY <2>2, <2>4, <2>5, <4>1, <4>2
      <4>3. CASE ~Stopped(acc)
        <5>1. \E r \in next.rows : r \in RowsOf(d)
          BY <2>4, <4>1, <4>3
        <5> QED BY <2>2, <4>1, <5>1 DEF Carries, RowsOf
      <4> QED BY <4>2, <4>3
    <3>3. CASE i + 1 > k
      <4>1. ~(i < k)
        BY <2>1, <3>3
      <4>2. CASE Carries(acc.rows, order[k])
        BY <2>2, <2>4, <4>2 DEF Carries
      <4>3. CASE Stopped(acc) /\ From(acc.rows, order, k - 1)
        BY <2>2, <2>4, <4>3
      <4> QED BY <2>2, <2>5, <4>1, <4>2, <4>3
    <3> QED BY <2>1, <3>1, <3>2, <3>3
  <2> HIDE DEF Fair
  <2> QED BY <2>1, <2>2, <2>6, <2>7
<1> HIDE DEF S
<1>5. n \in S
  <2>1. \A i \in 0..n : i \in S
    BY <1>3, <1>4, SetInductionUpTo
  <2> QED BY <2>1
<1>6. From(f[n].rows, order, n) /\ Fair(n)
  BY <1>5 DEF S
<1>7. CASE n < k
  <2>1. \A j \in 1..n : j \in 1..(k - 1)
    BY <1>7
  <2> QED BY <1>2, <1>6, <2>1 DEF From
<1>8. CASE ~(n < k)
  BY <1>2, <1>6, <1>8
<1> QED BY <1>7, <1>8

\* A conversation that precedes an owed one with a row to deliver is owed, and
\* for at least as long.
LEMMA PrecedesOwed ==
    ASSUME Typed, NEW ob \in Obligations, Honest(ob.cursor, {}), NEW chain, ChainOk(chain),
           NEW c \in Conversations, NEW d \in Conversations, Precedes(ob, chain, d, c),
           IsOwed(ob, c), LowerBound(ob, c, chain.read[c]) < MaxSeq
    PROVE  IsOwed(ob, d) /\ Lowest(ob, chain, d) <= Lowest(ob, chain, c)
<1>1. ASSUME NEW e \in Conversations
      PROVE  /\ Lowest(ob, chain, e) \in Nat
             /\ LowerBound(ob, e, chain.read[e]) < MaxSeq => Lowest(ob, chain, e) <= MaxSeq
  <2>1. PICK from : from = LowerBound(ob, e, chain.read[e])
    OBVIOUS
  <2>2. from \in 0..MaxSeq
    BY <2>1, LowerBoundPaid
  <2>3. chain.first[e] \in Nat /\ chain.first[e] <= MaxSeq
    BY CursorFacts DEF ChainOk
  <2>4. MaxSeq \in Nat
    BY Basics
  <2>5. Lowest(ob, chain, e) = IF chain.first[e] >= from + 1 THEN chain.first[e] ELSE from + 1
    <3>1. from + 1 \in Int /\ chain.first[e] \in Int
      BY <2>2, <2>3, <2>4
    <3> QED BY <2>1, <3>1, MaxOfTwo DEF Lowest
  <2> QED BY <2>1, <2>2, <2>3, <2>4, <2>5
<1>2. PICK m, n : m = Lowest(ob, chain, c) /\ n = Lowest(ob, chain, d)
  OBVIOUS
<1>3. m \in Nat /\ n \in Nat /\ m <= MaxSeq /\ MaxSeq \in Nat
  BY <1>1, <1>2, Basics
<1>4. (IF IsOwed(ob, d) THEN n ELSE MaxSeq + 1) < m \/ (IF IsOwed(ob, d) THEN n ELSE MaxSeq + 1) = m
  BY <1>2 DEF Precedes
<1> QED BY <1>2, <1>3, <1>4

\* The batch of a start leaves out an owed conversation only for conversations
\* owed for at least as long.
LEMMA BuildOwedFirst ==
    ASSUME Typed, InOrder, NEW ob \in Obligations, Honest(ob.cursor, {}),
           NEW chain, ChainOk(chain), NEW order \in Candidates(ob, chain), NEW l,
           NEW s \in committed \ Hidden, IsOwed(ob, ConversationOf[s]),
           LowerBound(ob, ConversationOf[s], chain.read[ConversationOf[s]]) < s,
           s <= chain.latest[ConversationOf[s]],
           ~Carries(Build(ob, chain, l, order).rows, ConversationOf[s]),
           NEW r \in Build(ob, chain, l, order).rows
    PROVE  /\ IsOwed(ob, ConversationOf[r])
           /\ Lowest(ob, chain, ConversationOf[r]) <= Lowest(ob, chain, ConversationOf[s])
<1> DEFINE n == IF Len(order) > MaxCandidates THEN MaxCandidates ELSE Len(order)
<1>1. PICK c : c = ConversationOf[s]
  OBVIOUS
<1>2. s \in Seqs /\ s \in Nat /\ s <= MaxSeq /\ MaxSeq \in Nat /\ c \in Conversations
  <2>1. s \in Seqs
    BY DEF Typed
  <2>2. s \in Nat /\ s <= MaxSeq /\ MaxSeq \in Nat
    BY <2>1, Basics
  <2>3. c \in Conversations
    BY <1>1, <2>1, InboxFacts
  <2> QED BY <2>1, <2>2, <2>3
<1>3. PICK from : from = LowerBound(ob, c, chain.read[c])
  OBVIOUS
<1>4. from \in Nat /\ from < s /\ chain.latest[c] \in Nat
  <2>1. from \in 0..MaxSeq
    BY <1>2, <1>3, LowerBoundPaid
  <2>2. chain.latest[c] \in Nat
    BY <1>2, CursorFacts DEF ChainOk
  <2> QED BY <1>1, <1>2, <1>3, <2>1, <2>2
<1>5. c \in Above(ob, chain)
  <2>1. chain.latest[c] > from
    BY <1>1, <1>2, <1>4
  <2> QED BY <1>2, <1>3, <2>1 DEF Above
<1>6. PICK k \in 1..Len(order) : order[k] = c
  BY <1>5, OrderFacts
<1>7. /\ Len(order) \in Nat /\ k \in Nat \ {0}
      /\ \A i \in 1..Len(order) : order[i] \in Conversations
  BY <1>6, OrderFacts DEF Above
<1>8. n \in Nat /\ \A i \in 1..n : i \in 1..Len(order)
  BY <1>7, Basics
<1>9. Build(ob, chain, l, order).rows = Fetched(ob, chain, order, n).rows
  BY DEF Build
<1> HIDE DEF n
<1>10. Deliverable(ob, chain, order[k])
  <2>1. s \in RowsOf(c) \ Hidden
    BY <1>1 DEF RowsOf
  <2> QED BY <1>3, <1>4, <1>6, <2>1 DEF Deliverable
<1>11. From(Fetched(ob, chain, order, n).rows, order, k - 1)
  <2>1. \A i \in 1..n : order[i] \in Conversations
    BY <1>7, <1>8
  <2>2. ~Carries(Fetched(ob, chain, order, n).rows, order[k])
    BY <1>1, <1>6, <1>9
  <2> QED BY <1>7, <1>8, <1>10, <2>1, <2>2, FetchedInOrder
<1>12. PICK j \in 1..(k - 1) : ConversationOf[r] = order[j]
  BY <1>9, <1>11 DEF From
<1>13. j \in 1..Len(order) /\ j < k
  BY <1>6, <1>7
<1>14. Precedes(ob, chain, order[j], c) /\ order[j] \in Conversations
  BY <1>6, <1>7, <1>13, OrderFacts
<1>15. from < MaxSeq
  BY <1>2, <1>4
<1> QED BY <1>1, <1>2, <1>3, <1>12, <1>14, <1>15, PrecedesOwed

-----------------------------------------------------------------------------
(* Raising and settling the obligation. *)

LEMMA ObligationFacts ==
    ASSUME NEW o \in Obligations
    PROVE  /\ o # NoObligation /\ o.owed \in Cursors /\ o.cursor \in Cursors
           /\ o.overflow \in BOOLEAN /\ o.pending \in Batches \cup {NoBatch}
           /\ OwedConversations(o) \subseteq Conversations /\ IsFiniteSet(OwedConversations(o))
           /\ Cardinality(OwedConversations(o)) \in Nat
<1>1. o # NoObligation
  <2>1. "owed" \in DOMAIN o
    BY DEF Obligations
  <2>2. DOMAIN NoObligation = {"none"}
    BY DEF NoObligation
  <2>3. "owed" \notin {"none"}
    OBVIOUS
  <2> QED BY <2>1, <2>2, <2>3
<1>2. OwedConversations(o) \subseteq Conversations
  BY DEF OwedConversations
<1>3. IsFiniteSet(OwedConversations(o))
  BY <1>2, Basics, FS_Subset
<1>4. Cardinality(OwedConversations(o)) \in Nat
  BY <1>3, FS_CardinalityType
<1>5. /\ o.owed \in Cursors /\ o.cursor \in Cursors
      /\ o.overflow \in BOOLEAN /\ o.pending \in Batches \cup {NoBatch}
  BY DEF Obligations
<1> QED BY <1>1, <1>2, <1>3, <1>4, <1>5

\* Raising only adds to what is owed, and never past the bound.
LEMMA RaisedFacts ==
    ASSUME NEW ob \in Obligations, Cardinality(OwedConversations(ob)) <= OwedMax,
           NEW ceilings \in Cursors, NEW o \in Raised(ob, ceilings)
    PROVE  /\ o \in Obligations /\ o.cursor = ob.cursor /\ o.pending = ob.pending
           /\ \A c \in Conversations : ob.owed[c] <= o.owed[c]
           /\ Cardinality(OwedConversations(o)) <= OwedMax
<1> DEFINE fresh == {c \in Conversations : ceilings[c] # 0 /\ ob.owed[c] = 0}
           free == OwedMax - Cardinality(OwedConversations(ob))
           owed(kept) == [c \in Conversations |->
                             IF c \in fresh \ kept \/ ceilings[c] < ob.owed[c]
                             THEN ob.owed[c] ELSE ceilings[c]]
<1>1. PICK kept \in SUBSET fresh :
         /\ Cardinality(kept) = Min({free, Cardinality(fresh)})
         /\ o = [ob EXCEPT !.owed = owed(kept), !.overflow = @ \/ kept # fresh]
  BY DEF Raised
<1>2. /\ ob.owed \in Cursors /\ ob.cursor \in Cursors /\ ob.overflow \in BOOLEAN
      /\ ob.pending \in Batches \cup {NoBatch}
      /\ IsFiniteSet(OwedConversations(ob)) /\ Cardinality(OwedConversations(ob)) \in Nat
  BY ObligationFacts
<1>3. \A c \in Conversations : ob.owed[c] \in 0..MaxSeq /\ ceilings[c] \in 0..MaxSeq
  BY <1>2, CursorFacts
<1>4. fresh \subseteq Conversations /\ kept \subseteq Conversations
  OBVIOUS
<1>5. \A c \in kept : ceilings[c] # 0 /\ ob.owed[c] = 0
  OBVIOUS
<1>6. \A c \in Conversations : c \in fresh <=> (ceilings[c] # 0 /\ ob.owed[c] = 0)
  OBVIOUS
<1> HIDE DEF fresh
<1> DEFINE w == owed(kept)
<1>7. /\ w \in Cursors
      /\ \A c \in Conversations : w[c] = IF c \in fresh \ kept \/ ceilings[c] < ob.owed[c]
                                         THEN ob.owed[c] ELSE ceilings[c]
  BY <1>3 DEF Cursors
<1> HIDE DEF w, owed
<1>8. o \in Obligations /\ o.owed = w /\ o.cursor = ob.cursor /\ o.pending = ob.pending
  <2>1. ob \in [owed : Cursors, overflow : BOOLEAN, cursor : Cursors, pending : Batches \cup {NoBatch}]
    BY DEF Obligations
  <2>2. (ob.overflow \/ kept # fresh) \in BOOLEAN
    OBVIOUS
  <2>3. o = [ob EXCEPT !.owed = w, !.overflow = ob.overflow \/ kept # fresh]
    BY <1>1 DEF w
  <2> QED BY <1>7, <2>1, <2>2, <2>3 DEF Obligations
<1>9. \A c \in Conversations : ob.owed[c] <= o.owed[c]
  <2> SUFFICES ASSUME NEW c \in Conversations PROVE ob.owed[c] <= w[c]
    BY <1>8
  <2>1. CASE c \in fresh \ kept \/ ceilings[c] < ob.owed[c]
    <3>1. w[c] = ob.owed[c] /\ ob.owed[c] \in Int
      BY <1>3, <1>7, <2>1, Basics
    <3> QED BY <3>1
  <2>2. CASE ~(c \in fresh \ kept \/ ceilings[c] < ob.owed[c])
    <3>1. w[c] = ceilings[c] /\ ob.owed[c] \in Int /\ ceilings[c] \in Int /\ ~(ceilings[c] < ob.owed[c])
      BY <1>3, <1>7, <2>2, Basics
    <3> QED BY <3>1
  <2> QED BY <2>1, <2>2
<1>10. OwedConversations(o) \subseteq OwedConversations(ob) \cup kept
  <2> SUFFICES ASSUME NEW c \in Conversations, w[c] # 0, ob.owed[c] = 0, c \notin kept PROVE FALSE
    BY <1>8 DEF OwedConversations
  <2>1. ceilings[c] # 0
    BY <1>7
  <2>2. c \in fresh \ kept
    BY <1>6, <2>1
  <2> QED BY <1>7, <2>2
<1>11. Cardinality(OwedConversations(o)) <= OwedMax
  <2>1. IsFiniteSet(kept) /\ IsFiniteSet(fresh)
    BY <1>4, Basics, FS_Subset
  <2>2. Cardinality(kept) \in Nat /\ Cardinality(fresh) \in Nat
    BY <2>1, FS_CardinalityType
  <2>3. free \in Int
    BY <1>2, Basics
  <2>4. Cardinality(kept) <= free
    <3> HIDE DEF free
    <3>1. Min({free, Cardinality(fresh)}) = IF free <= Cardinality(fresh) THEN free ELSE Cardinality(fresh)
      BY <2>2, <2>3, MinOfTwo
    <3> QED BY <1>1, <2>2, <2>3, <3>1
  <2> DEFINE u == OwedConversations(ob) \cup kept
             x == OwedConversations(ob) \cap kept
  <2>5. IsFiniteSet(u) /\ Cardinality(u) = Cardinality(OwedConversations(ob)) + Cardinality(kept) - Cardinality(x)
    BY <1>2, <2>1, FS_Union
  <2>6. Cardinality(x) \in Nat
    <3>1. IsFiniteSet(x)
      BY <2>1, FS_Intersection
    <3> QED BY <3>1, FS_CardinalityType
  <2>7. Cardinality(OwedConversations(o)) <= Cardinality(u)
    BY <1>10, <2>5, FS_Subset
  <2>8. Cardinality(OwedConversations(o)) \in Nat
    BY <1>8, ObligationFacts
  <2> HIDE DEF u, x
  <2> QED BY <1>2, <2>2, <2>4, <2>5, <2>6, <2>7, <2>8, Basics
<1> QED BY <1>8, <1>9, <1>11

LEMMA RaisedUnknownFacts ==
    ASSUME NEW ob \in Obligations
    PROVE  /\ RaisedUnknown(ob) \in Obligations /\ RaisedUnknown(ob).cursor = ob.cursor
           /\ RaisedUnknown(ob).owed = ob.owed /\ RaisedUnknown(ob).pending = ob.pending
BY DEF RaisedUnknown, Obligations

\* No obligation owes nothing.
LEMMA EmptyFacts ==
    ASSUME Typed
    PROVE  ObligationOk(EmptyObligation) /\ \A c \in Conversations : EmptyObligation.owed[c] = 0
<1>1. EmptyObligation \in Obligations
  BY Basics DEF EmptyObligation, Obligations
<1>2. /\ EmptyObligation.owed = NoSeq /\ EmptyObligation.cursor = NoSeq
      /\ EmptyObligation.pending = NoBatch
  BY DEF EmptyObligation
<1>3. OwedConversations(EmptyObligation) = {}
  BY <1>2, Basics DEF OwedConversations
<1>4. Honest(NoSeq, {})
  BY NoSeqHonest
<1>5. PendingOk(NoBatch)
  BY DEF PendingOk, NoBatch
<1>6. Cardinality(OwedConversations(EmptyObligation)) <= OwedMax
  BY <1>3, FS_EmptySet, Basics
<1> QED BY <1>1, <1>2, <1>4, <1>5, <1>6, Basics DEF ObligationOk

\* Cursors no higher than honest ones are honest.
LEMMA HonestUnder ==
    ASSUME Typed, NEW rows, NEW a \in Cursors, NEW b \in Cursors, NEW new \in Cursors,
           \A c \in Conversations : new[c] <= a[c] \/ new[c] <= b[c],
           Honest(a, rows), Honest(b, rows)
    PROVE  Honest(new, rows)
<1> SUFFICES ASSUME CommitInOrder
             PROVE  /\ \A c \in Conversations, s \in Seqs \ committed : new[c] < s
                    /\ \A s \in committed \ Hidden :
                          s <= new[ConversationOf[s]] => Paid(s) \/ s \in rows
  BY DEF Honest
<1>0. \A c \in Conversations : a[c] \in Nat /\ b[c] \in Nat /\ new[c] \in Nat
  BY CursorFacts
<1>1. ASSUME NEW c \in Conversations, NEW s \in Seqs \ committed PROVE new[c] < s
  <2>1. a[c] < s /\ b[c] < s
    BY DEF Honest
  <2>2. new[c] <= a[c] \/ new[c] <= b[c]
    OBVIOUS
  <2>3. a[c] \in Nat /\ b[c] \in Nat /\ new[c] \in Nat /\ s \in Nat
    BY <1>0, Basics
  <2> QED BY <2>1, <2>2, <2>3
<1>2. ASSUME NEW s \in committed \ Hidden, s <= new[ConversationOf[s]] PROVE Paid(s) \/ s \in rows
  <2> DEFINE c == ConversationOf[s]
  <2>0. c \in Conversations /\ s \in Nat
    BY InboxFacts, Basics DEF Typed
  <2>1. (s <= a[c] \/ s <= b[c]) => Paid(s) \/ s \in rows
    BY DEF Honest
  <2>2. s <= new[c]
    BY <1>2
  <2> HIDE DEF c
  <2>3. new[c] <= a[c] \/ new[c] <= b[c]
    BY <2>0
  <2>4. s <= a[c] \/ s <= b[c]
    BY <1>0, <2>0, <2>2, <2>3
  <2> QED BY <2>1, <2>4
<1> QED BY <1>1, <1>2

LEMMA ReadHonest == ASSUME Typed PROVE Honest(read, {})
BY DEF Typed, Below, Honest, Paid

\* Rows that were rendered need no naming.
LEMMA HonestRendered ==
    ASSUME NEW cursors, NEW rows, rows \subseteq rendered', Honest(cursors, rows)'
    PROVE  Honest(cursors, {})'
BY DEF Honest, Paid

\* An obligation that is settled has every row under its ceilings paid.
LEMMA SettledFacts ==
    ASSUME Typed, Typed', Monotone, NEW o \in Obligations, Honest(o.cursor, {})',
           NEW s \in committed' \ Hidden, s <= o.owed[ConversationOf[s]], CommitInOrder,
           SettledOrKept(o) # o
    PROVE  Paid(s)'
<1> DEFINE c == ConversationOf[s]
<1>1. Settled(o)
  BY DEF SettledOrKept
<1>2. s \in Seqs /\ s \in Nat /\ c \in Conversations /\ ConversationOf' = ConversationOf /\ Hidden' = Hidden
  <2>1. s \in Seqs
    BY DEF Typed
  <2> QED BY <2>1, InboxFacts, Basics DEF Monotone, ConversationOf, Hidden
<1>3. o.cursor[c] \in Nat /\ o.owed[c] \in Nat
  BY <1>2, ObligationFacts, CursorFacts
<1>4. s <= o.owed[c] /\ s > 0
  BY <1>2, Basics
<1>5. s \in committed' \ Hidden' /\ (s <= o.cursor[c] => Paid(s)')
  <2>1. s \in committed' \ Hidden' /\ ConversationOf'[s] = c
    BY <1>2
  <2> QED BY <2>1 DEF Honest
<1> HIDE DEF c
<1>6. o.owed[c] = 0 \/ o.cursor[c] >= o.owed[c]
  BY <1>1, <1>2 DEF Settled, ConversationFulfilled
<1>7. s <= o.cursor[c]
  BY <1>2, <1>3, <1>4, <1>6
<1> QED BY <1>5, <1>7

-----------------------------------------------------------------------------
(* One lemma per action. *)

\* What a step owes by name it still owes, or it is paid.
OwedKept ==
    \A s \in debt : CommitInOrder /\ obligation # NoObligation
                    /\ obligation.owed[ConversationOf[s]] >= s =>
        \/ Paid(s)'
        \/ obligation' # NoObligation /\ obligation'.owed[ConversationOf[s]] >= s

LEMMA DebtKeeps ==
    ASSUME IInv, Typed', Monotone, debt' = debt, OwedKept
    PROVE  DebtOk'
<1>0. Typed /\ committed \subseteq committed' /\ Hidden' = Hidden /\ ConversationOf' = ConversationOf
  BY DEF IInv, Monotone, Hidden, ConversationOf
<1> SUFFICES ASSUME NEW s \in debt
             PROVE  /\ s \in committed' \ Hidden'
                    /\ CommitInOrder =>
                          (Paid(s)' \/ (obligation' # NoObligation /\ obligation'.owed[ConversationOf'[s]] >= s))
  BY DEF DebtOk
<1>1. /\ s \in committed \ Hidden
      /\ CommitInOrder =>
            (Paid(s) \/ (obligation # NoObligation /\ obligation.owed[ConversationOf[s]] >= s))
  BY DEF IInv, DebtOk
<1>2. Paid(s) => Paid(s)'
  BY <1>0, <1>1, PaidStays
<1> QED BY <1>0, <1>1, <1>2 DEF OwedKept

\* A step that changes a start or the obligation answers for what it writes.
LEMMA StepKeeps ==
    ASSUME IInv, Typed', InOrder', Monotone, DebtOk',
           \A l \in Launches : start'[l] = start[l] \/ StartOk(start[l], l)',
           obligation' = obligation \/ obligation' = NoObligation \/ ObligationOk(obligation)'
    PROVE  IInv'
<1>1. ASSUME NEW l \in Launches PROVE StartOk(start[l], l)'
  <2>1. CASE start'[l] = start[l]
    <3>1. PICK x : x = start[l]
      OBVIOUS
    <3>2. StartOk(x, l)
      BY <3>1 DEF IInv
    <3>3. StartOk(x, l)'
      BY <3>2, StartStays DEF IInv
    <3> QED BY <2>1, <3>1, <3>3
  <2> QED BY <2>1
<1>2. obligation' = NoObligation \/ ObligationOk(obligation)'
  <2>1. CASE obligation' = obligation /\ obligation # NoObligation
    <3>1. PICK o : o = obligation
      OBVIOUS
    <3>2. ObligationOk(o)
      BY <2>1, <3>1 DEF IInv
    <3>3. ObligationOk(o)'
      BY <3>2, ObligationStays DEF IInv
    <3> QED BY <2>1, <3>1, <3>3
  <2> QED BY <2>1
<1> QED BY <1>1, <1>2 DEF IInv

\* The record a step reads, as if it were never absent.
LEMMA ObFacts ==
    ASSUME IInv
    PROVE  /\ ObligationOk(Ob)
           /\ obligation # NoObligation => Ob = obligation
           /\ obligation = NoObligation => \A c \in Conversations : Ob.owed[c] = 0
BY EmptyFacts DEF IInv, Ob

LEMMA PostMessageKeeps == ASSUME IInv, NEW s \in Seqs, PostMessage(s) PROVE IInv'
<1> USE DEF PostMessage, ghosts
<1>1. Monotone
  <2>1. \A c \in Conversations : read[c] \in Nat
    BY CursorFacts DEF IInv, Typed
  <2> QED BY <2>1 DEF Monotone
<1>2. InOrder'
  <2> SUFFICES ASSUME CommitInOrder, NEW r \in committed', NEW t \in Seqs \ committed' PROVE r < t
    BY DEF InOrder
  <2>1. t \in Seqs \ committed /\ t # s /\ t \in Nat /\ s \in Nat
    BY Basics
  <2>2. CASE r \in committed
    BY <2>1, <2>2 DEF IInv, InOrder
  <2>3. CASE r = s
    <3>1. 1..(s - 1) \subseteq committed
      OBVIOUS
    <3>2. t \notin 1..(s - 1) /\ t >= 1
      BY <2>1, <3>1, Basics
    <3> QED BY <2>1, <2>3, <3>2
  <2> QED BY <2>2, <2>3
<1>3. Typed'
  <2>1. Below(read)'
    BY DEF IInv, Typed, Below
  <2> QED BY <2>1 DEF IInv, Typed
<1>4. DebtOk'
  <2>1. OwedKept
    BY DEF OwedKept
  <2> QED BY <1>1, <1>3, <2>1, DebtKeeps
<1> QED BY <1>1, <1>2, <1>3, <1>4, StepKeeps

LEMMA AdvanceReadCursorKeeps == ASSUME IInv, NEW s \in Seqs, AdvanceReadCursor(s) PROVE IInv'
<1> USE DEF AdvanceReadCursor, ghosts
<1> DEFINE d == ConversationOf[s]
<1>0. d \in Conversations /\ s \in Nat /\ s \in 0..MaxSeq /\ read \in Cursors /\ s \in committed
  BY InboxFacts, Basics DEF IInv, Typed
<1>a. s > read[d] /\ read' = [read EXCEPT ![d] = s]
  OBVIOUS
<1> HIDE DEF d
<1>b. read' \in Cursors /\ \A c \in Conversations : read'[c] = IF c = d THEN s ELSE read[c]
  BY <1>0, <1>a DEF Cursors
<1>1. Monotone
  <2>1. \A c \in Conversations : read[c] \in Nat
    BY <1>0, CursorFacts
  <2>2. ASSUME NEW c \in Conversations PROVE read[c] <= read'[c]
    BY <1>0, <1>a, <1>b, <2>1
  <2> QED BY <2>2 DEF Monotone
<1>2. InOrder'
  BY DEF IInv, InOrder
<1>3. Typed'
  <2>1. Below(read)'
    <3> SUFFICES ASSUME CommitInOrder, NEW c \in Conversations, NEW t \in Seqs \ committed PROVE read'[c] < t
      BY DEF Below
    <3>1. s < t /\ read[c] < t
      BY <1>0 DEF IInv, InOrder, Typed, Below
    <3> QED BY <1>b, <3>1
  <2> QED BY <1>b, <2>1 DEF IInv, Typed
<1>4. DebtOk'
  <2>1. OwedKept
    BY DEF OwedKept
  <2> QED BY <1>1, <1>3, <2>1, DebtKeeps
<1> QED BY <1>1, <1>2, <1>3, <1>4, StepKeeps

\* Steps that only move which launch is current or bound.
LEMMA LaunchesKeep ==
    ASSUME IInv, UNCHANGED <<inbox, committed, read, obligation, start, ghosts>>,
           current' \in Launches \cup {NoLaunch}, bound' \in Launches \cup {NoLaunch}
    PROVE  IInv'
<1>1. Monotone
  <2>1. \A c \in Conversations : read[c] \in Nat
    BY CursorFacts DEF IInv, Typed
  <2> QED BY <2>1 DEF Monotone, ghosts
<1>2. InOrder'
  BY DEF IInv, InOrder
<1>3. Typed'
  <2>1. Below(read)'
    BY DEF IInv, Typed, Below
  <2> QED BY <2>1 DEF IInv, Typed, ghosts
<1>4. DebtOk'
  <2>1. OwedKept
    BY DEF OwedKept
  <2> QED BY <1>1, <1>3, <2>1, DebtKeeps DEF ghosts
<1> QED BY <1>1, <1>2, <1>3, <1>4, StepKeeps

\* The obligation of a step that raises it.
RaisedTo(o) ==
    /\ o \in Obligations /\ o.cursor = Ob.cursor /\ o.pending = Ob.pending
    /\ \A c \in Conversations : Ob.owed[c] <= o.owed[c]
    /\ Cardinality(OwedConversations(o)) <= OwedMax

\* Raising keeps what is owed, and what is newly owed is under its ceiling.
LEMMA RaisingKeeps ==
    ASSUME IInv, UNCHANGED <<inbox, committed, read, start, rendered>>,
           current' \in Launches \cup {NoLaunch}, bound' \in Launches \cup {NoLaunch},
           NEW o, o = obligation', RaisedTo(o),
           NEW new, new \subseteq committed \ Hidden, Owe(new)
    PROVE  IInv'
<1>0. Typed /\ ConversationOf' = ConversationOf /\ Hidden' = Hidden
  BY DEF IInv, ConversationOf, Hidden
<1>1. Monotone
  <2>1. \A c \in Conversations : read[c] \in Nat
    BY CursorFacts DEF IInv, Typed
  <2> QED BY <2>1 DEF Monotone
<1>2. InOrder'
  BY DEF IInv, InOrder
<1>3. Typed'
  <2>1. Below(read)'
    BY DEF IInv, Typed, Below
  <2> QED BY <2>1 DEF IInv, Typed
<1>4. o # NoObligation /\ o.owed \in Cursors /\ Ob.owed \in Cursors
  BY ObFacts, ObligationFacts DEF RaisedTo, ObligationOk
<1>5. ObligationOk(obligation)'
  <2>1. ObligationOk(o)
    BY ObFacts DEF RaisedTo, ObligationOk
  <2>2. ObligationOk(o)'
    BY <1>0, <1>1, <1>3, <2>1, ObligationStays
  <2> QED BY <2>2
<1>6. DebtOk'
  <2> SUFFICES ASSUME NEW s \in debt'
               PROVE  /\ s \in committed \ Hidden
                      /\ CommitInOrder => (Paid(s)' \/ o.owed[ConversationOf[s]] >= s)
    BY <1>0, <1>4 DEF DebtOk
  <2>1. CASE s \in debt
    <3>1. s \in committed \ Hidden
      BY <2>1 DEF IInv, DebtOk
    <3>2. s \in Nat /\ ConversationOf[s] \in Conversations
      BY <1>0, <3>1, InboxFacts, Basics DEF Typed
    <3>3. ASSUME Paid(s) PROVE Paid(s)'
      BY <1>0, <1>1, <1>3, <3>1, <3>3, PaidStays
    <3>4. ASSUME obligation # NoObligation, obligation.owed[ConversationOf[s]] >= s
          PROVE  o.owed[ConversationOf[s]] >= s
      <4> DEFINE c == ConversationOf[s]
      <4>1. Ob.owed[c] >= s
        BY <3>4, ObFacts
      <4>2. c \in Conversations
        BY <3>2
      <4> HIDE DEF c
      <4>3. Ob.owed[c] <= o.owed[c] /\ Ob.owed[c] \in Nat /\ o.owed[c] \in Nat
        BY <1>4, <4>2, CursorFacts DEF RaisedTo
      <4>4. o.owed[c] >= s
        BY <3>2, <4>1, <4>3
      <4> QED BY <4>4 DEF c
    <3> QED BY <2>1, <3>1, <3>3, <3>4 DEF IInv, DebtOk
  <2>2. CASE s \notin debt
    <3>1. s \in new /\ obligation'.owed[ConversationOf[s]] >= s
      BY <2>2 DEF Owe
    <3> QED BY <3>1
  <2> QED BY <2>1, <2>2
<1> QED BY <1>1, <1>2, <1>3, <1>5, <1>6, StepKeeps

LEMMA RaisedIs ==
    ASSUME IInv, NEW ceilings \in Cursors, NEW o \in Raised(Ob, ceilings)
    PROVE  RaisedTo(o)
<1>1. PICK ob : ob = Ob
  OBVIOUS
<1>2. ob \in Obligations /\ Cardinality(OwedConversations(ob)) <= OwedMax
  BY <1>1, ObFacts DEF ObligationOk
<1>3. o \in Raised(ob, ceilings)
  BY <1>1
<1> QED BY <1>1, <1>2, <1>3, RaisedFacts DEF RaisedTo

LEMMA RaisedUnknownIs == ASSUME IInv PROVE RaisedTo(RaisedUnknown(Ob))
<1>1. PICK ob : ob = Ob
  OBVIOUS
<1>2. ob \in Obligations /\ Cardinality(OwedConversations(ob)) <= OwedMax
  BY <1>1, ObFacts DEF ObligationOk
<1> DEFINE o == RaisedUnknown(ob)
<1>3. o \in Obligations /\ o.cursor = ob.cursor /\ o.owed = ob.owed /\ o.pending = ob.pending
  BY <1>2, RaisedUnknownFacts
<1>4. o = RaisedUnknown(Ob)
  BY <1>1
<1> HIDE DEF o
<1>5. OwedConversations(o) = OwedConversations(ob)
  BY <1>3 DEF OwedConversations
<1>6. \A c \in Conversations : ob.owed[c] \in Nat
  BY <1>2, ObligationFacts, CursorFacts
<1>7. RaisedTo(o)
  BY <1>1, <1>2, <1>3, <1>5, <1>6 DEF RaisedTo
<1> QED BY <1>4, <1>7

LEMMA RefuseWakeKeeps == ASSUME IInv, NEW s \in Seqs, RefuseWake(s) PROVE IInv'
<1> DEFINE c == ConversationOf[s]
<1>0. s \in committed /\ s \notin Hidden /\ Owe({s}) /\ c \in Conversations /\ s \in Nat /\ s \in 0..MaxSeq /\ s > 0
      /\ UNCHANGED <<inbox, committed, read, current, bound, start, rendered>>
  BY InboxFacts, Basics DEF RefuseWake, IInv
<1>1. \/ obligation' \in Raised(Ob, [NoSeq EXCEPT ![c] = s])
      \/ obligation' = obligation /\ ~(Ob.owed[c] < s)
  BY DEF RefuseWake
<1> HIDE DEF c
<1>2. PICK o : o = obligation'
  OBVIOUS
<1>3. RaisedTo(o)
  <2>1. CASE obligation' \in Raised(Ob, [NoSeq EXCEPT ![c] = s])
    <3>1. [NoSeq EXCEPT ![c] = s] \in Cursors
      BY <1>0, Basics DEF Cursors
    <3> QED BY <1>2, <2>1, <3>1, RaisedIs
  <2>2. CASE obligation' = obligation /\ ~(Ob.owed[c] < s)
    <3>1. obligation # NoObligation
      BY <1>0, <2>2, ObFacts
    <3>2. o = Ob
      BY <1>2, <2>2, <3>1, ObFacts
    <3>3. o \in Obligations /\ Cardinality(OwedConversations(o)) <= OwedMax
      BY <3>2, ObFacts DEF ObligationOk
    <3>4. \A d \in Conversations : o.owed[d] \in Nat
      BY <3>3, ObligationFacts, CursorFacts
    <3> QED BY <3>2, <3>3, <3>4 DEF RaisedTo
  <2> QED BY <1>1, <2>1, <2>2
<1>4. current' \in Launches \cup {NoLaunch} /\ bound' \in Launches \cup {NoLaunch}
  BY <1>0 DEF IInv, Typed
<1> QED BY <1>0, <1>2, <1>3, <1>4, RaisingKeeps

\* The latest unread row of each conversation.
LEMMA LatestFacts ==
    ASSUME Typed, InOrder
    PROVE  LET latest == [c \in Conversations |-> LatestUnread(c)]
           IN  latest \in Cursors /\ Below(latest)
<1> DEFINE latest == [c \in Conversations |-> LatestUnread(c)]
<1>1. ASSUME NEW c \in Conversations
      PROVE  LatestUnread(c) \in 0..MaxSeq /\ (LatestUnread(c) = 0 \/ LatestUnread(c) \in committed)
  <2>1. Unread(c) \subseteq committed /\ Unread(c) \subseteq Seqs
    BY DEF Unread, RowsOf, Typed
  <2>2. CASE Unread(c) = {}
    BY <2>2, Basics DEF LatestUnread
  <2>3. CASE Unread(c) # {}
    <3>1. Max(Unread(c)) \in Unread(c)
      BY <2>1, <2>3, MaxOfSet
    <3>2. LatestUnread(c) = Max(Unread(c))
      BY <2>3 DEF LatestUnread
    <3>3. LatestUnread(c) \in committed /\ LatestUnread(c) \in Seqs
      BY <2>1, <3>1, <3>2
    <3> QED BY <3>3, Basics
  <2> QED BY <2>2, <2>3
<1>2. latest \in Cursors /\ \A c \in Conversations : latest[c] = LatestUnread(c)
  BY <1>1 DEF Cursors
<1> HIDE DEF latest
<1>3. Below(latest)
  <2> SUFFICES ASSUME CommitInOrder, NEW c \in Conversations, NEW s \in Seqs \ committed PROVE latest[c] < s
    BY DEF Below
  <2>1. CASE latest[c] = 0
    BY <2>1, Basics
  <2>2. CASE latest[c] \in committed
    BY <2>2 DEF InOrder
  <2> QED BY <1>1, <1>2, <2>1, <2>2
<1> QED BY <1>2, <1>3 DEF latest

LEMMA BreakerOpensKeeps == ASSUME IInv, BreakerOpens PROVE IInv'
<1>1. PICK o : o = obligation'
  OBVIOUS
<1>2. RaisedTo(o)
  <2>1. CASE obligation' \in Raised(Ob, [c \in Conversations |-> LatestUnread(c)])
    BY <1>1, <2>1, LatestFacts, RaisedIs DEF IInv
  <2>2. CASE obligation' = RaisedUnknown(Ob)
    BY <1>1, <2>2, RaisedUnknownIs
  <2> QED BY <2>1, <2>2 DEF BreakerOpens
<1> DEFINE new == {s \in UNION {Unread(c) : c \in Conversations} : s \notin Hidden}
<1>3. new \subseteq committed \ Hidden
  <2>1. \A c \in Conversations : Unread(c) \subseteq committed
    BY DEF Unread, RowsOf
  <2> QED BY <2>1
<1>4. Owe(new)
  BY DEF BreakerOpens
<1> HIDE DEF new
<1>5. /\ current' \in Launches \cup {NoLaunch} /\ bound' \in Launches \cup {NoLaunch}
      /\ UNCHANGED <<inbox, committed, read, start, rendered>>
  BY DEF BreakerOpens, IInv, Typed
<1> QED BY <1>1, <1>2, <1>3, <1>4, <1>5, RaisingKeeps

LEMMA RecordUnreadableKeeps == ASSUME IInv, RecordUnreadable PROVE IInv'
<1> USE DEF RecordUnreadable
<1>0. Typed
  BY DEF IInv
<1>1. Monotone
  <2>1. \A c \in Conversations : read[c] \in Nat
    BY CursorFacts DEF IInv, Typed
  <2> QED BY <2>1 DEF Monotone
<1>2. InOrder'
  BY DEF IInv, InOrder
<1>3. Typed'
  <2>1. Below(read)'
    BY DEF IInv, Typed, Below
  <2> QED BY <2>1 DEF IInv, Typed
<1>4. PICK o : o = RaisedUnknown(EmptyObligation)
  OBVIOUS
<1>5. ObligationOk(o)
  <2>1. ObligationOk(EmptyObligation) /\ EmptyObligation \in Obligations
    BY <1>0, EmptyFacts DEF ObligationOk
  <2>2. /\ o \in Obligations /\ o.cursor = EmptyObligation.cursor
        /\ o.owed = EmptyObligation.owed /\ o.pending = EmptyObligation.pending
    BY <1>4, <2>1, RaisedUnknownFacts
  <2>3. OwedConversations(o) = OwedConversations(EmptyObligation)
    BY <2>2 DEF OwedConversations
  <2> QED BY <2>1, <2>2, <2>3 DEF ObligationOk
<1>6. ObligationOk(obligation)'
  <2>1. ObligationOk(o)'
    BY <1>0, <1>1, <1>3, <1>5, ObligationStays
  <2> QED BY <1>4, <2>1
<1>7. DebtOk'
  BY DEF DebtOk
<1> QED BY <1>1, <1>2, <1>3, <1>6, <1>7, StepKeeps

\* A step of a start that writes nothing else.
LEMMA StartStepKeeps ==
    ASSUME IInv, NEW l \in Launches, NEW x, start' = [start EXCEPT ![l] = x], StartOk(x, l),
           start[l].phase \notin {"running", "done"},
           UNCHANGED <<inbox, committed, read, obligation, ghosts>>,
           current' \in Launches \cup {NoLaunch}, bound' \in Launches \cup {NoLaunch}
    PROVE  IInv'
<1>0. /\ Typed /\ DOMAIN start = Launches /\ DOMAIN start' = Launches /\ start'[l] = x
      /\ \A k \in Launches : k # l => start'[k] = start[k]
  BY DEF IInv, Typed
<1>1. Monotone
  <2>1. \A c \in Conversations : read[c] \in Nat
    BY CursorFacts DEF IInv, Typed
  <2> QED BY <1>0, <2>1 DEF Monotone, ghosts
<1>2. InOrder'
  BY DEF IInv, InOrder
<1>3. Typed'
  <2>1. Below(read)'
    BY DEF IInv, Typed, Below
  <2> QED BY <1>0, <2>1 DEF IInv, Typed, ghosts
<1>4. DebtOk'
  <2>1. OwedKept
    BY DEF OwedKept
  <2> QED BY <1>1, <1>3, <2>1, DebtKeeps DEF ghosts
<1>5. StartOk(x, l)'
  BY <1>0, <1>1, <1>3, StartStays
<1>6. ASSUME NEW k \in Launches PROVE start'[k] = start[k] \/ StartOk(start[k], k)'
  BY <1>0, <1>5
<1> QED BY <1>1, <1>2, <1>3, <1>4, <1>6, StepKeeps

LEMMA ReadObligationKeeps == ASSUME IInv, NEW l \in Launches, ReadObligation(l) PROVE IInv'
<1>0. /\ start[l].phase = "idle"
      /\ current' \in Launches \cup {NoLaunch} /\ bound' \in Launches \cup {NoLaunch}
      /\ UNCHANGED <<inbox, committed, read, obligation, ghosts>>
  BY DEF ReadObligation, Idle, IInv, Typed
<1>1. CASE start' = [start EXCEPT ![l] = [phase |-> "plain"]]
  <2> DEFINE x == [phase |-> "plain"]
  <2>1. StartOk(x, l)
    BY DEF StartOk, Phases
  <2>2. start' = [start EXCEPT ![l] = x]
    BY <1>1
  <2> HIDE DEF x
  <2> QED BY <1>0, <2>1, <2>2, StartStepKeeps
<1>2. CASE /\ obligation # NoObligation
           /\ start' = [start EXCEPT ![l] = [phase |-> "chain",
                                             ob |-> [obligation EXCEPT !.pending = NoBatch]]]
  <2>1. PICK o : o = [obligation EXCEPT !.pending = NoBatch]
    OBVIOUS
  <2>2. o \in Obligations /\ Honest(o.cursor, {})
    <3>1. obligation \in Obligations /\ Honest(obligation.cursor, {})
      BY <1>2 DEF IInv, ObligationOk
    <3>2. o \in Obligations /\ o.cursor = obligation.cursor
      BY <2>1, <3>1 DEF Obligations
    <3> QED BY <3>1, <3>2
  <2> DEFINE x == [phase |-> "chain", ob |-> o]
  <2>3. StartOk(x, l)
    BY <2>2 DEF StartOk, Phases
  <2>4. start' = [start EXCEPT ![l] = x]
    BY <1>2, <2>1
  <2> HIDE DEF x
  <2> QED BY <1>0, <2>3, <2>4, StartStepKeeps
<1> QED BY <1>1, <1>2 DEF ReadObligation

LEMMA ReadChainKeeps == ASSUME IInv, NEW l \in Launches, ReadChain(l) PROVE IInv'
<1>0. /\ start[l].phase = "chain" /\ l \in DOMAIN start
      /\ current' \in Launches \cup {NoLaunch} /\ bound' \in Launches \cup {NoLaunch}
      /\ UNCHANGED <<inbox, committed, read, obligation, ghosts>>
  BY DEF ReadChain, IInv, Typed
<1> DEFINE first == [c \in Conversations |-> IF Unread(c) = {} THEN 0 ELSE Min(Unread(c))]
           latest == [c \in Conversations |-> LatestUnread(c)]
<1>1. PICK chain : chain = [read |-> read, first |-> first, latest |-> latest]
  OBVIOUS
<1>2. chain.read = read /\ chain.first = first /\ chain.latest = latest
  BY <1>1
<1>7. first \in Cursors
  <2>1. ASSUME NEW c \in Conversations, Unread(c) # {} PROVE Min(Unread(c)) \in 0..MaxSeq
    <3>1. Unread(c) \subseteq Seqs
      BY DEF Unread, RowsOf, IInv, Typed
    <3> QED BY <2>1, <3>1, MinOfSet, Basics
  <2> QED BY <2>1, Basics DEF Cursors
<1>3. latest \in Cursors /\ Below(latest)
  BY LatestFacts DEF IInv
<1>4. PICK x : x = [phase |-> "rows", ob |-> start[l].ob, chain |-> chain]
  OBVIOUS
<1>5. start' = [start EXCEPT ![l] = x]
  BY <1>0, <1>1, <1>4 DEF ReadChain
<1> HIDE DEF first, latest
<1>6. StartOk(x, l)
  <2>1. start[l].ob \in Obligations /\ Honest(start[l].ob.cursor, {})
    BY <1>0 DEF IInv, StartOk
  <2>2. x.phase = "rows" /\ x.ob = start[l].ob /\ x.chain = chain
    BY <1>4
  <2>3. \A c \in Conversations : read[c] \in Nat
    BY CursorFacts DEF IInv, Typed
  <2>4. /\ {x.chain.read, x.chain.first, x.chain.latest} \subseteq Cursors
        /\ \A c \in Conversations : x.chain.read[c] <= read[c]
        /\ Below(x.chain.latest)
    BY <1>2, <1>3, <1>7, <2>2, <2>3 DEF IInv, Typed
  <2> QED BY <2>1, <2>2, <2>4 DEF StartOk, Phases
<1> QED BY <1>0, <1>5, <1>6, StartStepKeeps

LEMMA FetchRowsKeeps == ASSUME IInv, NEW l \in Launches, FetchRows(l) PROVE IInv'
<1>0. /\ start[l].phase = "rows" /\ l \in DOMAIN start
      /\ current' \in Launches \cup {NoLaunch} /\ bound' \in Launches \cup {NoLaunch}
      /\ UNCHANGED <<inbox, committed, read, obligation, ghosts>>
  BY DEF FetchRows, IInv, Typed
<1>1. PICK ob, chain : ob = start[l].ob /\ chain = start[l].chain
  OBVIOUS
<1>2. ob \in Obligations /\ Honest(ob.cursor, {}) /\ ChainOk(chain)
  BY <1>0, <1>1 DEF IInv, StartOk, ChainOk
<1> DEFINE cursors == [c \in Conversations |->
                          IF ob.owed[c] = 0 THEN 0
                          ELSE IF chain.latest[c] # 0 THEN chain.read[c] ELSE read[c]]
<1>3. PICK order \in Candidates(ob, chain) :
         start' = [start EXCEPT ![l] = [phase |-> "claim", batch |-> Build(ob, chain, l, order),
                                        cursors |-> cursors]]
  BY <1>0, <1>1 DEF FetchRows
<1>4. PICK b : b = Build(ob, chain, l, order)
  OBVIOUS
<1>5. b \in Batches /\ b.launch = l /\ b.rows \subseteq committed /\ Honest(b.coverage, b.rows)
  BY <1>2, <1>4, BuildFacts DEF IInv
<1>6. cursors \in Cursors /\ \A c \in Conversations : cursors[c] <= read[c]
  <2>1. chain.read \in Cursors /\ read \in Cursors /\ \A c \in Conversations : chain.read[c] <= read[c]
    BY <1>2 DEF ChainOk, IInv, Typed
  <2>2. \A c \in Conversations : chain.read[c] \in 0..MaxSeq /\ read[c] \in 0..MaxSeq /\ 0 \in 0..MaxSeq
    BY <2>1, CursorFacts, Basics
  <2>3. cursors \in Cursors
    BY <2>2 DEF Cursors
  <2>4. ASSUME NEW c \in Conversations PROVE cursors[c] <= read[c]
    <3>1. cursors[c] \in {0, chain.read[c], read[c]}
      OBVIOUS
    <3>2. chain.read[c] \in Nat /\ read[c] \in Nat /\ chain.read[c] <= read[c]
      BY <2>1, CursorFacts
    <3> HIDE DEF cursors
    <3> QED BY <3>1, <3>2
  <2> QED BY <2>3, <2>4
<1>7. PICK x : x = [phase |-> "claim", batch |-> b, cursors |-> cursors]
  OBVIOUS
<1>8. start' = [start EXCEPT ![l] = x]
  BY <1>3, <1>4, <1>7
<1> HIDE DEF cursors
<1>9. StartOk(x, l)
  <2>1. x.phase = "claim" /\ x.batch = b /\ x.cursors = cursors
    BY <1>7
  <2>2. x \in [phase : Phases, batch : Batches, cursors : Cursors]
    BY <1>5, <1>6, <1>7 DEF Phases
  <2> QED BY <1>5, <1>6, <2>1, <2>2 DEF StartOk, Phases
<1> QED BY <1>0, <1>8, <1>9, StartStepKeeps

LEMMA ClaimKeeps == ASSUME IInv, NEW l \in Launches, Claim(l) PROVE IInv'
<1>0. /\ start[l].phase \in {"plain", "claim"} /\ l \in DOMAIN start
      /\ current' \in Launches \cup {NoLaunch} /\ bound' \in Launches \cup {NoLaunch}
      /\ UNCHANGED <<inbox, committed, read, obligation, ghosts>>
  BY DEF Claim, IInv, Typed
<1>1. CASE start[l].phase = "plain"
  <2>1. PICK x : x = [phase |-> "running", rows |-> {}]
    OBVIOUS
  <2>2. start' = [start EXCEPT ![l] = x]
    BY <1>0, <1>1, <2>1 DEF Claim
  <2>3. StartOk(x, l)
    BY <2>1 DEF StartOk, Phases
  <2> QED BY <1>0, <2>2, <2>3, StartStepKeeps
<1>2. CASE start[l].phase = "claim"
  <2>1. PICK x : x = [start[l] EXCEPT !.phase = "record"]
    OBVIOUS
  <2>2. start' = [start EXCEPT ![l] = x]
    BY <1>0, <1>2, <2>1 DEF Claim
  <2>3. /\ start[l] \in [phase : Phases, batch : Batches, cursors : Cursors]
        /\ start[l].batch.launch = l /\ start[l].batch.rows \subseteq committed
        /\ Honest(start[l].batch.coverage, start[l].batch.rows)
        /\ \A c \in Conversations : start[l].cursors[c] <= read[c]
    BY <1>2 DEF IInv, StartOk
  <2>4. /\ x \in [phase : Phases, batch : Batches, cursors : Cursors]
        /\ x.phase = "record" /\ x.batch = start[l].batch /\ x.cursors = start[l].cursors
    BY <2>1, <2>3 DEF Phases
  <2>5. StartOk(x, l)
    BY <2>3, <2>4 DEF StartOk, Phases
  <2> QED BY <1>0, <1>2, <2>2, <2>5, StartStepKeeps
<1> QED BY <1>0, <1>1, <1>2

\* Settling by read cursors passes only rows that were read.
LEMMA SettleFacts ==
    ASSUME Typed, NEW o, ObligationOk(o), NEW cursors \in Cursors,
           \A c \in Conversations : cursors[c] <= read[c]
    PROVE  \E n : /\ ObligationOk(n) /\ n.owed = o.owed /\ n.pending = o.pending
                  /\ SettleByReadCursor(o, cursors) \in {n, SettledOrKept(n)}
<1>0. o \in Obligations /\ Honest(o.cursor, {})
  BY DEF ObligationOk
<1>1. CASE PassedByCursor(o, cursors) = {}
  BY <1>1 DEF SettleByReadCursor
<1>2. CASE PassedByCursor(o, cursors) # {}
  <2> DEFINE passed == PassedByCursor(o, cursors)
             new == [c \in Conversations |->
                        IF c \in passed THEN Max({o.cursor[c], o.owed[c]}) ELSE o.cursor[c]]
             n == [o EXCEPT !.cursor = new]
  <2>1. \A c \in passed : c \in Conversations /\ cursors[c] >= o.owed[c]
    BY DEF PassedByCursor, OwedConversations
  <2>2. SettleByReadCursor(o, cursors) = SettledOrKept(n)
    BY <1>2 DEF SettleByReadCursor
  <2> HIDE DEF passed
  <2>3. ASSUME NEW c \in Conversations
        PROVE  new[c] \in 0..MaxSeq /\ (new[c] <= o.cursor[c] \/ new[c] <= read[c])
    <3>1. /\ o.cursor[c] \in 0..MaxSeq /\ o.owed[c] \in 0..MaxSeq
          /\ cursors[c] \in 0..MaxSeq /\ read[c] \in 0..MaxSeq /\ MaxSeq \in Nat
      BY <1>0, ObligationFacts, CursorFacts, Basics DEF Typed
    <3>2. Max({o.cursor[c], o.owed[c]}) = IF o.cursor[c] >= o.owed[c] THEN o.cursor[c] ELSE o.owed[c]
      BY <3>1, MaxOfTwo
    <3>3. CASE c \in passed
      <4>1. new[c] = IF o.cursor[c] >= o.owed[c] THEN o.cursor[c] ELSE o.owed[c]
        BY <3>2, <3>3
      <4>2. cursors[c] >= o.owed[c] /\ cursors[c] <= read[c]
        BY <2>1, <3>3
      <4> HIDE DEF new
      <4> QED BY <3>1, <4>1, <4>2
    <3>4. CASE c \notin passed
      <4>1. new[c] = o.cursor[c]
        BY <3>4
      <4> HIDE DEF new
      <4> QED BY <3>1, <4>1
    <3> QED BY <3>3, <3>4
  <2>4. new \in Cursors
    BY <2>3 DEF Cursors
  <2> HIDE DEF new
  <2>5. Honest(new, {})
    BY <1>0, <2>3, <2>4, ObligationFacts, ReadHonest, HonestUnder DEF Typed
  <2>6. n \in Obligations /\ n.owed = o.owed /\ n.pending = o.pending /\ n.cursor = new
    BY <1>0, <2>4 DEF Obligations
  <2> HIDE DEF n
  <2>7. OwedConversations(n) = OwedConversations(o)
    BY <2>6 DEF OwedConversations
  <2>8. ObligationOk(n)
    BY <2>5, <2>6, <2>7 DEF ObligationOk
  <2> QED BY <2>2, <2>6, <2>8
<1> QED BY <1>1, <1>2

LEMMA RecordBuildKeeps == ASSUME IInv, NEW l \in Launches, RecordBuild(l) PROVE IInv'
<1>0. /\ Typed /\ start[l].phase = "record" /\ DOMAIN start = Launches
      /\ UNCHANGED <<inbox, committed, read, current, bound, ghosts>>
  BY DEF RecordBuild, IInv, Typed
<1>1. PICK b, cursors : b = start[l].batch /\ cursors = start[l].cursors
  OBVIOUS
<1>2. /\ b \in Batches /\ b.launch = l /\ b.rows \subseteq committed
      /\ Honest(b.coverage, b.rows) /\ cursors \in Cursors
      /\ \A c \in Conversations : cursors[c] <= read[c]
  <2>1. StartOk(start[l], l)
    BY DEF IInv
  <2>2. start[l] \in [phase : Phases, batch : Batches, cursors : Cursors]
    BY <1>0, <2>1 DEF StartOk
  <2>3. b \in Batches /\ cursors \in Cursors
    BY <1>1, <2>2
  <2> QED BY <1>0, <1>1, <2>1, <2>3 DEF StartOk
<1> DEFINE settled == IF obligation = NoObligation THEN NoObligation
                      ELSE SettleByReadCursor(obligation, cursors)
           attaches == settled # NoObligation /\ b.rows # {} /\ current = l
<1>3. PICK x : x = [phase |-> "running", rows |-> IF attaches THEN b.rows ELSE {}]
  OBVIOUS
<1>4. /\ obligation' = IF attaches THEN [settled EXCEPT !.pending = b] ELSE settled
      /\ start' = [start EXCEPT ![l] = x]
  BY <1>1, <1>3 DEF RecordBuild
<1>5. /\ DOMAIN start' = Launches /\ start'[l] = x
      /\ \A k \in Launches : k # l => start'[k] = start[k]
  BY <1>0, <1>4
<1>6. Monotone
  <2>1. \A c \in Conversations : read[c] \in Nat
    BY <1>0, CursorFacts DEF Typed
  <2> QED BY <1>0, <1>5, <2>1 DEF Monotone, ghosts
<1>7. InOrder'
  BY <1>0 DEF IInv, InOrder
<1>8. Typed'
  <2>1. Below(read)'
    BY <1>0 DEF Typed, Below
  <2> QED BY <1>0, <1>5, <2>1 DEF Typed, ghosts
<1>9. x.phase = "running" /\ x.rows = (IF attaches THEN b.rows ELSE {}) /\ x.rows \subseteq committed
  BY <1>2, <1>3
<1>10. StartOk(x, l)'
  <2>1. x \in [phase : Phases, rows : SUBSET committed]
    BY <1>3, <1>9 DEF Phases
  <2>2. StartOk(x, l)
    BY <1>9, <2>1 DEF StartOk, Phases
  <2> QED BY <1>0, <1>6, <1>8, <2>2, StartStays
<1>11. CASE obligation = NoObligation
  <2>1. obligation' = NoObligation
    BY <1>4, <1>11
  <2>2. OwedKept
    BY <1>11 DEF OwedKept
  <2>3. DebtOk'
    BY <1>0, <1>6, <1>8, <2>2, DebtKeeps DEF ghosts
  <2>4. \A k \in Launches : start'[k] = start[k] \/ StartOk(start[k], k)'
    BY <1>5, <1>10
  <2> QED BY <1>6, <1>7, <1>8, <2>1, <2>3, <2>4, StepKeeps
<1>12. CASE obligation # NoObligation
  <2>1. PICK o : o = obligation
    OBVIOUS
  <2>2. ObligationOk(o)
    BY <1>12, <2>1 DEF IInv
  <2>3. PICK n : /\ ObligationOk(n) /\ n.owed = o.owed /\ n.pending = o.pending
                 /\ SettleByReadCursor(o, cursors) \in {n, SettledOrKept(n)}
    BY <1>0, <1>2, <2>2, SettleFacts
  <2>4. n \in Obligations /\ n # NoObligation
    BY <2>3, ObligationFacts DEF ObligationOk
  <2>5. \/ settled = n
        \/ settled = NoObligation /\ SettledOrKept(n) # n
    BY <1>12, <2>1, <2>3, <2>4 DEF SettledOrKept
  <2> HIDE DEF settled
  <2>6. ObligationOk(n)'
    BY <1>0, <1>6, <1>8, <2>3, ObligationStays
  <2>7. \/ obligation' = NoObligation /\ SettledOrKept(n) # n
        \/ obligation' = n
        \/ obligation' = [n EXCEPT !.pending = b] /\ x.rows = b.rows
    BY <1>4, <1>9, <2>4, <2>5
  <2>8. OwedKept
    <3> SUFFICES ASSUME NEW s \in debt, CommitInOrder, obligation.owed[ConversationOf[s]] >= s
                 PROVE  \/ Paid(s)'
                        \/ obligation' # NoObligation /\ obligation'.owed[ConversationOf[s]] >= s
      BY DEF OwedKept
    <3>1. s \in committed' \ Hidden /\ s \in Nat /\ ConversationOf[s] \in Conversations
      <4>1. s \in committed \ Hidden
        BY DEF IInv, DebtOk
      <4> QED BY <1>0, <4>1, InboxFacts, Basics DEF Typed
    <3>2. n.owed[ConversationOf[s]] \in Nat
      BY <2>4, <3>1, ObligationFacts, CursorFacts
    <3>3. n.owed[ConversationOf[s]] >= s /\ s <= n.owed[ConversationOf[s]]
      BY <2>1, <2>3, <3>1, <3>2
    <3>4. CASE obligation' = NoObligation /\ SettledOrKept(n) # n
      <4>1. Honest(n.cursor, {})'
        BY <2>6 DEF ObligationOk
      <4> QED BY <1>0, <1>6, <1>8, <2>4, <3>1, <3>3, <3>4, <4>1, SettledFacts
    <3>5. CASE obligation' = n
      BY <2>4, <3>3, <3>5
    <3>6. CASE obligation' = [n EXCEPT !.pending = b]
      <4>1. [n EXCEPT !.pending = b] \in Obligations /\ [n EXCEPT !.pending = b].owed = n.owed
        BY <1>2, <2>4 DEF Obligations
      <4> QED BY <3>3, <3>6, <4>1, ObligationFacts
    <3> QED BY <2>7, <3>4, <3>5, <3>6
  <2>9. DebtOk'
    BY <1>0, <1>6, <1>8, <2>8, DebtKeeps DEF ghosts
  <2>10. obligation' = NoObligation \/ ObligationOk(obligation)'
    <3>1. CASE obligation' = n
      BY <2>6, <3>1
    <3>2. CASE obligation' = [n EXCEPT !.pending = b] /\ x.rows = b.rows
      <4>1. PICK m : m = [n EXCEPT !.pending = b]
        OBVIOUS
      <4>2. m \in Obligations /\ m.owed = n.owed /\ m.cursor = n.cursor /\ m.pending = b
        BY <1>2, <2>4, <4>1 DEF Obligations
      <4>3. OwedConversations(m) = OwedConversations(n)
        BY <4>2 DEF OwedConversations
      <4>4. PendingOk(b)'
        <5>1. b.coverage \in Cursors
          BY <1>2 DEF Batches
        <5>2. Honest(b.coverage, b.rows)'
          BY <1>0, <1>2, <1>6, <1>8, <5>1, HonestStays
        <5> QED BY <1>0, <1>2, <1>5, <1>9, <3>2, <5>2 DEF PendingOk
      <4>5. Honest(n.cursor, {})' /\ Cardinality(OwedConversations(n)) <= OwedMax
        BY <2>6 DEF ObligationOk
      <4>6. ObligationOk(m)'
        BY <4>2, <4>3, <4>4, <4>5 DEF ObligationOk
      <4> QED BY <3>2, <4>1, <4>6
    <3> QED BY <2>7, <3>1, <3>2
  <2>11. \A k \in Launches : start'[k] = start[k] \/ StartOk(start[k], k)'
    BY <1>5, <1>10
  <2> QED BY <1>6, <1>7, <1>8, <2>9, <2>10, <2>11, StepKeeps
<1> QED BY <1>11, <1>12

\* The echo of a batch moves the cursor over rows the turn rendered.
LEMMA TurnCompletedKeeps ==
    ASSUME IInv, NEW l \in Launches, NEW full \in BOOLEAN, TurnCompleted(l, full)
    PROVE  IInv'
<1>0. /\ Typed /\ start[l].phase = "running" /\ DOMAIN start = Launches
      /\ UNCHANGED <<inbox, committed, read, bound, debt>> /\ current' = l
      /\ rendered' = IF full THEN rendered \cup start[l].rows ELSE rendered
      /\ start' = [start EXCEPT ![l].phase = "done"]
  BY DEF TurnCompleted, IInv, Typed
<1>1. start[l] \in [phase : Phases, rows : SUBSET committed]
  BY <1>0 DEF IInv, StartOk
<1>2. PICK x : x = [start[l] EXCEPT !.phase = "done"]
  OBVIOUS
<1>3. x \in [phase : Phases, rows : SUBSET committed] /\ x.phase = "done"
  BY <1>1, <1>2 DEF Phases
<1>4. /\ DOMAIN start' = Launches /\ start'[l] = x
      /\ \A k \in Launches : k # l => start'[k] = start[k]
  BY <1>0, <1>2
<1>5. Monotone
  <2>1. \A c \in Conversations : read[c] \in Nat
    BY <1>0, CursorFacts DEF Typed
  <2> QED BY <1>0, <1>3, <1>4, <2>1 DEF Monotone
<1>6. InOrder'
  BY <1>0 DEF IInv, InOrder
<1>7. Typed'
  <2>1. Below(read)'
    BY <1>0 DEF Typed, Below
  <2>2. rendered' \subseteq committed
    BY <1>0, <1>1 DEF Typed
  <2> QED BY <1>0, <1>4, <2>1, <2>2 DEF Typed
<1>8. StartOk(x, l)'
  <2>1. StartOk(x, l)
    BY <1>3 DEF StartOk
  <2> QED BY <1>0, <1>5, <1>7, <2>1, StartStays
<1>9. \A k \in Launches : start'[k] = start[k] \/ StartOk(start[k], k)'
  BY <1>4, <1>8
<1>10. CASE full /\ obligation # NoObligation /\ obligation.pending.launch = l
  <2>1. PICK o : o = obligation
    OBVIOUS
  <2>2. PICK b : b = o.pending
    OBVIOUS
  <2>3. /\ ObligationOk(o) /\ o \in Obligations /\ Honest(o.cursor, {}) /\ PendingOk(b)
        /\ Cardinality(OwedConversations(o)) <= OwedMax
    BY <1>10, <2>1, <2>2 DEF IInv, ObligationOk
  <2>4. b.launch = l /\ b \in Batches /\ l # NoLaunch
    <3>1. b.launch = l /\ l # NoLaunch
      BY <1>10, <2>1, <2>2, Basics
    <3>2. b \in Batches \cup {NoBatch}
      BY <2>2, <2>3, ObligationFacts
    <3> QED BY <3>1, <3>2 DEF NoBatch
  <2>5. b.coverage \in Cursors /\ b.complete \in BOOLEAN
    BY <2>4 DEF Batches
  <2>6. Honest(b.coverage, b.rows) /\ b.rows = start[l].rows /\ b.rows \subseteq rendered'
    BY <1>0, <1>10, <2>3, <2>4 DEF PendingOk
  <2> DEFINE new == [c \in Conversations |-> Max({o.cursor[c], b.coverage[c]})]
             n == [o EXCEPT !.cursor = new, !.overflow = o.overflow /\ ~b.complete, !.pending = NoBatch]
  <2>7. ASSUME NEW c \in Conversations
        PROVE  new[c] \in 0..MaxSeq /\ (new[c] <= o.cursor[c] \/ new[c] <= b.coverage[c])
    <3>1. o.cursor[c] \in 0..MaxSeq /\ b.coverage[c] \in 0..MaxSeq /\ MaxSeq \in Nat
      BY <2>3, <2>5, ObligationFacts, CursorFacts, Basics
    <3>2. new[c] = IF o.cursor[c] >= b.coverage[c] THEN o.cursor[c] ELSE b.coverage[c]
      BY <3>1, MaxOfTwo
    <3> HIDE DEF new
    <3> QED BY <3>1, <3>2
  <2>8. new \in Cursors
    BY <2>7 DEF Cursors
  <2>9. obligation' = SettledOrKept(n)
    <3>1. obligation' = ApplyEcho(obligation, obligation.pending)
      BY <1>10 DEF TurnCompleted
    <3> QED BY <2>1, <2>2, <3>1 DEF ApplyEcho
  <2> HIDE DEF new
  <2>10. Honest(new, {})'
    <3>1. Honest(o.cursor, b.rows)
      BY <2>3 DEF Honest
    <3>2. Honest(new, b.rows)
      BY <1>0, <2>3, <2>5, <2>6, <2>7, <2>8, <3>1, ObligationFacts, HonestUnder
    <3>3. Honest(new, b.rows)'
      BY <1>0, <1>5, <1>7, <2>8, <3>2, HonestStays
    <3> QED BY <2>6, <3>3, HonestRendered
  <2>11. n \in Obligations /\ n.owed = o.owed /\ n.cursor = new /\ n.pending = NoBatch
    <3>1. (o.overflow /\ ~b.complete) \in BOOLEAN
      OBVIOUS
    <3>2. o \in [owed : Cursors, overflow : BOOLEAN, cursor : Cursors, pending : Batches \cup {NoBatch}]
      BY <2>3 DEF Obligations
    <3> QED BY <2>8, <3>1, <3>2 DEF Obligations
  <2> HIDE DEF n
  <2>12. ObligationOk(n)'
    <3>1. OwedConversations(n) = OwedConversations(o)
      BY <2>11 DEF OwedConversations
    <3>2. PendingOk(NoBatch)'
      BY DEF PendingOk, NoBatch
    <3> QED BY <2>3, <2>10, <2>11, <3>1, <3>2 DEF ObligationOk
  <2>13. n # NoObligation
    BY <2>11, ObligationFacts
  <2>14. obligation' = n \/ (obligation' = NoObligation /\ SettledOrKept(n) # n)
    BY <2>9, <2>13 DEF SettledOrKept
  <2>15. OwedKept
    <3> SUFFICES ASSUME NEW s \in debt, CommitInOrder, obligation.owed[ConversationOf[s]] >= s
                 PROVE  \/ Paid(s)'
                        \/ obligation' # NoObligation /\ obligation'.owed[ConversationOf[s]] >= s
      BY DEF OwedKept
    <3>1. s \in committed' \ Hidden /\ s \in Nat /\ ConversationOf[s] \in Conversations
      <4>1. s \in committed \ Hidden
        BY DEF IInv, DebtOk
      <4> QED BY <1>0, <4>1, InboxFacts, Basics DEF Typed
    <3>2. n.owed[ConversationOf[s]] \in Nat
      BY <2>11, <3>1, ObligationFacts, CursorFacts
    <3>3. n.owed[ConversationOf[s]] >= s /\ s <= n.owed[ConversationOf[s]]
      BY <2>1, <2>11, <3>1, <3>2
    <3>4. CASE obligation' = NoObligation /\ SettledOrKept(n) # n
      BY <1>0, <1>5, <1>7, <2>10, <2>11, <3>1, <3>3, <3>4, SettledFacts
    <3>5. CASE obligation' = n
      BY <2>13, <3>3, <3>5
    <3> QED BY <2>14, <3>4, <3>5
  <2>16. DebtOk'
    BY <1>0, <1>5, <1>7, <2>15, DebtKeeps
  <2>17. obligation' = NoObligation \/ ObligationOk(obligation)'
    BY <2>12, <2>14
  <2> QED BY <1>5, <1>6, <1>7, <1>9, <2>16, <2>17, StepKeeps
<1>11. CASE ~(full /\ obligation # NoObligation /\ obligation.pending.launch = l)
  <2>1. obligation' = obligation
    BY <1>11 DEF TurnCompleted
  <2>2. OwedKept
    BY <2>1 DEF OwedKept
  <2>3. DebtOk'
    BY <1>0, <1>5, <1>7, <2>2, DebtKeeps
  <2> QED BY <1>5, <1>6, <1>7, <1>9, <2>1, <2>3, StepKeeps
<1> QED BY <1>10, <1>11

-----------------------------------------------------------------------------
(* The theorems. *)

LEMMA InitHolds == ASSUME Init PROVE IInv
<1>1. Typed
  <2>1. Below(NoSeq)
    BY Basics DEF Below
  <2> QED BY <2>1, Basics DEF Init, Typed
<1>2. InOrder
  BY DEF Init, InOrder
<1>3. ASSUME NEW l \in Launches PROVE StartOk(start[l], l)
  <2>1. start[l] = Idle
    BY DEF Init
  <2>2. StartOk(Idle, l)
    BY DEF StartOk, Idle, Phases
  <2> QED BY <2>1, <2>2
<1>4. DebtOk
  BY DEF Init, DebtOk
<1> QED BY <1>1, <1>2, <1>3, <1>4 DEF Init, IInv

LEMMA NextKeeps == ASSUME IInv, [Next]_vars PROVE IInv'
<1>1. ASSUME NEW s \in Seqs, PostMessage(s) PROVE IInv'
  BY <1>1, PostMessageKeeps
<1>2. ASSUME NEW s \in Seqs, AdvanceReadCursor(s) PROVE IInv'
  BY <1>2, AdvanceReadCursorKeeps
<1>3. ASSUME NEW s \in Seqs, RefuseWake(s) PROVE IInv'
  BY <1>3, RefuseWakeKeeps
<1>4. CASE BreakerOpens
  BY <1>4, BreakerOpensKeeps
<1>5. CASE RecordUnreadable
  BY <1>5, RecordUnreadableKeeps
<1>6. CASE LeaseLapses \/ FailureCounted \/ LaunchCleared \/ UNCHANGED vars
  <2>1. /\ UNCHANGED <<inbox, committed, read, obligation, start, ghosts>>
        /\ current' \in Launches \cup {NoLaunch} /\ bound' \in Launches \cup {NoLaunch}
    BY <1>6 DEF LeaseLapses, FailureCounted, LaunchCleared, vars, IInv, Typed
  <2> QED BY <2>1, LaunchesKeep
<1>7. ASSUME NEW l \in Launches, ReadObligation(l) PROVE IInv'
  BY <1>7, ReadObligationKeeps
<1>8. ASSUME NEW l \in Launches, ReadChain(l) PROVE IInv'
  BY <1>8, ReadChainKeeps
<1>9. ASSUME NEW l \in Launches, FetchRows(l) PROVE IInv'
  BY <1>9, FetchRowsKeeps
<1>10. ASSUME NEW l \in Launches, Claim(l) PROVE IInv'
  BY <1>10, ClaimKeeps
<1>11. ASSUME NEW l \in Launches, RecordBuild(l) PROVE IInv'
  BY <1>11, RecordBuildKeeps
<1>12. ASSUME NEW l \in Launches, NEW full \in BOOLEAN, TurnCompleted(l, full) PROVE IInv'
  BY <1>12, TurnCompletedKeeps
<1> QED BY <1>1, <1>2, <1>3, <1>4, <1>5, <1>6, <1>7, <1>8, <1>9, <1>10, <1>11, <1>12 DEF Next

\* The inductive invariant holds in every reachable state.
THEOREM CatchupInvariant == Spec => []IInv
<1>1. Init => IInv
  BY InitHolds
<1>2. IInv /\ [Next]_vars => IInv'
  BY NextKeeps
<1> QED BY <1>1, <1>2, PTL DEF Spec

\* Type correctness, and raiseCatchupObligation never lets the map of owed
\* conversations past its bound, however refusals, openings and settlements
\* follow each other and in whatever order messages commit.
THEOREM OwedMapBounded == Spec => []CatchupTypeOK
<1>1. ASSUME IInv PROVE CatchupTypeOK
  <2>1. debt \subseteq committed
    BY <1>1 DEF IInv, DebtOk
  <2>2. obligation \in Obligations \cup {NoObligation}
    BY <1>1 DEF IInv, ObligationOk
  <2>3. obligation # NoObligation => Cardinality(OwedConversations(obligation)) <= OwedMax
    BY <1>1 DEF IInv, ObligationOk
  <2> QED BY <1>1, <2>1, <2>2, <2>3 DEF IInv, Typed, CatchupTypeOK
<1> QED BY <1>1, CatchupInvariant, PTL

\* Where messages become visible in the order of their numbers, the cursor of
\* the obligation never passes a deliverable row that was neither rendered by a
\* completed turn nor read: a batch built from an old snapshot, recorded late
\* and echoed later still covers only what it carried.
THEOREM CoverageHonest == CommitInOrder => (Spec => []CoverageIsRendered)
<1> SUFFICES ASSUME CommitInOrder PROVE Spec => []CoverageIsRendered
  OBVIOUS
<1>1. ASSUME IInv PROVE CoverageIsRendered
  BY <1>1 DEF IInv, ObligationOk, Honest, CoverageIsRendered
<1> QED BY <1>1, CatchupInvariant, PTL

\* Where messages become visible in the order of their numbers, a row owed by
\* name is rendered, read, or still owed: no interleaving of refusals, starts,
\* builds and echoes loses it.
THEOREM OwedNeverLost == CommitInOrder => (Spec => []OwedUntilRendered)
<1> SUFFICES ASSUME CommitInOrder PROVE Spec => []OwedUntilRendered
  OBVIOUS
<1>1. ASSUME IInv PROVE OwedUntilRendered
  <2> SUFFICES ASSUME NEW s \in debt, ~Paid(s) PROVE StillOwed(s)
    BY DEF OwedUntilRendered
  <2> DEFINE c == ConversationOf[s]
  <2>1. s \in committed \ Hidden /\ obligation # NoObligation /\ obligation.owed[c] >= s
    BY <1>1 DEF IInv, DebtOk
  <2>2. ObligationOk(obligation) /\ obligation \in Obligations
    BY <1>1, <2>1 DEF IInv, ObligationOk
  <2>3. s \in Nat /\ c \in Conversations
    BY <1>1, <2>1, InboxFacts, Basics DEF IInv, Typed
  <2>4. ~(s <= obligation.cursor[c])
    BY <2>1, <2>2 DEF ObligationOk, Honest
  <2>5. obligation.cursor[c] \in Nat
    BY <2>2, <2>3, ObligationFacts, CursorFacts
  <2>6. obligation.cursor[c] < s
    BY <2>3, <2>4, <2>5
  <2> QED BY <2>1, <2>6 DEF StillOwed
<1> QED BY <1>1, CatchupInvariant, PTL
\* A start that leaves out a conversation with an owed row it could deliver
\* carries only rows of conversations owed for at least as long, whatever the
\* limits on candidates, conversations and rows, and in whatever order messages
\* commit: what is owed is not pushed back by the rest of the inbox.
THEOREM OwedFirst == Spec => OwedGoFirst
<1> DEFINE Fair(l) ==
        start[l].phase = "rows" /\ start'[l].phase = "claim" =>
          LET ob == start[l].ob
              chain == start[l].chain
              carried == {ConversationOf[r] : r \in start'[l].batch.rows}
          IN  \A s \in committed \ Hidden : LET c == ConversationOf[s] IN
                 /\ IsOwed(ob, c)
                 /\ LowerBound(ob, c, chain.read[c]) < s /\ s <= chain.latest[c]
                 /\ c \notin carried
                 => \A d \in carried : IsOwed(ob, d) /\ Lowest(ob, chain, d) <= Lowest(ob, chain, c)
<1>1. ASSUME IInv, Next, NEW l \in Launches, start[l].phase = "rows", start'[l].phase = "claim"
      PROVE  FetchRows(l)
  <2>0. DOMAIN start = Launches
    BY <1>1 DEF IInv, Typed
  <2>1. start' # start
    BY <1>1
  <2>2. PICK k \in Launches : \/ ReadObligation(k) \/ ReadChain(k) \/ FetchRows(k)
                              \/ Claim(k) \/ RecordBuild(k)
                              \/ \E full \in BOOLEAN : TurnCompleted(k, full)
    BY <1>1, <2>1 DEF Next, PostMessage, AdvanceReadCursor, RefuseWake, BreakerOpens,
       RecordUnreadable, LeaseLapses, FailureCounted, LaunchCleared
  <2>3. \A j \in Launches : j # k => start'[j] = start[j]
    BY <2>0, <2>2 DEF ReadObligation, ReadChain, FetchRows, Claim, RecordBuild, TurnCompleted
  <2>4. k = l
    BY <1>1, <2>3
  <2>5. CASE ReadObligation(k)
    BY <1>1, <2>4, <2>5 DEF ReadObligation, Idle
  <2>6. CASE ReadChain(k) \/ Claim(k) \/ RecordBuild(k) \/ \E full \in BOOLEAN : TurnCompleted(k, full)
    BY <1>1, <2>4, <2>6 DEF ReadChain, Claim, RecordBuild, TurnCompleted
  <2> QED BY <2>2, <2>4, <2>5, <2>6
<1>2. ASSUME IInv, Next, NEW l \in Launches PROVE Fair(l)
  <2> SUFFICES ASSUME start[l].phase = "rows", start'[l].phase = "claim",
                      NEW s \in committed \ Hidden,
                      IsOwed(start[l].ob, ConversationOf[s]),
                      LowerBound(start[l].ob, ConversationOf[s], start[l].chain.read[ConversationOf[s]]) < s,
                      s <= start[l].chain.latest[ConversationOf[s]],
                      ~Carries(start'[l].batch.rows, ConversationOf[s]),
                      NEW r \in start'[l].batch.rows
               PROVE  /\ IsOwed(start[l].ob, ConversationOf[r])
                      /\ Lowest(start[l].ob, start[l].chain, ConversationOf[r])
                           <= Lowest(start[l].ob, start[l].chain, ConversationOf[s])
    BY DEF Carries
  <2>1. FetchRows(l)
    BY <1>1, <1>2
  <2>2. PICK ob, chain : ob = start[l].ob /\ chain = start[l].chain
    OBVIOUS
  <2>3. ob \in Obligations /\ Honest(ob.cursor, {}) /\ ChainOk(chain) /\ Typed /\ InOrder
    BY <1>2, <2>2 DEF IInv, StartOk, ChainOk
  <2>4. PICK order \in Candidates(ob, chain) : start'[l].batch = Build(ob, chain, l, order)
    BY <1>2, <2>1, <2>2 DEF FetchRows, IInv, Typed
  <2> QED BY <2>2, <2>3, <2>4, BuildOwedFirst
<1>3. IInv /\ [Next]_vars => [\A l \in Launches : Fair(l)]_vars
  BY <1>2
<1> HIDE DEF Fair
<1>4. Spec => [][\A l \in Launches : Fair(l)]_vars
  BY <1>3, CatchupInvariant, PTL DEF Spec
<1> QED BY <1>4 DEF OwedGoFirst, Fair
=============================================================================
