-------------------------- MODULE CatchupObligation --------------------------
(***************************************************************************)
(* The catch-up obligation of the terminal failure breaker (RFC 071, part  *)
(* 6): which messages the server still owes to an agent whose wakes it     *)
(* refused, the batch of rows a start carries to pay the debt, and the     *)
(* echo of a completed turn that settles it.                               *)
(*                                                                         *)
(* A start is not atomic: it reads the obligation, reads the inbox chain,  *)
(* reads the rows, claims the breaker and records the batch, and messages, *)
(* refused wakes, read cursors and other starts move in between.  Which    *)
(* launch the breaker currently binds is kept as the pair current / bound; *)
(* how the breaker decides is the subject of the module TerminalBreaker.   *)
(***************************************************************************)
EXTENDS Integers, FiniteSets, SequencesExt

CONSTANTS
    Conversations,  \* conversation numbers; their order is today's candidate order
    Launches,       \* launches the server may dispatch, one start each
    NoLaunch,       \* no launch
    MaxSeq,         \* bound: messages
    Inboxes,        \* inboxes to consider: the conversation of each message, and the
                    \* messages the agent is not to be given (muted, before the cutoff)
    OwedMax,        \* TERMINAL_FAILURE_OWED_CONVERSATIONS_MAX
    MaxCandidates,  \* TERMINAL_FAILURE_CATCHUP_MAX_CANDIDATES
    MaxChannels,    \* RESUME_CATCHUP_MAX_CHANNELS
    ChannelRows,    \* RESUME_CATCHUP_MAX_ROWS_PER_CHANNEL
    TotalRows,      \* RESUME_CATCHUP_MAX_ROWS_TOTAL
    CommitInOrder   \* messages become visible in the order of their numbers

ASSUME CatchupAssumption ==
    /\ Conversations \subseteq Nat /\ IsFiniteSet(Conversations)
    /\ NoLaunch \notin Launches
    /\ {MaxSeq, OwedMax, MaxCandidates, MaxChannels, ChannelRows, TotalRows} \subseteq Nat \ {0}
    /\ Inboxes \subseteq [conversation : [1..MaxSeq -> Conversations], hidden : SUBSET (1..MaxSeq)]
    /\ CommitInOrder \in BOOLEAN

VARIABLES
    inbox,       \* the messages to come, one of Inboxes
    committed,   \* sequence numbers whose insert has committed
    read,        \* the agent's read cursor of each conversation
    obligation,  \* catchupObligation of the breaker record, or NoObligation
    current,     \* currentLaunch of the record, or NoLaunch
    bound,       \* the launch whose turn_completed frame still binds
    start,       \* what each start has read so far
    debt,        \* ghost: rows owed by name, under their conversation's ceiling
    rendered     \* ghost: rows of batches a completed turn rendered

ghosts == <<debt, rendered>>
vars == <<inbox, committed, read, obligation, current, bound, start, ghosts>>

Seqs == 1..MaxSeq
ConversationOf == inbox.conversation
Hidden == inbox.hidden
Cursors == [Conversations -> 0..MaxSeq]
NoSeq == [c \in Conversations |-> 0]
NoObligation == [none |-> TRUE]
NoBatch == [launch |-> NoLaunch]

\* Committed messages of a conversation, and the ones above its read cursor.
RowsOf(c) == {s \in committed : ConversationOf[s] = c}
Unread(c) == {s \in RowsOf(c) : s > read[c]}
LatestUnread(c) == IF Unread(c) = {} THEN 0 ELSE Max(Unread(c))

-----------------------------------------------------------------------------
\* The obligation record; a conversation mapped to 0 has no entry.

EmptyObligation == [owed |-> NoSeq, overflow |-> FALSE, cursor |-> NoSeq, pending |-> NoBatch]

Ob == IF obligation = NoObligation THEN EmptyObligation ELSE obligation

OwedConversations(ob) == {c \in Conversations : ob.owed[c] # 0}

\* Mutant: the map of owed conversations has no limit.
UnboundedRaise(ob, ceilings) ==
    {[ob EXCEPT !.owed = [c \in Conversations |-> Max({ob.owed[c], ceilings[c]})]]}

\* raiseCatchupObligation with ceilings: a tracked conversation takes the
\* maximum; new ones are added in some order until the map is full.
Raised(ob, ceilings) ==
    LET fresh == {c \in Conversations : ceilings[c] # 0 /\ ob.owed[c] = 0}
        free == OwedMax - Cardinality(OwedConversations(ob))
    IN  {[ob EXCEPT !.owed = [c \in Conversations |->
                                IF c \in fresh \ kept \/ ceilings[c] < ob.owed[c]
                                THEN ob.owed[c] ELSE ceilings[c]],
                    !.overflow = @ \/ kept # fresh] :
            kept \in {k \in SUBSET fresh : Cardinality(k) = Min({free, Cardinality(fresh)})}}

\* raiseCatchupObligation with null: every unread row is owed.
RaisedUnknown(ob) == [ob EXCEPT !.overflow = TRUE]

ConversationFulfilled(ob, c) == ob.owed[c] = 0 \/ ob.cursor[c] >= ob.owed[c]

Settled(ob) == /\ ~ob.overflow
               /\ \A c \in Conversations : ConversationFulfilled(ob, c)

SettledOrKept(ob) == IF Settled(ob) THEN NoObligation ELSE ob

LowerBound(ob, c, readCursor) == Max({readCursor, ob.cursor[c]})

\* settleCatchupByReadCursor: owed conversations the read cursor has passed.
PassedByCursor(ob, cursors) ==
    {c \in OwedConversations(ob) : cursors[c] >= ob.owed[c] /\ ~ConversationFulfilled(ob, c)}

SettleByReadCursor(ob, cursors) ==
    LET passed == PassedByCursor(ob, cursors)
        next == [ob EXCEPT !.cursor = [c \in Conversations |->
                    IF c \in passed THEN Max({@[c], ob.owed[c]}) ELSE @[c]]]
    IN  IF passed = {} THEN ob ELSE SettledOrKept(next)

\* applyCatchupEcho: cursors advance to the covered prefix; only a complete
\* batch clears the overflow.
ApplyEcho(ob, batch) ==
    SettledOrKept([ob EXCEPT
        !.cursor = [c \in Conversations |-> Max({@[c], batch.coverage[c]})],
        !.overflow = @ /\ ~batch.complete,
        !.pending = NoBatch])

-----------------------------------------------------------------------------
\* Building a batch from what a start has read.

\* Conversations with a row above the lower bound.
Above(ob, chain) == {c \in Conversations : chain.latest[c] > LowerBound(ob, c, chain.read[c])}

\* Mutant: candidates keep the order of the inbox.
InboxOrder(ob, chain) ==
    {order \in SetToSeqs(Above(ob, chain)) :
        \A i, j \in DOMAIN order : i < j => order[i] < order[j]}

\* selectObligationCatchupCandidates: candidates above the lower bound, owed
\* ones first by their lowest unfulfilled row; there is one such order.
IsOwed(ob, c) == ob.owed[c] # 0 /\ ~ConversationFulfilled(ob, c)

Lowest(ob, chain, c) == Max({chain.first[c], LowerBound(ob, c, chain.read[c]) + 1})

Precedes(ob, chain, c, d) ==
    LET key(e) == IF IsOwed(ob, e) THEN Lowest(ob, chain, e) ELSE MaxSeq + 1
    IN  key(c) < key(d) \/ (key(c) = key(d) /\ c < d)

Candidates(ob, chain) ==
    {order \in SetToSeqs(Above(ob, chain)) :
        \A i, j \in DOMAIN order : i < j => Precedes(ob, chain, order[i], order[j])}

\* Mutant: a cut-off conversation counts as covered to its latest row.
CoverToLatest(ob, chain, acc, c) ==
    LET from == LowerBound(ob, c, chain.read[c])
        eligible == {s \in RowsOf(c) : s > from /\ s \notin Hidden}
        fetched == {s \in eligible : Cardinality({r \in eligible : r <= s}) <= ChannelRows}
    IN  [acc EXCEPT !.rows = @ \cup fetched, !.coverage[c] = Max({from, chain.latest[c]})]

\* The rows one candidate contributes: the oldest deliverable rows above its
\* lower bound, up to the channel limit and what is left of the total.
FetchOne(ob, chain, acc, c) ==
    LET from == LowerBound(ob, c, chain.read[c])
        limit == Min({ChannelRows, TotalRows - Cardinality(acc.rows)})
        eligible == {s \in RowsOf(c) : s > from /\ s \notin Hidden}
        fetched == {s \in eligible : Cardinality({r \in eligible : r <= s}) <= limit}
        truncated == fetched # eligible
        covered == IF fetched = {} THEN from
                   ELSE IF truncated THEN Max(fetched)
                   ELSE Max({Max(fetched), chain.latest[c]})
    IN  IF limit = 0 \/ acc.channels = MaxChannels THEN acc
        ELSE [rows |-> acc.rows \cup fetched,
              channels |-> acc.channels + (IF fetched = {} THEN 0 ELSE 1),
              coverage |-> [acc.coverage EXCEPT ![c] = covered],
              truncated |-> acc.truncated \/ truncated]

NothingFetched == [rows |-> {}, channels |-> 0, coverage |-> NoSeq, truncated |-> FALSE]

\* buildResumeCatchupBatch over the first n candidates.
Fetched(ob, chain, order, n) ==
    LET acc[i \in 0..n] == IF i = 0 THEN NothingFetched
                           ELSE FetchOne(ob, chain, acc[i - 1], order[i])
    IN  acc[n]

\* The candidate cut, and buildCatchupBatch.
Build(ob, chain, l, order) ==
    LET capHit == Len(order) > MaxCandidates
        acc == Fetched(ob, chain, order, IF capHit THEN MaxCandidates ELSE Len(order))
        allUnreadCovered == \A c \in Conversations : acc.coverage[c] >= chain.latest[c]
    IN  [launch |-> l, rows |-> acc.rows, coverage |-> acc.coverage,
         complete |-> ~capHit /\ allUnreadCovered /\ ~acc.truncated]

-----------------------------------------------------------------------------
Idle == [phase |-> "idle"]

Init ==
    /\ inbox \in Inboxes
    /\ committed = {}
    /\ read = NoSeq
    /\ obligation = NoObligation
    /\ current = NoLaunch /\ bound = NoLaunch
    /\ start = [l \in Launches |-> Idle]
    /\ debt = {} /\ rendered = {}

\* A message's transaction commits.  Its number comes from a bigserial column
\* or was reserved in an earlier statement, and nothing orders the commits of
\* two writers to one conversation unless it is bridged to an outside service.
PostMessage(s) ==
    /\ s \in Seqs \ committed
    /\ CommitInOrder => 1..(s - 1) \subseteq committed
    /\ committed' = committed \cup {s}
    /\ UNCHANGED <<inbox, read, obligation, current, bound, start, ghosts>>

\* The agent reads its inbox and acknowledges a row.
AdvanceReadCursor(s) ==
    /\ s \in committed
    /\ s > read[ConversationOf[s]]
    /\ read' = [read EXCEPT ![ConversationOf[s]] = s]
    /\ UNCHANGED <<inbox, committed, obligation, current, bound, start, ghosts>>

\* The rows the raised obligation now owes by name, not by overflow.
Owe(new) == debt' = debt \cup {s \in new : obligation'.owed[ConversationOf[s]] >= s}

\* The gate refuses the wake for a message and raises its ceiling.
RefuseWake(s) ==
    /\ s \in committed \ debt
    /\ s \notin Hidden
    /\ LET c == ConversationOf[s]
       IN  IF Ob.owed[c] < s
           THEN obligation' \in Raised(Ob, [NoSeq EXCEPT ![c] = s])
           ELSE UNCHANGED obligation
    /\ Owe({s})
    /\ UNCHANGED <<inbox, committed, read, current, bound, start, rendered>>

\* A terminal failure frame opens the breaker: the unread snapshot becomes
\* owed, all of it if the chain could not be read (as it is when a start that
\* never spawned opens it).  The launch is terminal.
BreakerOpens ==
    /\ current # NoLaunch /\ bound = current
    /\ \/ obligation' \in Raised(Ob, [c \in Conversations |-> LatestUnread(c)])
       \/ obligation' = RaisedUnknown(Ob)
    /\ bound' = NoLaunch
    /\ Owe({s \in UNION {Unread(c) : c \in Conversations} : s \notin Hidden})
    /\ UNCHANGED <<inbox, committed, read, current, start, rendered>>

\* The stored record cannot be decoded: every unread row is owed, none by name.
RecordUnreadable ==
    /\ obligation' = RaisedUnknown(EmptyObligation)
    /\ current' = NoLaunch /\ bound' = NoLaunch
    /\ debt' = {}
    /\ UNCHANGED <<inbox, committed, read, start, rendered>>

\* A probe's lease lapses: no launch is current, its frame still binds.
LeaseLapses ==
    /\ current # NoLaunch /\ bound = current
    /\ current' = NoLaunch
    /\ UNCHANGED <<inbox, committed, read, obligation, bound, start, ghosts>>

\* A terminal failure below the thresholds: the launch is terminal.
FailureCounted ==
    /\ current # NoLaunch /\ bound = current
    /\ bound' = NoLaunch
    /\ UNCHANGED <<inbox, committed, read, obligation, current, start, ghosts>>

\* A lift, a manual stop, a rolled back claim or the late failure of a lapsed
\* probe: nothing is bound.
LaunchCleared ==
    /\ current # NoLaunch \/ bound # NoLaunch
    /\ current' = NoLaunch /\ bound' = NoLaunch
    /\ UNCHANGED <<inbox, committed, read, obligation, start, ghosts>>

-----------------------------------------------------------------------------
\* The start of a launch, step by step.

\* Nothing owed, or the record could not be read: the start carries no batch.
ReadObligation(l) ==
    /\ start[l] = Idle
    /\ \/ start' = [start EXCEPT ![l] = [phase |-> "plain"]]
       \/ /\ obligation # NoObligation
          /\ start' = [start EXCEPT ![l] = [phase |-> "chain",
                                            ob |-> [obligation EXCEPT !.pending = NoBatch]]]
    /\ UNCHANGED <<inbox, committed, read, obligation, current, bound, ghosts>>

ReadChain(l) ==
    /\ start[l].phase = "chain"
    /\ start' = [start EXCEPT ![l] = [phase |-> "rows", ob |-> @.ob, chain |->
           [read |-> read,
            first |-> [c \in Conversations |-> IF Unread(c) = {} THEN 0 ELSE Min(Unread(c))],
            latest |-> [c \in Conversations |-> LatestUnread(c)]]]]
    /\ UNCHANGED <<inbox, committed, read, obligation, current, bound, ghosts>>

\* The read cursors of the owed conversations are read with the rows.
FetchRows(l) ==
    /\ start[l].phase = "rows"
    /\ \E order \in Candidates(start[l].ob, start[l].chain) :
         start' = [start EXCEPT ![l] =
           [phase |-> "claim", batch |-> Build(@.ob, @.chain, l, order),
            cursors |-> [c \in Conversations |->
                           IF @.ob.owed[c] = 0 THEN 0
                           ELSE IF @.chain.latest[c] # 0 THEN @.chain.read[c] ELSE read[c]]]]
    /\ UNCHANGED <<inbox, committed, read, obligation, current, bound, ghosts>>

Claim(l) ==
    /\ start[l].phase \in {"plain", "claim"}
    /\ start' = [start EXCEPT ![l] = IF @.phase = "plain" THEN [phase |-> "running", rows |-> {}]
                                     ELSE [@ EXCEPT !.phase = "record"]]
    /\ current' = l /\ bound' = l
    /\ UNCHANGED <<inbox, committed, read, obligation, ghosts>>

\* applyCatchupBuild: settle by read cursor against the stored obligation,
\* then attach the batch if something is owed and the launch is current.
RecordBuild(l) ==
    /\ start[l].phase = "record"
    /\ LET settled == IF obligation = NoObligation THEN NoObligation
                      ELSE SettleByReadCursor(obligation, start[l].cursors)
           batch == start[l].batch
           attaches == settled # NoObligation /\ batch.rows # {} /\ current = l
       IN  /\ obligation' = IF attaches THEN [settled EXCEPT !.pending = batch] ELSE settled
           /\ start' = [start EXCEPT ![l] =
                  [phase |-> "running", rows |-> IF attaches THEN batch.rows ELSE {}]]
    /\ UNCHANGED <<inbox, committed, read, current, bound, ghosts>>

\* Mutant: any echo settles the batch, however many of its rows were rendered.
EchoOfAnyCount(l, full) ==
    /\ start[l].phase = "running" /\ bound = l
    /\ start' = [start EXCEPT ![l].phase = "done"]
    /\ current' = l
    /\ rendered' = IF full THEN rendered \cup start[l].rows ELSE rendered
    /\ obligation' = IF obligation # NoObligation /\ obligation.pending.launch = l
                     THEN ApplyEcho(obligation, obligation.pending) ELSE obligation
    /\ UNCHANGED <<inbox, committed, read, bound, debt>>

\* The daemon's turn_completed frame with the batch id and a row count.  A
\* frame of an unbound launch or of another batch changes nothing here; a
\* count other than the batch's fulfils nothing.
TurnCompleted(l, full) ==
    /\ start[l].phase = "running" /\ bound = l
    /\ start' = [start EXCEPT ![l].phase = "done"]
    /\ current' = l
    /\ rendered' = IF full THEN rendered \cup start[l].rows ELSE rendered
    /\ obligation' = IF /\ full
                        /\ obligation # NoObligation
                        /\ obligation.pending.launch = l
                     THEN ApplyEcho(obligation, obligation.pending)
                     ELSE obligation
    /\ UNCHANGED <<inbox, committed, read, bound, debt>>

Next ==
    \/ \E s \in Seqs : PostMessage(s) \/ AdvanceReadCursor(s) \/ RefuseWake(s)
    \/ BreakerOpens \/ RecordUnreadable \/ LeaseLapses \/ FailureCounted \/ LaunchCleared
    \/ \E l \in Launches : \/ ReadObligation(l) \/ ReadChain(l) \/ FetchRows(l)
                           \/ Claim(l) \/ RecordBuild(l)
                           \/ \E full \in BOOLEAN : TurnCompleted(l, full)

Spec == Init /\ [][Next]_vars
-----------------------------------------------------------------------------
(***************************************************************************)
(* Properties                                                              *)
(***************************************************************************)

Batches == [launch : Launches, rows : SUBSET Seqs, coverage : Cursors, complete : BOOLEAN]

Obligations == [owed : Cursors, overflow : BOOLEAN, cursor : Cursors,
                pending : Batches \cup {NoBatch}]

\* Type correctness, and raiseCatchupObligation keeps the owed map within its
\* bound.
CatchupTypeOK ==
    /\ committed \subseteq Seqs
    /\ read \in Cursors
    /\ obligation \in Obligations \cup {NoObligation}
    /\ obligation # NoObligation => Cardinality(OwedConversations(obligation)) <= OwedMax
    /\ {current, bound} \subseteq Launches \cup {NoLaunch}
    /\ debt \cup rendered \subseteq committed

\* A row the obligation still promises to a later batch.
StillOwed(s) ==
    LET c == ConversationOf[s]
    IN  /\ obligation # NoObligation
        /\ obligation.cursor[c] < s
        /\ obligation.overflow \/ obligation.owed[c] >= s

Paid(s) == s <= read[ConversationOf[s]] \/ s \in rendered

\* A message whose wake was refused, or that was unread when the breaker
\* opened, and that its conversation's ceiling names, is rendered by a completed
\* turn, passed by the read cursor, or still owed: whatever starts, echoes,
\* lapses and further messages interleave.
OwedUntilRendered ==
    \A s \in debt : Paid(s) \/ StillOwed(s)

\* The obligation cursor is a contiguous prefix: no deliverable committed row at
\* or below it is neither rendered nor read.
CoverageIsRendered ==
    obligation # NoObligation =>
        \A s \in committed :
            /\ s \notin Hidden
            /\ s <= obligation.cursor[ConversationOf[s]]
            => Paid(s)

\* No starvation: a start that leaves out a conversation with an owed row it
\* could deliver carries only rows of conversations owed for at least as long
\* (ties keep the order of the inbox); neither the rest of the inbox nor the
\* candidate cut pushes owed rows back.
OwedGoFirst ==
    [][\A l \in Launches : start[l].phase = "rows" /\ start'[l].phase = "claim" =>
         LET ob == start[l].ob
             chain == start[l].chain
             carried == {ConversationOf[r] : r \in start'[l].batch.rows}
         IN  \A s \in committed \ Hidden : LET c == ConversationOf[s] IN
                /\ IsOwed(ob, c)
                /\ LowerBound(ob, c, chain.read[c]) < s /\ s <= chain.latest[c]
                /\ c \notin carried
                => \A d \in carried : IsOwed(ob, d) /\ Lowest(ob, chain, d) <= Lowest(ob, chain, c)]_vars
=============================================================================
