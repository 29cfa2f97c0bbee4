------------------------ MODULE TerminalBreakerProofs ------------------------
(***************************************************************************)
(* What the terminal failure breaker guarantees for any number of          *)
(* launches, instances, processes, faults and queued frames: the probe of  *)
(* a half-open circuit, the wake demand, the application of frames, the    *)
(* hold on lost evidence, the starts nobody knows of and the counts.       *)
(*                                                                         *)
(* Four invariants, each with the transitions of the record first and the  *)
(* steps of the system after: IInv (the launches remembered), DaemonInv    *)
(* (what the daemon's frames may speak of), ListInv (what the processes    *)
(* without an exit account for) and TallyInv (what is counted).            *)
(***************************************************************************)
EXTENDS TerminalBreaker, SetInduction, FiniteSetTheorems, SequenceTheorems, TLAPS

-----------------------------------------------------------------------------
(* The inductive invariant. *)

LaunchRecords ==
    [id : Nat, gen : Nat, probe : BOOLEAN, lease : {"none", "live", "past"},
     terminal : {"no", "e1", "exit"}]

Demands == [claimed : Nat, fresh : BOOLEAN] \cup {NoDemand}

\* The record, typed where IInv looks; the processes without an exit and the
\* counts play no part in it and stay opaque.
Shaped(r) ==
    r \in [circuit : {"closed", "open", "half_open"}, gen : Nat, cur : LaunchRecords,
           last : LaunchRecords, manual : {r.manual}, unexited : {r.unexited},
           exits : {r.exits}, overflow : {r.overflow}, acknowledged : {r.acknowledged},
           same : {r.same}, total : {r.total}, blocked : {r.blocked}, owed : {r.owed},
           marked : {r.marked}, judged : BOOLEAN, marksLost : BOOLEAN, epoch : Nat,
           demand : Demands]

Tokens == [launch : Nat, gen : Nat, probe : BOOLEAN, previous : LaunchRecords]

StartRecords ==
    [phase : {"none", "claimed", "out", "over"}, human : BOOLEAN, on : Nat, epoch : Nat,
     undo : {"no", "left", "never"}, token : Tokens]

ProcessRecords ==
    [state : {"none", "alive", "dead"}, inst : Nat, spawn : Nat, last : 0..MaxLaunch,
     told : BOOLEAN]

Frames ==
    [kind : {"terminal_failure", "turn_completed"}, launch : Launches, inst : Nat]
    \cup [kind : {"process_spawned"}, launch : Launches, launches : SUBSET Launches,
          proc : Processes, inst : Nat, respawn : BOOLEAN]
    \cup [kind : {"process_exited"}, launch : Launches, spawn : Nat, proc : Processes, inst : Nat]
    \cup [kind : {"start_rebound"}, launch : Launches, proc : Processes, inst : Nat]
    \cup [kind : {"start_not_spawned"}, launch : Launches, inst : Nat,
          reason : {"spawn_error", "stale_dispatch", "other"}]

Typed ==
    /\ Shaped(b)
    /\ inst \in Nat /\ conn \in Nat
    /\ starts \in [Launches -> StartRecords]
    /\ procs \in [Processes -> ProcessRecords]
    /\ \A p \in Processes : procs[p].state # "none" => procs[p].last \in Launches
    /\ outbox \in Seq(Frames)
    /\ wake \in Nat /\ heard \in {0, 1}

\* Launches are minted one after the other.
Minted == \E n \in 0..MaxLaunch : Known = 1..n

\* The launches a record or a token may still make current.
Remembered == {b.cur, b.last} \cup {starts[l].token.previous : l \in Launches}

\* A remembered launch was minted, a token names its own launch while it can
\* be rolled back, and it knows whether that launch is a probe.
TokensAgree ==
    /\ \A x \in Remembered : x.id \in Known \cup {0}
    /\ \A l \in Launches :
         /\ starts[l].token.launch \in {0, l}
         /\ starts[l].undo # "no" => starts[l].phase # "claimed"
         /\ (starts[l].phase = "claimed" \/ starts[l].undo # "no") => starts[l].token.launch = l
         /\ \A x \in Remembered : x.id = l /\ starts[l].token.launch = l => x.probe = starts[l].token.probe

\* The newest wake has a demand that only a turn of a late enough launch ends.
WakeIsOwed ==
    /\ wake <= Cardinality(Known) + 1
    /\ wake # 0 =>
         /\ b.demand # NoDemand
         /\ b.demand.claimed = 0 \/ b.demand.fresh \/ b.demand.claimed >= wake

\* A frame that was applied and not acknowledged is not applied again.
HeardIsJudged ==
    heard = 1 =>
        /\ outbox # <<>>
        /\ b.judged \/ (b.marksLost /\ Head(outbox).inst \notin b.marked)

IInv == Typed /\ Minted /\ TokensAgree /\ ProbeIsLeased /\ WakeIsOwed /\ HeardIsJudged

-----------------------------------------------------------------------------
(* The transitions of a record. *)

\* A half-open record has its probe (ProbeIsLeased of any record).
Probing(r) ==
    r.circuit = "half_open" =>
        /\ r.cur.probe /\ r.cur.gen = r.gen /\ r.cur.terminal = "no"
        /\ r.cur.lease \in {"live", "past"}

\* A launch that is none, or one of r's two up to its outcome.
Kin(x, r) == x.id = 0 \/ \E y \in {r.cur, r.last} : x.id = y.id /\ x.probe = y.probe

\* Lost evidence stays on record.
Holds(r, s) == r.manual.reason = "outcome_evidence_lost" => s.manual = r.manual

\* What every transition other than a claim makes of a record.
Evolves(r, s) ==
    /\ Shaped(s) /\ Probing(s)
    /\ Kin(s.cur, r) /\ Kin(s.last, r) /\ Holds(r, s)
    /\ s.epoch = r.epoch
    /\ s.marked = r.marked /\ s.judged = r.judged /\ s.marksLost = r.marksLost

\* Everything these theorems look at but the needs-manual block is the same.
Alike(r, s) ==
    /\ s.circuit = r.circuit /\ s.gen = r.gen /\ s.cur = r.cur /\ s.last = r.last
    /\ s.demand = r.demand /\ s.epoch = r.epoch
    /\ s.marked = r.marked /\ s.judged = r.judged /\ s.marksLost = r.marksLost

\* The absent launch and the first demand are of their types.
LEMMA NoneTyped == /\ NoLaunch \in LaunchRecords /\ NoDemand \in Demands
                   /\ [claimed |-> 0, fresh |-> FALSE] \in Demands
                   /\ [claimed |-> 0, fresh |-> FALSE] # NoDemand
                   /\ NoLaunch.id = 0 /\ NoDemand.claimed = -1 /\ ~NoDemand.fresh
BY DEF NoLaunch, LaunchRecords, NoDemand, Demands

\* markProtectedIfEngaged touches the entries only.
LEMMA MarkProtectedFacts ==
    ASSUME NEW r, Shaped(r)
    PROVE  /\ Shaped(MarkProtected(r)) /\ Alike(r, MarkProtected(r))
           /\ MarkProtected(r).manual = r.manual
BY ZenonT(90) DEF MarkProtected, Shaped, Alike

\* Settling touches the block only, and never one for lost evidence.
LEMMA SettleManualFacts ==
    ASSUME NEW r, Shaped(r)
    PROVE  /\ Shaped(SettleManual(r)) /\ Alike(r, SettleManual(r))
           /\ Holds(r, SettleManual(r))
BY DEF SettleManual, Shaped, Alike, Holds

\* The normalisation that ends most transitions.
LEMMA FinishFacts ==
    ASSUME NEW r, Shaped(r)
    PROVE  Shaped(Finish(r)) /\ Alike(r, Finish(r)) /\ Holds(r, Finish(r))
<1>1. Shaped(SettleManual(r)) /\ Alike(r, SettleManual(r)) /\ Holds(r, SettleManual(r))
  BY SettleManualFacts
<1>2. /\ Shaped(Finish(r)) /\ Alike(SettleManual(r), Finish(r))
      /\ Finish(r).manual = SettleManual(r).manual
  BY <1>1, MarkProtectedFacts DEF Finish
<1> QED BY <1>1, <1>2 DEF Alike, Holds

\* Evolution is kept by the closing normalisation, and composes.
LEMMA FinishEvolves ==
    ASSUME NEW r, NEW s, Evolves(r, s)
    PROVE  Evolves(r, Finish(s)) /\ Finish(s).demand = s.demand
BY FinishFacts DEF Evolves, Alike, Holds, Probing, Kin

\* Protecting the entries is a transition that keeps the rest.
LEMMA MarkProtectedEvolves ==
    ASSUME NEW r, NEW s, Evolves(r, s)
    PROVE  /\ Evolves(r, MarkProtected(s)) /\ MarkProtected(s).demand = s.demand
           /\ MarkProtected(s).circuit = s.circuit
BY MarkProtectedFacts DEF Evolves, Alike, Holds, Probing, Kin

\* Transitions compose.
LEMMA EvolvesTransitive ==
    ASSUME NEW r, NEW s, NEW t, Evolves(r, s), Evolves(s, t)
    PROVE  Evolves(r, t)
<1>1. \A x : Kin(x, s) => Kin(x, r)
  BY DEF Evolves, Kin
<1>2. Holds(r, t)
  BY DEF Evolves, Holds
<1> QED BY <1>1, <1>2 DEF Evolves

\* A record that does not change has evolved.
LEMMA EvolvesReflexive ==
    ASSUME NEW r, Shaped(r), Probing(r)
    PROVE  Evolves(r, r)
BY DEF Evolves, Kin, Holds

\* A lapsed probe leaves the circuit open.
LEMMA LapseEvolves ==
    ASSUME NEW r, Shaped(r), Probing(r)
    PROVE  Evolves(r, Lapse(r)) /\ Lapse(r).demand = r.demand
<1> DEFINE t == [r EXCEPT !.circuit = "open", !.blocked = TRUE, !.last = r.cur, !.cur = NoLaunch]
<1>1. /\ Shaped(t) /\ t.circuit = "open" /\ t.last = r.cur /\ t.cur = NoLaunch /\ t.manual = r.manual
      /\ t.epoch = r.epoch /\ t.marked = r.marked /\ t.judged = r.judged
      /\ t.marksLost = r.marksLost /\ t.demand = r.demand
  BY NoneTyped DEF Shaped
<1>2. Evolves(r, t)
  BY <1>1, NoneTyped DEF Evolves, Probing, Kin, Holds
<1> HIDE DEF t
<1>3. Evolves(r, MarkProtected(t)) /\ MarkProtected(t).demand = r.demand
  BY <1>1, <1>2, MarkProtectedEvolves
<1> QED BY <1>3, EvolvesReflexive DEF Lapse, t

\* The closing normalisation is a transition.
LEMMA NormalizeEvolves ==
    ASSUME NEW r, Shaped(r), Probing(r)
    PROVE  Evolves(r, Normalize(r)) /\ Normalize(r).demand = r.demand
BY LapseEvolves, FinishEvolves DEF Normalize

\* Dropping, pushing and identifying entries leave the rest alone.
LEMMA EntriesFacts ==
    ASSUME NEW r, Shaped(r)
    PROVE  /\ \A es : /\ Shaped(Dropping(r, es)) /\ Alike(r, Dropping(r, es))
                      /\ Dropping(r, es).manual = r.manual
           /\ \A e : /\ Shaped(Push(r, e)) /\ Alike(r, Push(r, e))
                     /\ Push(r, e).manual = r.manual
           /\ \A e, p, ls : /\ Shaped(Identify(r, e, p, ls)) /\ Alike(r, Identify(r, e, p, ls))
                            /\ Identify(r, e, p, ls).manual = r.manual
<1>1. ASSUME NEW es
      PROVE  Shaped(Dropping(r, es)) /\ Alike(r, Dropping(r, es)) /\ Dropping(r, es).manual = r.manual
  <2> DEFINE u == Others(r.unexited, es)
  <2>1. Dropping(r, es) = [r EXCEPT !.unexited = u]
    BY DEF Dropping
  <2> HIDE DEF u
  <2> QED BY <2>1 DEF Shaped, Alike
<1>2. ASSUME NEW e
      PROVE  Shaped(Push(r, e)) /\ Alike(r, Push(r, e)) /\ Push(r, e).manual = r.manual
  <2> DEFINE u == Append(r.unexited, e)
             v == Tail(u)
  <2>1. \/ Push(r, e) = [r EXCEPT !.unexited = u]
        \/ Push(r, e) = [r EXCEPT !.unexited = v, !.overflow = TRUE]
    BY DEF Push
  <2> HIDE DEF u, v
  <2> QED BY ZenonT(90), <2>1 DEF Shaped, Alike
<1>3. ASSUME NEW e, NEW p, NEW ls
      PROVE  /\ Shaped(Identify(r, e, p, ls)) /\ Alike(r, Identify(r, e, p, ls))
             /\ Identify(r, e, p, ls).manual = r.manual
  <2> DEFINE u == Identify(r, e, p, ls).unexited
  <2>1. Identify(r, e, p, ls) = [r EXCEPT !.unexited = u]
    BY DEF Identify, Shaped
  <2> HIDE DEF u
  <2> QED BY <2>1 DEF Shaped, Alike
<1> QED BY <1>1, <1>2, <1>3

\* A record alike another, with the same block, evolves from it.
LEMMA AlikeEvolves ==
    ASSUME NEW r, Probing(r), NEW s, Shaped(s), Alike(r, s), s.manual = r.manual
    PROVE  Evolves(r, s)
BY DEF Alike, Evolves, Probing, Kin, Holds

\* A terminal failure.
LEMMA TerminalFailureEvolves ==
    ASSUME NEW r0, Shaped(r0), Probing(r0), NEW l, NEW same
    PROVE  /\ Evolves(r0, TerminalFailure(r0, l, same))
           /\ TerminalFailure(r0, l, same).demand = r0.demand
<1> DEFINE r == Lapse(r0)
           run == IF same THEN r.same + 1 ELSE 1
           counted == [r EXCEPT !.cur.terminal = "e1", !.same = run, !.total = @ + 1]
           late == [r EXCEPT !.last.terminal = "e1"]
           half == RaiseOwed([counted EXCEPT !.circuit = "open", !.blocked = TRUE,
                                             !.cur.lease = "none"], "failure")
           opened == RaiseOwed([counted EXCEPT !.circuit = "open", !.blocked = TRUE], "failure")
<1>1. \/ TerminalFailure(r0, l, same) = r0
      \/ r.circuit = "open" /\ TerminalFailure(r0, l, same) = Finish(late)
      \/ TerminalFailure(r0, l, same) = Finish(half)
      \/ TerminalFailure(r0, l, same) = Finish(opened)
      \/ r.circuit = "closed" /\ TerminalFailure(r0, l, same) = Finish(counted)
  <2>1. Shaped(r)
    BY LapseEvolves DEF Evolves
  <2>2. r.circuit \in {"closed", "open", "half_open"}
    BY <2>1 DEF Shaped
  <2> HIDE DEF r
  <2> QED BY <2>2 DEF TerminalFailure, r
<1>2. Evolves(r0, r) /\ r.demand = r0.demand
  BY LapseEvolves
<1> HIDE DEF r, run
<1>3. Shaped(r) /\ Probing(r)
  BY <1>2 DEF Evolves
<1>4. r.circuit = "open" => Evolves(r, late) /\ late.demand = r.demand
  BY <1>3 DEF Evolves, Shaped, Probing, Kin, Holds, LaunchRecords
<1>5. r.circuit = "closed" => Evolves(r, counted) /\ counted.demand = r.demand
  BY <1>3 DEF Evolves, Shaped, Probing, Kin, Holds, LaunchRecords
<1>6. Evolves(r, half) /\ half.demand = r.demand
  BY ZenonT(90), <1>3 DEF Evolves, Shaped, Probing, Kin, Holds, LaunchRecords, RaiseOwed
<1>7. Evolves(r, opened) /\ opened.demand = r.demand
  BY ZenonT(90), <1>3 DEF Evolves, Shaped, Probing, Kin, Holds, LaunchRecords, RaiseOwed
<1> HIDE DEF counted, late, half, opened
<1> QED BY <1>1, <1>2, <1>4, <1>5, <1>6, <1>7, FinishEvolves, EvolvesTransitive, EvolvesReflexive

\* A demand, or a clean turn of its launch, settles no more than it served.
TurnServes(r, s, l) ==
    \/ s.demand = r.demand
    \/ /\ r.demand.claimed = l
       /\ s.demand = IF r.demand.fresh THEN [claimed |-> 0, fresh |-> FALSE] ELSE NoDemand

\* A completed turn.
LEMMA TurnCompletedEvolves ==
    ASSUME NEW r0, Shaped(r0), Probing(r0), NEW l, NEW echo
    PROVE  /\ Evolves(r0, TurnCompleted(r0, l, echo))
           /\ TurnServes(r0, TurnCompleted(r0, l, echo), l)
<1> DEFINE r == Lapse(r0)
           late == r.circuit = "open" /\ r.cur = NoLaunch /\ Binds(r, r.last, l)
           launch == [(IF late THEN r.last ELSE r.cur) EXCEPT !.lease = "none"]
           clean == [CleanTurn(r, l) EXCEPT
                       !.cur = launch,
                       !.last = IF late THEN NoLaunch ELSE @,
                       !.circuit = "closed", !.blocked = FALSE,
                       !.owed = IF echo THEN "none" ELSE @]
<1>1. TurnCompleted(r0, l, echo) \in {r0, Finish(clean)}
  BY DEF TurnCompleted
<1>2. Evolves(r0, r) /\ r.demand = r0.demand
  BY LapseEvolves
<1>3. Shaped(r) /\ Probing(r)
  BY <1>2 DEF Evolves
<1> HIDE DEF r, late
<1>4. /\ launch \in LaunchRecords
      /\ \/ launch.id = r.cur.id /\ launch.probe = r.cur.probe
         \/ launch.id = r.last.id /\ launch.probe = r.last.probe
  <2>1. r.cur \in LaunchRecords /\ r.last \in LaunchRecords
    BY <1>3 DEF Shaped
  <2>2. CASE late
    <3>1. launch = [r.last EXCEPT !.lease = "none"]
      BY <2>2
    <3> HIDE DEF launch
    <3> QED BY <2>1, <3>1 DEF LaunchRecords
  <2>3. CASE ~late
    <3>1. launch = [r.cur EXCEPT !.lease = "none"]
      BY <2>3
    <3> HIDE DEF launch
    <3> QED BY <2>1, <3>1 DEF LaunchRecords
  <2> QED BY <2>2, <2>3
<1> HIDE DEF launch
<1>5. /\ Shaped(CleanTurn(r, l)) /\ TurnServes(r, CleanTurn(r, l), l)
      /\ Evolves(r, CleanTurn(r, l))
  BY <1>3, NoneTyped DEF CleanTurn, Shaped, TurnServes, Evolves, Kin, Holds, Probing
<1>6. Evolves(r, clean) /\ clean.demand = CleanTurn(r, l).demand
  <2> DEFINE t == CleanTurn(r, l)
  <2>1. Shaped(t) /\ Evolves(r, t)
    BY <1>5
  <2> HIDE DEF t
  <2>2. /\ Shaped(clean) /\ clean.cur = launch /\ clean.last \in {NoLaunch, t.last}
        /\ clean.circuit = "closed" /\ clean.manual = t.manual /\ clean.epoch = t.epoch
        /\ clean.marked = t.marked /\ clean.judged = t.judged /\ clean.marksLost = t.marksLost
        /\ clean.demand = t.demand
    BY <2>1, <1>4, NoneTyped DEF Shaped, t
  <2> HIDE DEF clean
  <2> QED BY <2>1, <2>2, <1>4, NoneTyped DEF Evolves, Kin, Holds, Probing, t
<1> HIDE DEF clean
<1>7. Evolves(r0, clean) /\ TurnServes(r0, clean, l)
  BY <1>2, <1>5, <1>6, EvolvesTransitive DEF TurnServes
<1> QED BY <1>1, <1>7, FinishEvolves, EvolvesReflexive DEF TurnServes

\* Alike steps compose.
LEMMA AlikeTransitive ==
    ASSUME NEW r, NEW s, NEW t, Alike(r, s), Alike(s, t)
    PROVE  Alike(r, t)
BY DEF Alike

\* A rebind touches entries only.
LEMMA StartReboundEvolves ==
    ASSUME NEW r, Shaped(r), Probing(r), NEW l, NEW i, NEW p
    PROVE  /\ Evolves(r, StartRebound(r, l, i, p))
           /\ StartRebound(r, l, i, p).demand = r.demand
<1> DEFINE Quiet(s) == Shaped(s) /\ Alike(r, s) /\ s.manual = r.manual
<1>1. Quiet(r)
  BY DEF Alike
<1>2. \A s, es : Quiet(s) => Quiet(Dropping(s, es))
  BY EntriesFacts, AlikeTransitive
<1>3. \A s, e, q, ls : Quiet(s) => Quiet(Identify(s, e, q, ls))
  BY EntriesFacts, AlikeTransitive
<1> HIDE DEF Quiet
<1>4. \E s : Quiet(s) /\ StartRebound(r, l, i, p) = Finish(s)
  BY <1>1, <1>2, <1>3 DEF StartRebound
<1>5. \A s : Quiet(s) => Evolves(r, s) /\ s.demand = r.demand
  BY AlikeEvolves DEF Quiet, Alike
<1> QED BY <1>4, <1>5, FinishEvolves

\* A spawn touches entries and acknowledged identities, and may revive the
\* current launch of a closed circuit.
LEMMA ProcessSpawnedEvolves ==
    ASSUME NEW r, Shaped(r), Probing(r), NEW l, NEW ls, NEW i, NEW p, NEW respawn
    PROVE  /\ Evolves(r, ProcessSpawned(r, l, ls, i, p, respawn))
           /\ ProcessSpawned(r, l, ls, i, p, respawn).demand = r.demand
<1> DEFINE Quiet(s) == Shaped(s) /\ Alike(r, s) /\ s.manual = r.manual
           pending == PendingOf(r, ls, i)
           known == Identified(r, i, p)
           own == PendingOf(r, {l}, i)
           first == CHOOSE e \in (IF own # {} THEN own ELSE pending) : TRUE
           taken == {a \in r.acknowledged : a.spawn \in ls /\ a.inst = i /\ a.proc = 0}
           named(s) == [s EXCEPT !.acknowledged = (@ \ taken) \cup {[a EXCEPT !.proc = p] : a \in taken}]
           revive(s) == IF /\ respawn /\ s.circuit = "closed" /\ s.cur.id = l
                           /\ s.cur.gen = s.gen /\ s.cur.terminal = "exit"
                        THEN [s EXCEPT !.cur.terminal = "no"] ELSE s
           a1 == CHOOSE a \in taken : TRUE
           acked == [r EXCEPT !.acknowledged = (@ \ {a1}) \cup {[a1 EXCEPT !.proc = p]}]
           e1 == CHOOSE e \in known : TRUE
<1>1. Quiet(r)
  BY DEF Alike
<1>2. \A s, es : Quiet(s) => Quiet(Dropping(s, es))
  BY EntriesFacts, AlikeTransitive
<1>3. \A s, e, q, ks : Quiet(s) => Quiet(Identify(s, e, q, ks))
  BY EntriesFacts, AlikeTransitive
<1>4. \A s, e : Quiet(s) => Quiet(Push(s, e))
  BY EntriesFacts, AlikeTransitive
<1>5. \A s : Quiet(s) => Quiet(named(s))
  <2> SUFFICES ASSUME NEW s, Quiet(s) PROVE Quiet(named(s))
    OBVIOUS
  <2> DEFINE x == (s.acknowledged \ taken) \cup {[a EXCEPT !.proc = p] : a \in taken}
  <2>1. named(s) = [s EXCEPT !.acknowledged = x]
    OBVIOUS
  <2> HIDE DEF x, named
  <2> QED BY <2>1 DEF Shaped, Alike
<1>6. Quiet(acked)
  <2> DEFINE x == (r.acknowledged \ {a1}) \cup {[a1 EXCEPT !.proc = p]}
  <2>1. acked = [r EXCEPT !.acknowledged = x]
    OBVIOUS
  <2> HIDE DEF x, acked
  <2> QED BY <2>1, <1>1 DEF Shaped, Alike
<1>7. \A s : Quiet(s) => Evolves(r, revive(s)) /\ revive(s).demand = r.demand
  <2> SUFFICES ASSUME NEW s, Quiet(s)
               PROVE  Evolves(r, revive(s)) /\ revive(s).demand = r.demand
    OBVIOUS
  <2>1. Evolves(r, s) /\ s.demand = r.demand
    BY AlikeEvolves DEF Alike
  <2>2. CASE revive(s) = s
    BY <2>1, <2>2
  <2>3. CASE s.circuit = "closed" /\ revive(s) = [s EXCEPT !.cur.terminal = "no"]
    <3> HIDE DEF revive
    <3>1. Shaped(s) /\ Alike(r, s) /\ s.manual = r.manual
      OBVIOUS
    <3> HIDE DEF Quiet
    <3> QED BY <2>3, <3>1 DEF Shaped, Evolves, Alike, Probing, Kin, Holds, LaunchRecords
  <2> QED BY <2>2, <2>3
<1>8. \A s : Quiet(s) => Evolves(r, s) /\ s.demand = r.demand
  BY AlikeEvolves DEF Alike
<1>9. \/ ProcessSpawned(r, l, ls, i, p, respawn) \in {r, Finish(Dropping(r, pending)), acked}
      \/ ProcessSpawned(r, l, ls, i, p, respawn) =
           Finish(revive(named(Dropping(Identify(r, e1, p, ls), pending))))
      \/ ProcessSpawned(r, l, ls, i, p, respawn) =
           Finish(revive(named(Identify(Dropping(r, pending \ {first}), first, p, ls))))
      \/ ProcessSpawned(r, l, ls, i, p, respawn) = Finish(revive(Push(r, Entry(l, i, p, ls))))
  <2>1. CASE <<i, p>> \in r.exits
    BY <2>1, Zenon DEF ProcessSpawned
  <2>2. CASE <<i, p>> \notin r.exits /\ known # {}
    BY <2>2, Zenon DEF ProcessSpawned
  <2>3. CASE <<i, p>> \notin r.exits /\ known = {} /\ pending # {}
    BY <2>3, Zenon DEF ProcessSpawned
  <2>4. CASE <<i, p>> \notin r.exits /\ known = {} /\ pending = {} /\ taken # {}
    BY <2>4, Zenon DEF ProcessSpawned
  <2>5. CASE <<i, p>> \notin r.exits /\ known = {} /\ pending = {} /\ taken = {}
    BY <2>5, Zenon DEF ProcessSpawned
  <2> QED BY <2>1, <2>2, <2>3, <2>4, <2>5
<1> HIDE DEF Quiet, pending, known, own, first, taken, named, revive, acked, a1, e1
<1>10. Quiet(Dropping(r, pending)) /\ Quiet(acked)
  BY <1>1, <1>2, <1>6
<1>11. Quiet(named(Dropping(Identify(r, e1, p, ls), pending)))
  BY <1>1, <1>2, <1>3, <1>5
<1>12. Quiet(named(Identify(Dropping(r, pending \ {first}), first, p, ls)))
  BY <1>1, <1>2, <1>3, <1>5
<1>13. Quiet(Push(r, Entry(l, i, p, ls)))
  BY <1>1, <1>4
<1> QED BY <1>1, <1>7, <1>8, <1>9, <1>10, <1>11, <1>12, <1>13, FinishEvolves

\* An exit ends the launch it carried; a half-open circuit opens with it.
LEMMA ProcessExitedEvolves ==
    ASSUME NEW r, Shaped(r), Probing(r), NEW l, NEW m, NEW i, NEW p
    PROVE  /\ Evolves(r, ProcessExited(r, l, m, i, p))
           /\ ProcessExited(r, l, m, i, p).demand = r.demand
<1> DEFINE match == IF Identified(r, i, p) # {} THEN Identified(r, i, p) ELSE PendingOf(r, {l}, i)
           acked == LET ackedAs(q) == {a \in r.acknowledged : a.inst = i /\ a.proc = q /\ (q # 0 \/ a.spawn = l)}
                    IN  IF ackedAs(p) # {} THEN ackedAs(p) ELSE ackedAs(0)
           gone == [Dropping(r, match) EXCEPT !.exits = @ \cup {<<i, p>>},
                                              !.acknowledged = IF match = {} THEN @ \ acked ELSE @]
           probed == [gone EXCEPT !.cur.terminal = "exit", !.cur.lease = "none",
                                  !.circuit = "open", !.blocked = TRUE]
           ended == [gone EXCEPT !.cur.terminal = "exit"]
           late == [gone EXCEPT !.last.terminal = "exit"]
<1>1. \/ ProcessExited(r, l, m, i, p) \in {Finish(gone), Finish(probed)}
      \/ r.circuit # "half_open" /\ ProcessExited(r, l, m, i, p) = Finish(ended)
      \/ r.circuit = "open" /\ ProcessExited(r, l, m, i, p) = Finish(late)
  <2>1. r.circuit = "half_open" => r.cur.probe
    BY DEF Probing
  <2> DEFINE carried == {l, m} \cup UNION {e.launches : e \in match}
             current == r.cur.id \in carried /\ Binds(r, r.cur, r.cur.id)
  <2>2. CASE match # {} /\ current /\ r.circuit = "half_open" /\ r.cur.probe
    BY <2>2, Zenon DEF ProcessExited
  <2>3. CASE match # {} /\ current /\ ~(r.circuit = "half_open" /\ r.cur.probe)
    BY <2>1, <2>3, Zenon DEF ProcessExited
  <2>4. CASE match # {} /\ ~current /\ r.circuit = "open" /\ r.last.id \in carried /\ r.last.terminal = "no"
    BY <2>4, Zenon DEF ProcessExited
  <2>5. CASE /\ ~(match # {} /\ current)
             /\ ~(match # {} /\ ~current /\ r.circuit = "open" /\ r.last.id \in carried /\ r.last.terminal = "no")
    BY <2>5, Zenon DEF ProcessExited
  <2> QED BY <2>2, <2>3, <2>4, <2>5
<1>2. /\ Shaped(gone) /\ Alike(r, gone) /\ gone.manual = r.manual
  <2> DEFINE d == Dropping(r, match)
             x == d.exits \cup {<<i, p>>}
             y == IF match = {} THEN d.acknowledged \ acked ELSE d.acknowledged
  <2>1. Shaped(d) /\ Alike(r, d) /\ d.manual = r.manual
    BY EntriesFacts
  <2>2. gone = [d EXCEPT !.exits = x, !.acknowledged = y]
    BY <2>1 DEF Shaped
  <2> HIDE DEF d, x, y, gone
  <2> QED BY <2>1, <2>2 DEF Shaped, Alike
<1> HIDE DEF match, acked, gone
<1>3. Evolves(r, gone) /\ gone.demand = r.demand
  BY <1>2, AlikeEvolves DEF Alike
<1>4. Evolves(r, probed) /\ probed.demand = r.demand
  BY ZenonT(90), <1>2 DEF Shaped, Alike, Evolves, Probing, Kin, Holds, LaunchRecords
<1>5. r.circuit # "half_open" => Evolves(r, ended) /\ ended.demand = r.demand
  BY <1>2 DEF Shaped, Alike, Evolves, Probing, Kin, Holds, LaunchRecords
<1>6. r.circuit = "open" => Evolves(r, late) /\ late.demand = r.demand
  BY <1>2 DEF Shaped, Alike, Evolves, Probing, Kin, Holds, LaunchRecords
<1> HIDE DEF probed, ended, late
<1> QED BY <1>1, <1>3, <1>4, <1>5, <1>6, FinishEvolves

\* A claim that a demand counted on is given back.
Unclaimed(r, s) == s.demand \in {r.demand, [claimed |-> 0, fresh |-> FALSE]}

\* A start refused before any spawn: a probe's circuit opens again.
LEMMA StartRejectedEvolves ==
    ASSUME NEW r0, Shaped(r0), Probing(r0), NEW l, NEW i, NEW reason
    PROVE  /\ Evolves(r0, StartRejected(r0, l, i, reason))
           /\ Unclaimed(r0, StartRejected(r0, l, i, reason))
<1> DEFINE r == Lapse(r0)
           pending == PendingOf(r, {l}, i)
           bound == Binds(r, r.cur, l)
           counts == bound /\ reason = "spawn_error"
           releases == bound /\ ~counts /\ r.circuit = "half_open" /\ r.cur.probe
           unclaims == bound /\ reason \in {"spawn_error", "stale_dispatch"} /\ r.demand.claimed = l
           base == [Dropping(r, pending) EXCEPT
                       !.demand = IF unclaims THEN [claimed |-> 0, fresh |-> FALSE] ELSE @]
           ended == [base EXCEPT !.cur.terminal = "e1", !.cur.lease = "none", !.blocked = TRUE]
           raised == RaiseOwed([ended EXCEPT !.circuit = "open"], "failure")
           freed == [base EXCEPT !.last = r.cur, !.cur = NoLaunch, !.circuit = "open"]
<1>1. \/ StartRejected(r0, l, i, reason) \in {r, Finish(base), Finish(raised), Finish(freed)}
      \/ r.circuit = "open" /\ StartRejected(r0, l, i, reason) = Finish(ended)
  <2>1. CASE counts
    BY <2>1, Zenon DEF StartRejected
  <2>2. CASE ~counts /\ releases
    BY <2>2, Zenon DEF StartRejected
  <2>3. CASE ~counts /\ ~releases /\ (pending # {} \/ unclaims)
    BY <2>3, Zenon DEF StartRejected
  <2>4. CASE ~counts /\ ~releases /\ ~(pending # {} \/ unclaims)
    BY <2>4, Zenon DEF StartRejected
  <2> QED BY <2>1, <2>2, <2>3, <2>4
<1>2. Evolves(r0, r) /\ r.demand = r0.demand
  BY LapseEvolves
<1>3. Shaped(r) /\ Probing(r)
  BY <1>2 DEF Evolves
<1> HIDE DEF r
<1>4. /\ Shaped(base) /\ base.circuit = r.circuit /\ base.gen = r.gen /\ base.cur = r.cur
      /\ base.last = r.last /\ base.manual = r.manual /\ base.epoch = r.epoch
      /\ base.marked = r.marked /\ base.judged = r.judged /\ base.marksLost = r.marksLost
      /\ Unclaimed(r, base)
  <2> DEFINE d == Dropping(r, pending)
  <2>1. Shaped(d) /\ Alike(r, d) /\ d.manual = r.manual
    BY <1>3, EntriesFacts
  <2> HIDE DEF d, unclaims, pending
  <2>2. base = [d EXCEPT !.demand = IF unclaims THEN [claimed |-> 0, fresh |-> FALSE] ELSE d.demand]
    BY DEF d
  <2> HIDE DEF base
  <2> QED BY <2>1, <2>2, NoneTyped DEF Shaped, Alike, Unclaimed
<1> HIDE DEF base, pending, bound, counts, releases, unclaims
<1>5. Evolves(r, base)
  BY <1>3, <1>4 DEF Evolves, Probing, Kin, Holds
<1>6. r.circuit = "open" => Evolves(r, ended) /\ ended.demand = base.demand
  BY ZenonT(90), <1>4 DEF Shaped, Evolves, Probing, Kin, Holds, LaunchRecords
<1>7. Evolves(r, raised) /\ raised.demand = base.demand
  BY ZenonT(90), <1>4 DEF Shaped, Evolves, Probing, Kin, Holds, LaunchRecords, RaiseOwed
<1>8. Evolves(r, freed) /\ freed.demand = base.demand
  BY <1>3, <1>4, NoneTyped DEF Shaped, Evolves, Probing, Kin, Holds
<1> HIDE DEF ended, raised, freed
<1>9. \A s : Evolves(r, s) /\ s.demand = base.demand =>
               /\ Evolves(r0, s) /\ Evolves(r0, Finish(s))
               /\ Unclaimed(r0, s) /\ Unclaimed(r0, Finish(s))
  BY <1>2, <1>4, EvolvesTransitive, FinishEvolves DEF Unclaimed
<1> QED BY <1>1, <1>2, <1>5, <1>6, <1>7, <1>8, <1>9 DEF Unclaimed

\* Lost evidence, and the marker for folded frames.
LEMMA EvidenceLostEvolves ==
    ASSUME NEW r, Shaped(r), Probing(r)
    PROVE  /\ Evolves(r, EvidenceLost(r)) /\ EvidenceLost(r).demand = r.demand
           /\ \A epoch : /\ Evolves(r, OutcomeMarker(r, epoch))
                         /\ OutcomeMarker(r, epoch).demand = r.demand
<1> DEFINE x == [reason |-> "outcome_evidence_lost", causes |-> {}]
           t == [r EXCEPT !.manual = x]
<1>1. \/ EvidenceLost(r) = r
      \/ r.manual.reason # "outcome_evidence_lost" /\ EvidenceLost(r) = Finish(t)
  BY DEF EvidenceLost
<1> HIDE DEF x
<1>2. r.manual.reason # "outcome_evidence_lost" => Evolves(r, t) /\ t.demand = r.demand
  BY DEF Shaped, Evolves, Probing, Kin, Holds
<1> HIDE DEF t
<1>3. Evolves(r, EvidenceLost(r)) /\ EvidenceLost(r).demand = r.demand
  BY <1>1, <1>2, FinishEvolves, EvolvesReflexive
<1> QED BY <1>3, EvolvesReflexive DEF OutcomeMarker

\* The reconcile of a ready.
LEMMA DaemonReadyEvolves ==
    ASSUME NEW r, Shaped(r), Probing(r), NEW i
    PROVE  Evolves(r, DaemonReady(r, i)) /\ DaemonReady(r, i).demand = r.demand
<1> DEFINE m == MarkProtected(r)
           old == {e \in Entries(m) : e.inst # i}
           untracked == {e \in old : ~e.protected}
           kept == old \ untracked
           u == Dropping(m, untracked)
           moved == [u EXCEPT !.acknowledged = @ \cup
                       {[spawn |-> e.spawn, inst |-> e.inst, proc |-> e.proc] : e \in untracked}]
           z == [reason |-> "daemon_restarted_no_exit", causes |-> {Key(e) : e \in kept}]
           held == [moved EXCEPT !.manual = z]
<1>1. \/ DaemonReady(r, i) \in {r, Finish(moved)}
      \/ r.manual.reason # "outcome_evidence_lost" /\ DaemonReady(r, i) = Finish(held)
  <2>1. CASE old = {}
    BY <2>1, Zenon DEF DaemonReady
  <2>2. CASE old # {} /\ kept # {} /\ r.manual.reason \in {"none", "unexited_process"}
    <3>1. DaemonReady(r, i) = Finish(held)
      BY <2>2, Zenon DEF DaemonReady
    <3> HIDE DEF held
    <3> QED BY <3>1, <2>2
  <2>3. CASE old # {} /\ ~(kept # {} /\ r.manual.reason \in {"none", "unexited_process"})
    BY <2>3, Zenon DEF DaemonReady
  <2> QED BY <2>1, <2>2, <2>3
<1>2. Shaped(m) /\ Alike(r, m) /\ m.manual = r.manual
  BY MarkProtectedFacts
<1>3. Shaped(u) /\ Alike(r, u) /\ u.manual = r.manual
  BY <1>2, EntriesFacts, AlikeTransitive
<1>4. Shaped(moved) /\ Alike(r, moved) /\ moved.manual = r.manual
  <2> DEFINE w == u.acknowledged \cup
                    {[spawn |-> e.spawn, inst |-> e.inst, proc |-> e.proc] : e \in untracked}
  <2>1. moved = [u EXCEPT !.acknowledged = w]
    OBVIOUS
  <2> HIDE DEF u, w, moved
  <2> QED BY <1>3, <2>1 DEF Shaped, Alike
<1> HIDE DEF m, old, untracked, kept, u, moved, z
<1>5. Evolves(r, moved) /\ moved.demand = r.demand
  BY <1>4, AlikeEvolves DEF Alike
<1>6. r.manual.reason # "outcome_evidence_lost" => Evolves(r, held) /\ held.demand = r.demand
  BY <1>4 DEF Shaped, Alike, Evolves, Probing, Kin, Holds
<1> HIDE DEF held
<1> QED BY <1>1, <1>5, <1>6, FinishEvolves, EvolvesReflexive

\* More demand is demand, and what it had been claimed for is fresh again.
LEMMA MoreDemandFacts ==
    ASSUME NEW d \in Demands
    PROVE  /\ MoreDemand(d) \in Demands /\ MoreDemand(d) # NoDemand
           /\ MoreDemand(d).claimed = 0 \/ MoreDemand(d).fresh
BY NoneTyped DEF MoreDemand, Demands, NoDemand

\* The gate records what it learned and the demand, and starts nothing.
LEMMA GateEvolves ==
    ASSUME NEW r0, Shaped(r0), Probing(r0), NEW message, NEW demand,
           Refusal(Normalize(r0)).refusal # "none"
    PROVE  /\ Evolves(r0, Gate(r0, message, demand))
           /\ Gate(r0, message, demand).demand =
                 IF demand THEN MoreDemand(r0.demand) ELSE r0.demand
<1> DEFINE r == Normalize(r0)
           ref == Refusal(r)
           origin == IF /\ ref.refusal = "needs_manual" /\ ref.manual = "unexited_process"
                        /\ ~Engaged(r) THEN "identity" ELSE "failure"
           y == [reason |-> ref.manual, causes |-> IF ref.manual = "unexited_process"
                                         THEN {Key(e) : e \in Blocking(r)} ELSE {}]
           blocked == IF ref.manual # "none" /\ r.manual = NoManual
                      THEN [r EXCEPT !.manual = y] ELSE r
           owing == IF message \/ (origin = "failure" /\ r.owed # "none")
                    THEN RaiseOwed(blocked, origin) ELSE blocked
           s == [owing EXCEPT !.demand = IF demand THEN MoreDemand(@) ELSE @]
<1>1. Gate(r0, message, demand) = MarkProtected(s)
  BY Zenon DEF Gate
<1>2. Evolves(r0, r) /\ r.demand = r0.demand
  BY NormalizeEvolves
<1>3. Shaped(r) /\ Probing(r)
  BY <1>2 DEF Evolves
<1>4. NoManual.reason # "outcome_evidence_lost"
  BY DEF NoManual
<1> HIDE DEF r, ref, origin, y
<1>5. Evolves(r, blocked) /\ blocked.demand = r.demand
  BY <1>3, <1>4 DEF Shaped, Evolves, Probing, Kin, Holds
<1> HIDE DEF blocked
<1>6. Evolves(r, owing) /\ owing.demand = r.demand
  BY <1>5 DEF Shaped, Evolves, Probing, Kin, Holds, RaiseOwed
<1> HIDE DEF owing
<1>7. r.demand \in Demands
  BY <1>3 DEF Shaped
<1>8. Evolves(r, s) /\ s.demand = IF demand THEN MoreDemand(r.demand) ELSE r.demand
  BY <1>6, <1>7, MoreDemandFacts DEF Shaped, Evolves, Probing, Kin, Holds
<1> HIDE DEF s
<1> QED BY <1>1, <1>2, <1>8, EvolvesTransitive, MarkProtectedEvolves

\* A lift closes the circuit and forgets both launches.
LEMMA LiftedFacts ==
    ASSUME NEW r, Shaped(r)
    PROVE  /\ Shaped(Lifted(r)) /\ Lifted(r).circuit = "closed"
           /\ Lifted(r).cur = NoLaunch /\ Lifted(r).last = NoLaunch
           /\ Lifted(r).manual = r.manual /\ Lifted(r).epoch = r.epoch
           /\ Lifted(r).gen = r.gen + 1
           /\ Lifted(r).marked = r.marked /\ Lifted(r).judged = r.judged
           /\ Lifted(r).marksLost = r.marksLost /\ Lifted(r).demand = r.demand
<1>1. r.gen + 1 \in Nat
  BY DEF Shaped
<1> DEFINE g == r.gen + 1
           t == [r EXCEPT !.same = 0, !.total = 0, !.gen = g, !.cur = NoLaunch, !.last = NoLaunch,
                          !.blocked = FALSE, !.circuit = "closed"]
<1>2. Lifted(r) = t
  BY DEF Lifted
<1> HIDE DEF g
<1>3. /\ Shaped(t) /\ t.circuit = "closed" /\ t.cur = NoLaunch /\ t.last = NoLaunch
      /\ t.manual = r.manual /\ t.epoch = r.epoch /\ t.gen = g
      /\ t.marked = r.marked /\ t.judged = r.judged
      /\ t.marksLost = r.marksLost /\ t.demand = r.demand
  BY <1>1, NoneTyped DEF Shaped, g
<1> HIDE DEF t
<1> QED BY <1>2, <1>3 DEF g

\* A reset or a changed configuration is a transition.
LEMMA LiftEvolves ==
    ASSUME NEW r, Shaped(r)
    PROVE  Evolves(r, Finish(Lifted(r))) /\ Finish(Lifted(r)).demand = r.demand
<1>1. Evolves(r, Lifted(r)) /\ Lifted(r).demand = r.demand
  BY LiftedFacts, NoneTyped DEF Evolves, Probing, Kin, Holds
<1> QED BY <1>1, FinishEvolves

\* A manual stop opens a half-open circuit and ends the demand.
LEMMA ManuallyStoppedEvolves ==
    ASSUME NEW r0, Shaped(r0), Probing(r0)
    PROVE  Evolves(r0, ManuallyStopped(r0))
<1> DEFINE q == Lapse(r0)
           r == [q EXCEPT !.demand = NoDemand]
           s == [r EXCEPT !.cur = NoLaunch, !.circuit = "open"]
<1>1. ManuallyStopped(r0) \in {r, Finish(s)}
  BY Zenon DEF ManuallyStopped
<1>2. Evolves(r0, q)
  BY LapseEvolves
<1> HIDE DEF q
<1>3. Evolves(q, r) /\ Evolves(q, s)
  BY <1>2, NoneTyped DEF Shaped, Evolves, Probing, Kin, Holds
<1> HIDE DEF r, s
<1> QED BY <1>1, <1>2, <1>3, EvolvesTransitive, FinishEvolves

\* A claim makes its launch current: a probe exactly when the circuit was
\* open and the start automatic, and then the one probe of a half-open circuit.
LEMMA ClaimedFacts ==
    ASSUME NEW r0, Shaped(r0), Probing(r0), NEW l \in Nat, NEW i, NEW human \in BOOLEAN,
           NEW demand \in BOOLEAN, human \/ Refusal(Normalize(r0)).refusal = "none"
    PROVE  LET s == Claimed(r0, l, i, human, demand)
               token == TokenOf(r0, l, human)
           IN  /\ Shaped(s) /\ Probing(s) /\ token \in Tokens
               /\ token.launch = l /\ Kin(token.previous, r0)
               /\ s.cur.id = l /\ s.cur.probe = token.probe /\ Kin(s.last, r0)
               /\ s.marked = r0.marked /\ s.judged = r0.judged /\ s.marksLost = r0.marksLost
               /\ IF human THEN s.epoch > r0.epoch ELSE s.epoch = r0.epoch /\ Holds(r0, s)
               /\ s.demand = IF r0.demand = NoDemand /\ (human \/ ~demand) THEN NoDemand
                             ELSE [claimed |-> l, fresh |-> FALSE]
<1> DEFINE r == Normalize(r0)
           probe == ~human /\ r.circuit = "open"
           taken == [r EXCEPT !.unexited = <<>>, !.overflow = FALSE, !.manual = NoManual,
                        !.epoch = @ + 1,
                        !.acknowledged = @ \cup {[spawn |-> e.spawn, inst |-> e.inst, proc |-> e.proc] :
                                                     e \in Entries(r)}]
           probing == [r EXCEPT !.last = r.cur, !.circuit = "half_open"]
           base == IF human THEN Lifted(taken) ELSE IF probe THEN probing ELSE r
           d == IF demand /\ ~human THEN MoreDemand(base.demand) ELSE base.demand
           cur == [id |-> l, gen |-> base.gen, probe |-> probe,
                   lease |-> IF probe THEN "live" ELSE "none", terminal |-> "no"]
           dem == IF d = NoDemand THEN NoDemand ELSE [claimed |-> l, fresh |-> FALSE]
           t == [base EXCEPT !.cur = cur, !.demand = dem]
           s == Claimed(r0, l, i, human, demand)
           token == TokenOf(r0, l, human)
<1>1. s = MarkProtected(Push(t, Entry(l, i, 0, {l})))
  BY Zenon DEF Claimed
<1>2. Evolves(r0, r) /\ r.demand = r0.demand
  BY NormalizeEvolves
<1>3. Shaped(r) /\ Probing(r) /\ r.epoch = r0.epoch /\ r.marked = r0.marked
      /\ r.judged = r0.judged /\ r.marksLost = r0.marksLost /\ Holds(r0, r)
      /\ Kin(r.cur, r0) /\ Kin(r.last, r0)
  BY <1>2 DEF Evolves
<1>4. token = [launch |-> l, gen |-> IF human THEN r.gen + 1 ELSE r.gen, probe |-> probe,
               previous |-> IF human \/ probe THEN NoLaunch ELSE r.cur]
  BY Zenon DEF TokenOf
<1>5. ~human => r.circuit # "half_open"
  BY DEF Refusal
<1> HIDE DEF r, token
<1>6. /\ token \in Tokens /\ token.launch = l /\ token.probe = probe
      /\ Kin(token.previous, r0)
  <2>1. r.gen \in Nat /\ r.gen + 1 \in Nat /\ r.cur \in LaunchRecords /\ probe \in BOOLEAN
    BY <1>3 DEF Shaped
  <2> DEFINE g == IF human THEN r.gen + 1 ELSE r.gen
             pr == IF human \/ probe THEN NoLaunch ELSE r.cur
  <2>2. g \in Nat /\ pr \in LaunchRecords /\ Kin(pr, r0)
    BY <2>1, <1>3, NoneTyped DEF Kin
  <2>3. token = [launch |-> l, gen |-> g, probe |-> probe, previous |-> pr]
    BY <1>4
  <2> HIDE DEF g, pr, probe
  <2> QED BY <2>1, <2>2, <2>3 DEF Tokens
<1>7. human => /\ Shaped(base) /\ base.circuit = "closed" /\ base.last = NoLaunch
               /\ base.epoch = r.epoch + 1 /\ base.marked = r.marked /\ base.judged = r.judged
               /\ base.marksLost = r.marksLost /\ base.demand = r.demand
  <2> SUFFICES ASSUME human PROVE /\ Shaped(base) /\ base.circuit = "closed" /\ base.last = NoLaunch
               /\ base.epoch = r.epoch + 1 /\ base.marked = r.marked /\ base.judged = r.judged
               /\ base.marksLost = r.marksLost /\ base.demand = r.demand
    OBVIOUS
  <2> DEFINE a == r.acknowledged \cup {[spawn |-> e.spawn, inst |-> e.inst, proc |-> e.proc] :
                                                     e \in Entries(r)}
             n == r.epoch + 1
  <2>1. taken = [r EXCEPT !.unexited = <<>>, !.overflow = FALSE, !.manual = NoManual,
                          !.epoch = n, !.acknowledged = a]
    BY <1>3 DEF Shaped
  <2>2. n \in Nat
    BY <1>3 DEF Shaped
  <2> HIDE DEF a, n, taken
  <2>3. /\ Shaped(taken) /\ taken.epoch = n /\ taken.marked = r.marked /\ taken.judged = r.judged
        /\ taken.marksLost = r.marksLost /\ taken.demand = r.demand
    BY <1>3, <2>1, <2>2 DEF Shaped
  <2> QED BY <2>3, LiftedFacts DEF n
<1>8. probe => /\ Shaped(base) /\ base.circuit = "half_open" /\ base.last = r.cur
               /\ base.epoch = r.epoch /\ base.marked = r.marked /\ base.judged = r.judged
               /\ base.marksLost = r.marksLost /\ base.demand = r.demand /\ base.manual = r.manual
  BY ZenonT(90), <1>3 DEF Shaped
<1>9. ~human /\ ~probe => base = r /\ r.circuit = "closed"
  BY <1>3, <1>5 DEF Shaped
<1>10. /\ Shaped(base) /\ (base.circuit = "half_open" => probe)
       /\ Kin(base.last, r0)
       /\ base.marked = r.marked /\ base.judged = r.judged
       /\ base.marksLost = r.marksLost /\ base.demand = r.demand
       /\ IF human THEN base.epoch = r.epoch + 1 ELSE base.epoch = r.epoch /\ base.manual = r.manual
  <2> HIDE DEF base
  <2>1. CASE human
    BY <2>1, <1>7, NoneTyped DEF Kin
  <2>2. CASE probe
    BY <2>2, <1>3, <1>8
  <2>3. CASE ~human /\ ~probe
    BY <2>3, <1>3, <1>9
  <2> QED BY <2>1, <2>2, <2>3
<1> HIDE DEF base
<1>11. probe \in BOOLEAN
  OBVIOUS
<1> HIDE DEF probe
<1>12. /\ cur \in LaunchRecords /\ cur.id = l /\ cur.probe = probe /\ cur.gen = base.gen
       /\ cur.terminal = "no" /\ (probe => cur.lease = "live")
  BY <1>10, <1>11 DEF LaunchRecords, Shaped
<1>13. dem \in Demands
  BY NoneTyped DEF Demands
<1>14. dem = IF r0.demand = NoDemand /\ (human \/ ~demand) THEN NoDemand
             ELSE [claimed |-> l, fresh |-> FALSE]
  BY <1>2, <1>3, <1>10, MoreDemandFacts DEF Shaped
<1> HIDE DEF cur, dem
<1>15. /\ Shaped(t) /\ t.circuit = base.circuit /\ t.gen = base.gen /\ t.cur = cur
       /\ t.last = base.last /\ t.manual = base.manual /\ t.epoch = base.epoch
       /\ t.marked = base.marked /\ t.judged = base.judged /\ t.marksLost = base.marksLost
       /\ t.demand = dem
  BY <1>10, <1>12, <1>13 DEF Shaped
<1> HIDE DEF t, s
<1>16. Shaped(s) /\ Alike(t, s) /\ s.manual = t.manual
  BY <1>1, <1>15, EntriesFacts, MarkProtectedFacts, AlikeTransitive
<1>17. Probing(s)
  <2>1. s.circuit = base.circuit /\ s.cur = cur /\ s.gen = base.gen
    BY <1>15, <1>16 DEF Alike
  <2>2. CASE probe
    <3>1. cur.probe
      BY <2>2, <1>12
    <3> QED BY <2>1, <2>2, <3>1, <1>12 DEF Probing
  <2>3. CASE ~probe
    BY <2>1, <2>3, <1>10 DEF Probing
  <2> QED BY <2>2, <2>3
<1>18. IF human THEN s.epoch > r0.epoch ELSE s.epoch = r0.epoch /\ Holds(r0, s)
  <2>1. r0.epoch \in Nat /\ s.epoch = base.epoch
    BY <1>15, <1>16 DEF Shaped, Alike
  <2> QED BY <2>1, <1>3, <1>10, <1>15, <1>16 DEF Alike, Holds
<1> QED BY <1>3, <1>6, <1>10, <1>12, <1>14, <1>15, <1>16, <1>17, <1>18 DEF Alike, s, token

\* A rollback restores the launch before the claim, or opens the circuit its
\* probe had half opened.
LEMMA RolledBackFacts ==
    ASSUME NEW r, Shaped(r), Probing(r), NEW token \in Tokens, NEW left,
           r.cur.id = token.launch => r.cur.probe = token.probe
    PROVE  LET s == RolledBack(r, token, left)
           IN  /\ Shaped(s) /\ Probing(s) /\ Kin(s.last, r)
               /\ Kin(s.cur, r) \/ s.cur = token.previous
               /\ s.epoch = r.epoch /\ Holds(r, s) /\ Unclaimed(r, s)
               /\ s.marked = r.marked /\ s.judged = r.judged /\ s.marksLost = r.marksLost
<1> DEFINE undone == [r EXCEPT !.blocked = TRUE, !.gen = @ + 1, !.cur = NoLaunch, !.circuit = "open"]
           restored == [r EXCEPT !.cur = token.previous]
           base == IF token.probe THEN undone ELSE restored
           never == IF left THEN {} ELSE {e \in Entries(r) : e.spawn = token.launch /\ e.proc = 0}
           u == Dropping(base, never)
           t == [u EXCEPT !.demand = IF @.claimed = token.launch THEN [claimed |-> 0, fresh |-> FALSE] ELSE @]
           s == RolledBack(r, token, left)
<1>1. s = r \/ (r.cur.id = token.launch /\ s = Finish(t))
  BY Zenon DEF RolledBack
<1>2. CASE s = r
  BY <1>2 DEF Kin, Holds, Unclaimed
<1>3. CASE r.cur.id = token.launch /\ s = Finish(t)
  <2> HIDE DEF s
  <2>1. /\ token.previous \in LaunchRecords /\ token.probe \in BOOLEAN
        /\ r.gen \in Nat /\ r.gen + 1 \in Nat
    BY DEF Tokens, Shaped
  <2>2. /\ Shaped(base) /\ (base.circuit = "half_open" => token.probe)
        /\ base.cur \in {NoLaunch, token.previous} /\ base.last = r.last /\ base.manual = r.manual
        /\ base.epoch = r.epoch /\ base.marked = r.marked /\ base.judged = r.judged
        /\ base.marksLost = r.marksLost /\ base.demand = r.demand
        /\ base.circuit # "half_open"
    <3>1. CASE token.probe
      <4> DEFINE g == r.gen + 1
      <4>1. base = [r EXCEPT !.blocked = TRUE, !.gen = g, !.cur = NoLaunch, !.circuit = "open"]
        BY <3>1
      <4> HIDE DEF base, g
      <4> QED BY ZenonT(90), <4>1, <2>1, NoneTyped DEF Shaped, g
    <3>2. CASE ~token.probe
      <4>1. base = [r EXCEPT !.cur = token.previous] /\ r.circuit # "half_open"
        BY <3>2, <1>3 DEF Probing
      <4> HIDE DEF base
      <4> QED BY <4>1, <2>1 DEF Shaped
    <3> QED BY <3>1, <3>2
  <2> HIDE DEF base, never
  <2>3. Shaped(u) /\ Alike(base, u) /\ u.manual = base.manual
    BY <2>2, EntriesFacts
  <2> HIDE DEF u
  <2>4. /\ Shaped(t) /\ t.circuit = u.circuit /\ t.cur = u.cur /\ t.last = u.last
        /\ t.manual = u.manual /\ t.epoch = u.epoch
        /\ t.marked = u.marked /\ t.judged = u.judged /\ t.marksLost = u.marksLost
        /\ Unclaimed(u, t)
    BY <2>3, NoneTyped DEF Shaped, Unclaimed
  <2> HIDE DEF t
  <2>5. Shaped(s) /\ Alike(t, s) /\ Holds(t, s)
    BY <1>3, <2>4, FinishFacts
  <2>6. /\ s.circuit # "half_open" /\ s.last = r.last /\ s.cur \in {NoLaunch, token.previous}
        /\ s.epoch = r.epoch /\ s.demand = t.demand
        /\ s.marked = r.marked /\ s.judged = r.judged /\ s.marksLost = r.marksLost
    BY <2>2, <2>3, <2>4, <2>5 DEF Alike
  <2>7. Holds(r, s) /\ Unclaimed(r, s)
    BY <2>2, <2>3, <2>4, <2>5, <2>6 DEF Alike, Holds, Unclaimed
  <2>8. Probing(s) /\ Kin(s.last, r) /\ (Kin(s.cur, r) \/ s.cur = token.previous)
    BY <2>6, NoneTyped DEF Probing, Kin
  <2> QED BY <2>5, <2>6, <2>7, <2>8 DEF s
<1> QED BY <1>1, <1>2, <1>3

\* One frame's transition; only a completed turn may end a demand.
LEMMA TransitionEvolves ==
    ASSUME NEW r, Shaped(r), Probing(r), NEW f \in Frames, NEW same, NEW echo
    PROVE  /\ Evolves(r, Transition(r, f, same, echo))
           /\ IF f.kind = "turn_completed" THEN TurnServes(r, Transition(r, f, same, echo), f.launch)
              ELSE Unclaimed(r, Transition(r, f, same, echo))
<1>1. CASE f.kind = "terminal_failure"
  BY <1>1, TerminalFailureEvolves DEF Transition, Unclaimed
<1>2. CASE f.kind = "turn_completed"
  BY <1>2, TurnCompletedEvolves, EvolvesReflexive DEF Transition, TurnServes
<1>3. CASE f.kind = "process_spawned"
  BY <1>3, ProcessSpawnedEvolves DEF Transition, Unclaimed
<1>4. CASE f.kind = "process_exited"
  BY <1>4, ProcessExitedEvolves DEF Transition, Unclaimed
<1>5. CASE f.kind = "start_rebound"
  BY <1>5, StartReboundEvolves DEF Transition, Unclaimed
<1>6. CASE f.kind = "start_not_spawned"
  BY <1>6, StartRejectedEvolves DEF Transition
<1> QED BY <1>1, <1>2, <1>3, <1>4, <1>5, <1>6 DEF Frames

\* A judged frame advances the watermark of its instance.
LEMMA JudgedFacts ==
    ASSUME NEW r, Shaped(r), Probing(r), NEW f \in Frames, NEW same, NEW echo
    PROVE  LET s == Judged(r, f, same, echo)
           IN  /\ Shaped(s) /\ Probing(s) /\ Kin(s.cur, r) /\ Kin(s.last, r) /\ Holds(r, s)
               /\ s.epoch = r.epoch /\ s.marksLost = r.marksLost
               /\ s.judged /\ s.marked = r.marked \cup {f.inst}
               /\ ~Applies(r, f) => s.demand = r.demand
               /\ f.kind # "turn_completed" => Unclaimed(r, s)
               /\ f.kind = "turn_completed" => TurnServes(r, s, f.launch)
<1> DEFINE t == IF Applies(r, f) THEN Transition(r, f, same, echo) ELSE EvidenceLost(r)
           k == t.marked \cup {f.inst}
           s == [t EXCEPT !.marked = k, !.judged = TRUE]
<1>1. /\ Evolves(r, t) /\ (~Applies(r, f) => t.demand = r.demand)
      /\ (f.kind # "turn_completed" => Unclaimed(r, t))
      /\ (f.kind = "turn_completed" => TurnServes(r, t, f.launch))
  BY TransitionEvolves, EvidenceLostEvolves DEF Unclaimed, TurnServes
<1>2. Judged(r, f, same, echo) = s
  BY Zenon DEF Judged
<1> HIDE DEF t
<1>3. Shaped(t)
  BY <1>1 DEF Evolves
<1>4. k = r.marked \cup {f.inst}
  BY <1>1 DEF Evolves
<1> HIDE DEF k
<1>5. /\ Shaped(s) /\ s.circuit = t.circuit /\ s.gen = t.gen /\ s.cur = t.cur /\ s.last = t.last
      /\ s.manual = t.manual /\ s.epoch = t.epoch /\ s.marksLost = t.marksLost
      /\ s.judged /\ s.marked = k /\ s.demand = t.demand
  BY <1>3 DEF Shaped
<1> HIDE DEF s
<1> QED BY <1>1, <1>2, <1>4, <1>5 DEF Evolves, Probing, Holds, Unclaimed, TurnServes

-----------------------------------------------------------------------------
(* Steps of the system. *)

\* A launch that some record or token remembers, up to its outcome.
FromRemembered(x) == x.id = 0 \/ \E y \in Remembered : x.id = y.id /\ x.probe = y.probe

\* Tokens stay or are spent, and no start can newly be rolled back.
TokensKept ==
    \A l \in Launches :
        /\ (starts'[l].phase = "none") <=> (starts[l].phase = "none")
        /\ starts'[l].token \in {starts[l].token, NoToken}
        /\ starts'[l].undo # "no" => starts'[l].phase # "claimed"
        /\ (starts'[l].phase = "claimed" \/ starts'[l].undo # "no") =>
              /\ starts[l].phase = "claimed" \/ starts[l].undo # "no"
              /\ starts'[l].token = starts[l].token

\* What a step does to the hold on lost evidence.
EvidenceStep ==
    b.manual.reason = "outcome_evidence_lost" =>
        b'.manual = b.manual \/ b'.epoch > b.epoch \/ RecordUnreadable

\* A launch of the record comes from what is remembered.
LEMMA KinRemembered ==
    ASSUME NEW x, Kin(x, b)
    PROVE  FromRemembered(x)
BY DEF Kin, FromRemembered, Remembered

\* Launches are numbered: the next one is new.
LEMMA NextLaunch ==
    ASSUME Minted, MaxLaunch \in Nat
    PROVE  /\ Cardinality(Known) \in Nat /\ Known = 1..Cardinality(Known)
           /\ Cardinality(Known) + 1 \notin Known
<1>1. PICK n \in 0..MaxLaunch : Known = 1..n
  BY DEF Minted
<1>2. n \in Nat /\ Cardinality(1..n) = n
  BY FS_Interval
<1>3. Cardinality(Known) = n
  BY <1>1, <1>2
<1> QED BY <1>1, <1>2, <1>3

\* A step that keeps the tokens keeps what they agree on.
LEMMA TokensAgreeKept ==
    ASSUME Minted, TokensAgree, TokensKept, FromRemembered(b'.cur), FromRemembered(b'.last)
    PROVE  Known' = Known /\ Minted' /\ TokensAgree'
<1>1. Known' = Known
  BY DEF Known, TokensKept
<1>2. Minted'
  BY <1>1 DEF Minted
<1>3. NoToken.launch = 0 /\ NoToken.previous.id = 0
  BY DEF NoToken, NoLaunch
<1>4. ASSUME NEW x, x \in Remembered'
      PROVE  FromRemembered(x)
  <2>1. x = b'.cur \/ x = b'.last \/ \E l \in Launches : x = starts'[l].token.previous
    BY <1>4 DEF Remembered
  <2>2. ASSUME NEW l \in Launches, x = starts'[l].token.previous
        PROVE  FromRemembered(x)
    <3>1. starts'[l].token \in {starts[l].token, NoToken}
      BY DEF TokensKept
    <3> QED BY <2>2, <3>1, <1>3 DEF FromRemembered, Remembered
  <2> QED BY <2>1, <2>2
<1>5. ASSUME NEW x, x \in Remembered'
      PROVE  x.id \in Known' \cup {0}
  BY <1>1, <1>4, <1>5 DEF FromRemembered, TokensAgree
<1>6. ASSUME NEW l \in Launches
      PROVE  /\ starts'[l].token.launch \in {0, l}
             /\ starts'[l].undo # "no" => starts'[l].phase # "claimed"
             /\ (starts'[l].phase = "claimed" \/ starts'[l].undo # "no") => starts'[l].token.launch = l
  BY <1>3 DEF TokensKept, TokensAgree
<1>7. ASSUME NEW l \in Launches, NEW x, x \in Remembered', x.id = l, starts'[l].token.launch = l
      PROVE  x.probe = starts'[l].token.probe
  <2>1. l # 0
    BY DEF Launches
  <2>2. starts'[l].token = starts[l].token
    BY <1>3, <1>7, <2>1 DEF TokensKept
  <2>3. PICK y \in Remembered : x.id = y.id /\ x.probe = y.probe
    BY <1>4, <1>7, <2>1 DEF FromRemembered
  <2> QED BY <1>7, <2>2, <2>3 DEF TokensAgree
<1>8. Launches' = Launches
  BY DEF Launches
<1> QED BY <1>1, <1>2, <1>5, <1>6, <1>7, <1>8 DEF TokensAgree

\* The frame at the head stays when frames are appended.
LEMMA AppendKeepsHead ==
    ASSUME NEW q \in Seq(Frames), NEW f \in Frames
    PROVE  /\ Append(q, f) \in Seq(Frames) /\ Append(q, f) # <<>>
           /\ q # <<>> => Head(Append(q, f)) = Head(q)
BY HeadTailAppend, AppendProperties

\* A step that only lets the record evolve, spends tokens or queues a frame.
LEMMA QuietStep ==
    ASSUME IInv, Typed', TokensKept, FromRemembered(b'.cur), FromRemembered(b'.last),
           Probing(b'), Unclaimed(b, b'), wake' = wake, heard' = heard,
           b'.judged = b.judged, b'.marked = b.marked, b'.marksLost = b.marksLost,
           heard = 1 => outbox' # <<>> /\ Head(outbox') = Head(outbox)
    PROVE  IInv'
<1>1. Known' = Known /\ Minted' /\ TokensAgree'
  BY TokensAgreeKept DEF IInv
<1>2. ProbeIsLeased'
  BY DEF Probing, ProbeIsLeased
<1>3. WakeIsOwed'
  BY <1>1, NoneTyped DEF IInv, WakeIsOwed, Unclaimed
<1>4. HeardIsJudged'
  BY DEF IInv, HeardIsJudged
<1> QED BY <1>1, <1>2, <1>3, <1>4 DEF IInv

\* Steps of the record alone.
LEMMA RecordStep ==
    ASSUME IInv, Evolves(b, b'), Unclaimed(b, b'), wake' = wake, heard' = heard,
           UNCHANGED <<starts, procs, outbox>>, inst' \in Nat, conn' \in Nat
    PROVE  IInv' /\ EvidenceStep
<1>1. Shaped(b') /\ Probing(b') /\ Kin(b'.cur, b) /\ Kin(b'.last, b)
  BY DEF Evolves
<1>2. Typed'
  BY <1>1 DEF IInv, Typed, Launches, Processes, StartRecords, ProcessRecords, Frames, Tokens, LaunchRecords, Shaped, Demands
<1>3. TokensKept
  BY DEF TokensKept, IInv, TokensAgree
<1>4. FromRemembered(b'.cur) /\ FromRemembered(b'.last)
  BY <1>1, KinRemembered
<1>5. heard = 1 => outbox # <<>>
  BY DEF IInv, HeardIsJudged
<1>6. IInv'
  BY <1>1, <1>2, <1>3, <1>4, <1>5, QuietStep DEF Evolves
<1> QED BY <1>6 DEF EvidenceStep, Evolves, Holds

\* Steps of the daemon alone.
LEMMA DaemonStep ==
    ASSUME IInv, b' = b, TokensKept, starts' \in [Launches -> StartRecords],
           procs' \in [Processes -> ProcessRecords],
           \A p \in Processes : procs'[p].state # "none" => procs'[p].last \in Launches,
           UNCHANGED <<inst, conn, wake, heard>>,
           outbox' = outbox \/ \E f \in Frames : outbox' = Append(outbox, f)
    PROVE  IInv' /\ EvidenceStep
<1>1. outbox' \in Seq(Frames)
  BY AppendKeepsHead DEF IInv, Typed
<1>2. Typed'
  BY SMTT(40), <1>1 DEF IInv, Typed, Launches, Processes, StartRecords, ProcessRecords, Frames, Tokens, LaunchRecords, Shaped, Demands
<1>3. Shaped(b) /\ Probing(b)
  BY DEF IInv, Typed, ProbeIsLeased, Probing
<1>4. Evolves(b, b)
  BY <1>3, EvolvesReflexive
<1>5. FromRemembered(b'.cur) /\ FromRemembered(b'.last)
  BY <1>4, KinRemembered DEF Evolves
<1>6. heard = 1 => outbox' # <<>> /\ Head(outbox') = Head(outbox)
  BY AppendKeepsHead DEF IInv, Typed, HeardIsJudged
<1>7. IInv'
  BY <1>2, <1>3, <1>5, <1>6, QuietStep DEF Unclaimed
<1> QED BY <1>7 DEF EvidenceStep

\* The record is well formed.
LEMMA RecordOf ==
    ASSUME IInv
    PROVE  Shaped(b) /\ Probing(b) /\ Evolves(b, b)
BY EvolvesReflexive DEF IInv, Typed, ProbeIsLeased, Probing

\* The reconcile, the markers, the lift and the passage of time.
LEMMA RecordSteps ==
    ASSUME IInv,
           \/ \E i \in Instances : ObserveReady(i)
           \/ \E epoch \in 0..MaxLaunch, acked \in BOOLEAN : DeliverMarker(epoch, acked)
           \/ Lift \/ LeaseRunsOut \/ BackoffPasses \/ Restart \/ Connect
    PROVE  IInv' /\ EvidenceStep
<1>0. Shaped(b) /\ Probing(b) /\ Evolves(b, b) /\ inst \in Nat /\ conn \in Nat
  BY RecordOf DEF IInv, Typed
<1>1. ASSUME NEW i \in Instances, ObserveReady(i)
      PROVE  IInv' /\ EvidenceStep
  BY <1>0, <1>1, DaemonReadyEvolves, RecordStep DEF ObserveReady, Unclaimed
<1>2. ASSUME NEW epoch \in 0..MaxLaunch, NEW acked \in BOOLEAN, DeliverMarker(epoch, acked)
      PROVE  IInv' /\ EvidenceStep
  BY <1>0, <1>2, EvidenceLostEvolves, RecordStep DEF DeliverMarker, daemon, ghosts, Unclaimed
<1>3. CASE Lift
  BY <1>0, <1>3, LiftEvolves, RecordStep DEF Lift, daemon, ghosts, Unclaimed
<1>4. CASE LeaseRunsOut
  <2>1. Evolves(b, b') /\ b'.demand = b.demand
    BY <1>0, <1>4 DEF LeaseRunsOut, Shaped, LaunchRecords, Evolves, Probing, Kin, Holds
  <2> QED BY <1>0, <1>4, <2>1, RecordStep DEF LeaseRunsOut, daemon, ghosts, Unclaimed
<1>5. CASE BackoffPasses
  <2>1. Evolves(b, b') /\ b'.demand = b.demand
    BY <1>0, <1>5 DEF BackoffPasses, Shaped, Evolves, Probing, Kin, Holds
  <2> QED BY <1>0, <1>5, <2>1, RecordStep DEF BackoffPasses, daemon, ghosts, Unclaimed
<1>6. CASE Restart
  BY <1>0, <1>6, RecordStep DEF Restart, ghosts, Unclaimed
<1>7. CASE Connect
  BY <1>0, <1>7, RecordStep DEF Connect, ghosts, Unclaimed
<1> QED BY <1>1, <1>2, <1>3, <1>4, <1>5, <1>6, <1>7

\* The starts that end keep their tokens.
LEMMA EndedFacts ==
    ASSUME starts \in [Launches -> StartRecords], TokensAgree, NEW ls, ls \subseteq Out, starts' = Ended(ls)
    PROVE  starts' \in [Launches -> StartRecords] /\ TokensKept
<1>1. \A l \in Launches : starts'[l] = IF l \in ls THEN [starts[l] EXCEPT !.phase = "over", !.on = 0] ELSE starts[l]
  BY DEF Ended
<1>2. \A l \in Launches : l \in ls => starts[l].phase = "out"
  BY DEF Out
<1>3. ASSUME NEW l \in Launches
      PROVE  /\ starts'[l] \in StartRecords /\ starts'[l].token = starts[l].token
             /\ starts'[l].undo = starts[l].undo
             /\ starts'[l].phase = IF l \in ls THEN "over" ELSE starts[l].phase
  <2>1. starts[l] \in StartRecords
    OBVIOUS
  <2>2. CASE l \in ls
    <3>1. starts'[l] = [starts[l] EXCEPT !.phase = "over", !.on = 0]
      BY <1>1, <2>2
    <3> DEFINE x == starts[l]
               y == [x EXCEPT !.phase = "over", !.on = 0]
    <3>2. x \in StartRecords /\ starts'[l] = y
      BY <2>1, <3>1
    <3> HIDE DEF x
    <3>3. y \in StartRecords /\ y.token = x.token /\ y.undo = x.undo /\ y.phase = "over"
      BY <3>2 DEF StartRecords
    <3> HIDE DEF y
    <3> QED BY <2>2, <3>2, <3>3 DEF x
  <2>3. CASE l \notin ls
    BY <1>1, <2>1, <2>3
  <2> QED BY <2>2, <2>3
<1>4. starts' \in [Launches -> StartRecords]
  BY <1>3 DEF Ended
<1> QED BY <1>2, <1>3, <1>4 DEF TokensKept, TokensAgree

\* The steps of the daemon: spawns, rebinds, refusals, respawns, turns, exits.
LEMMA DaemonSteps ==
    ASSUME IInv,
           \/ \E l \in Launches, superseded \in SUBSET Launches, p \in Processes : Spawn(l, superseded, p)
           \/ \E l \in Launches, p \in Processes : Rebind(l, p)
           \/ \E l \in Launches, reason \in {"spawn_error", "stale_dispatch", "other"} : RefuseStart(l, reason)
           \/ \E l \in Launches, p \in Processes : Respawn(l, p)
           \/ \E p \in Processes, kind \in {"terminal_failure", "turn_completed"} : EndTurn(p, kind)
           \/ \E p \in Processes : Exit(p)
    PROVE  IInv' /\ EvidenceStep
<1>0. /\ starts \in [Launches -> StartRecords] /\ procs \in [Processes -> ProcessRecords]
      /\ \A p \in Processes : procs[p].state # "none" => procs[p].last \in Launches
      /\ inst \in Nat /\ TokensAgree
  BY DEF IInv, Typed
<1>a. \A l \in Launches : l \in 0..MaxLaunch /\ l \in Nat
  BY BreakerAssumption DEF Launches
<1>b. starts' = starts => starts' \in [Launches -> StartRecords] /\ TokensKept
  BY <1>0 DEF TokensKept, TokensAgree
<1>1. ASSUME NEW l \in Launches, NEW superseded \in SUBSET Launches, NEW p \in Processes,
             Spawn(l, superseded, p)
      PROVE  IInv' /\ EvidenceStep
  <2>1. superseded \cup {l} \subseteq Out
    BY <1>1 DEF Spawn, Accepts
  <2>2. starts' \in [Launches -> StartRecords] /\ TokensKept
    BY <1>0, <1>1, <2>1, EndedFacts DEF Spawn
  <2>3. /\ procs' \in [Processes -> ProcessRecords]
        /\ \A q \in Processes : procs'[q].state # "none" => procs'[q].last \in Launches
    BY <1>0, <1>a, <1>1 DEF Spawn, ProcessRecords
  <2>4. \E f \in Frames : outbox' = Append(outbox, f)
    BY <1>0, <1>1 DEF Spawn, Queue, Frames
  <2> QED BY <1>1, <2>2, <2>3, <2>4, DaemonStep DEF Spawn, daemon, ghosts
<1>2. ASSUME NEW l \in Launches, NEW p \in Processes, Rebind(l, p)
      PROVE  IInv' /\ EvidenceStep
  <2>1. {l} \subseteq Out
    BY <1>2 DEF Rebind, Accepts
  <2>2. starts' \in [Launches -> StartRecords] /\ TokensKept
    BY <1>0, <1>2, <2>1, EndedFacts DEF Rebind
  <2>3. /\ procs' \in [Processes -> ProcessRecords]
        /\ \A q \in Processes : procs'[q].state # "none" => procs'[q].last \in Launches
    BY <1>0, <1>a, <1>2 DEF Rebind, ProcessRecords
  <2>4. \E f \in Frames : outbox' = Append(outbox, f)
    BY <1>0, <1>2 DEF Rebind, Queue, Frames
  <2> QED BY <1>2, <2>2, <2>3, <2>4, DaemonStep DEF Rebind, daemon, ghosts
<1>3. ASSUME NEW l \in Launches, NEW reason \in {"spawn_error", "stale_dispatch", "other"},
             RefuseStart(l, reason)
      PROVE  IInv' /\ EvidenceStep
  <2>1. {l} \subseteq Out
    BY <1>3 DEF RefuseStart
  <2>2. starts' \in [Launches -> StartRecords] /\ TokensKept
    BY <1>0, <1>3, <2>1, EndedFacts DEF RefuseStart
  <2>3. \E f \in Frames : outbox' = Append(outbox, f)
    BY <1>0, <1>3 DEF RefuseStart, Queue, Frames
  <2> QED BY <1>0, <1>3, <2>2, <2>3, DaemonStep DEF RefuseStart, daemon, ghosts
<1>4. ASSUME NEW l \in Launches, NEW p \in Processes, Respawn(l, p)
      PROVE  IInv' /\ EvidenceStep
  <2>1. /\ procs' \in [Processes -> ProcessRecords]
        /\ \A q \in Processes : procs'[q].state # "none" => procs'[q].last \in Launches
    BY <1>0, <1>a, <1>4 DEF Respawn, ProcessRecords
  <2>2. \E f \in Frames : outbox' = Append(outbox, f)
    BY <1>0, <1>4 DEF Respawn, Queue, Frames
  <2> QED BY <1>b, <1>4, <2>1, <2>2, DaemonStep DEF Respawn, daemon, ghosts
<1>5. ASSUME NEW p \in Processes, NEW kind \in {"terminal_failure", "turn_completed"}, EndTurn(p, kind)
      PROVE  IInv' /\ EvidenceStep
  <2>1. procs[p].last \in Launches
    BY <1>0, <1>5 DEF EndTurn, Live
  <2>2. \E f \in Frames : outbox' = Append(outbox, f)
    BY <1>0, <1>5, <2>1 DEF EndTurn, Queue, Frames
  <2> QED BY <1>0, <1>b, <1>5, <2>2, DaemonStep DEF EndTurn, daemon, ghosts
<1>6. ASSUME NEW p \in Processes, Exit(p)
      PROVE  IInv' /\ EvidenceStep
  <2> DEFINE x == [procs[p] EXCEPT !.state = "dead", !.spawn = 0, !.told = TRUE]
  <2>a. procs[p] \in ProcessRecords /\ procs[p].state = "alive"
    BY <1>0, <1>6 DEF Exit
  <2>b. x \in ProcessRecords /\ x.last = procs[p].last
    BY <2>a DEF ProcessRecords
  <2>c. procs' = [procs EXCEPT ![p] = x]
    BY <1>0, <1>6, <2>a DEF Exit, ProcessRecords
  <2>1. /\ procs' \in [Processes -> ProcessRecords]
        /\ \A q \in Processes : procs'[q].state # "none" => procs'[q].last \in Launches
    <3> HIDE DEF x
    <3> QED BY <1>0, <2>a, <2>b, <2>c
  <2>2. procs[p].last \in Launches /\ procs[p].spawn \in Nat
    BY <1>0, <1>6 DEF Exit, ProcessRecords
  <2>3. outbox' = outbox \/ \E f \in Frames : outbox' = Append(outbox, f)
    BY <1>0, <1>6, <2>2 DEF Exit, Queue, Frames
  <2> QED BY <1>b, <1>6, <2>1, <2>3, DaemonStep DEF Exit, daemon, ghosts
<1> QED BY <1>1, <1>2, <1>3, <1>4, <1>5, <1>6

\* A refused wake is recorded as demand.
LEMMA WakeRefusedStep ==
    ASSUME IInv, NEW message \in BOOLEAN, NEW demand \in BOOLEAN, WakeRefused(message, demand)
    PROVE  IInv' /\ EvidenceStep
<1>0. Shaped(b) /\ Probing(b) /\ b.demand \in Demands /\ inst \in Nat /\ conn \in Nat
  BY RecordOf DEF IInv, Typed, Shaped
<1>1. /\ Evolves(b, b') /\ b'.demand = IF demand THEN MoreDemand(b.demand) ELSE b.demand
  BY <1>0, GateEvolves DEF WakeRefused
<1>2. CASE ~demand
  BY <1>0, <1>1, <1>2, RecordStep DEF WakeRefused, daemon, Unclaimed
<1>3. CASE demand
  <2>1. MaxLaunch \in Nat /\ Minted
    BY BreakerAssumption DEF IInv
  <2>2. Cardinality(Known) \in Nat /\ wake' = Cardinality(Known) + 1
    BY <1>3, <2>1, NextLaunch DEF WakeRefused
  <2>3. Typed'
    BY SMTT(40), <1>1, <2>2 DEF IInv, Typed, WakeRefused, daemon, Evolves, Launches, Processes,
         StartRecords, ProcessRecords, Frames, Tokens, LaunchRecords, Shaped, Demands
  <2>4. TokensKept
    BY DEF TokensKept, WakeRefused, IInv, TokensAgree
  <2>5. Known' = Known /\ Minted' /\ TokensAgree'
    BY <1>1, <2>4, KinRemembered, TokensAgreeKept DEF Evolves, IInv
  <2>6. WakeIsOwed'
    BY <1>0, <1>1, <1>3, <2>2, <2>5, MoreDemandFacts DEF WakeIsOwed
  <2>7. ProbeIsLeased'
    BY <1>1 DEF Evolves, Probing, ProbeIsLeased
  <2>8. HeardIsJudged'
    BY <1>1 DEF Evolves, HeardIsJudged, WakeRefused, IInv
  <2> QED BY <1>1, <2>3, <2>5, <2>6, <2>7, <2>8 DEF IInv, EvidenceStep, Evolves, Holds
<1> QED BY <1>2, <1>3

\* A claim: the one step that mints a launch and its token.
LEMMA ClaimStep ==
    ASSUME IInv, NEW i \in Instances, NEW human \in BOOLEAN, NEW demand \in BOOLEAN,
           Claim(i, human, demand)
    PROVE  IInv' /\ EvidenceStep
<1> DEFINE l == Cardinality(Known) + 1
           token == TokenOf(b, l, human)
           new == [phase |-> "claimed", human |-> human, on |-> 0, epoch |-> b'.epoch,
                   undo |-> "no", token |-> token]
<1>0. Shaped(b) /\ Probing(b) /\ b.demand \in Demands /\ starts \in [Launches -> StartRecords]
  BY RecordOf DEF IInv, Typed, Shaped
<1>1. /\ MaxLaunch \in Nat /\ l \in Nat /\ l # 0 /\ Known = 1..(l - 1) /\ l \notin Known
      /\ Cardinality(Known) \in Nat
  BY BreakerAssumption, NextLaunch DEF IInv
<1>2. /\ l \in Launches /\ b' = Claimed(b, l, i, human, demand)
      /\ starts' = [starts EXCEPT ![l] = new]
      /\ human \/ Refusal(Normalize(b)).refusal = "none"
      /\ wake' = (IF demand THEN l ELSE wake) /\ (human => ~demand)
      /\ UNCHANGED <<inst, conn, procs, outbox, heard>>
  BY Zenon DEF Claim, daemon
<1> HIDE DEF l
<1>3. /\ Shaped(b') /\ Probing(b') /\ token \in Tokens
      /\ token.launch = l /\ Kin(token.previous, b)
      /\ b'.cur.id = l /\ b'.cur.probe = token.probe /\ Kin(b'.last, b)
      /\ b'.marked = b.marked /\ b'.judged = b.judged /\ b'.marksLost = b.marksLost
      /\ IF human THEN b'.epoch > b.epoch ELSE b'.epoch = b.epoch /\ Holds(b, b')
      /\ b'.demand = IF b.demand = NoDemand /\ (human \/ ~demand) THEN NoDemand
                     ELSE [claimed |-> l, fresh |-> FALSE]
  BY <1>0, <1>1, <1>2, ClaimedFacts
<1> HIDE DEF token
<1>4. /\ new \in StartRecords /\ new.phase = "claimed" /\ new.token = token /\ new.undo = "no"
  BY <1>3 DEF StartRecords, Shaped
<1> HIDE DEF new
<1>5. /\ starts' \in [Launches -> StartRecords] /\ starts'[l] = new
      /\ \A m \in Launches \ {l} : starts'[m] = starts[m]
  BY <1>0, <1>2, <1>4
<1>6. Typed'
  BY ZenonT(90), <1>1, <1>2, <1>3, <1>5 DEF IInv, Typed, Launches, Processes,
     StartRecords, ProcessRecords, Frames, Tokens, LaunchRecords, Shaped, Demands
<1>7. Known' = Known \cup {l}
  BY <1>2, <1>4, <1>5 DEF Known, Launches
<1>8. Known' = 1..l /\ Minted'
  <2>1. Known' = 1..l
    BY <1>1, <1>7
  <2>2. l \in 0..MaxLaunch
    BY <1>1, <1>2 DEF Launches
  <2> QED BY <2>1, <2>2 DEF Minted
<1>9. \A x \in Remembered' : x = b'.cur \/ FromRemembered(x)
  <2> SUFFICES ASSUME NEW x, x \in Remembered' PROVE x = b'.cur \/ FromRemembered(x)
    OBVIOUS
  <2>1. x = b'.cur \/ x = b'.last \/ \E m \in Launches : x = starts'[m].token.previous
    BY DEF Remembered, Launches
  <2>2. ASSUME NEW m \in Launches, x = starts'[m].token.previous PROVE FromRemembered(x)
    <3>1. CASE m = l
      BY <2>2, <3>1, <1>3, <1>4, <1>5, KinRemembered
    <3>2. CASE m # l
      BY <2>2, <3>2, <1>5 DEF FromRemembered, Remembered
    <3> QED BY <3>1, <3>2
  <2> QED BY <2>1, <2>2, <1>3, KinRemembered
<1>10. \A x \in Remembered : x.id \in Known \cup {0}
  BY DEF IInv, TokensAgree
<1>11. TokensAgree'
  <2>1. \A x \in Remembered' : x.id \in Known' \cup {0}
    BY <1>3, <1>7, <1>9, <1>10 DEF FromRemembered
  <2>2. ASSUME NEW m \in Launches
        PROVE  /\ starts'[m].token.launch \in {0, m}
               /\ starts'[m].undo # "no" => starts'[m].phase # "claimed"
               /\ (starts'[m].phase = "claimed" \/ starts'[m].undo # "no") => starts'[m].token.launch = m
               /\ \A x \in Remembered' : x.id = m /\ starts'[m].token.launch = m => x.probe = starts'[m].token.probe
    <3>1. CASE m = l
      <4>1. ASSUME NEW x, x \in Remembered', x.id = l PROVE x.probe = token.probe
        BY <4>1, <1>1, <1>3, <1>9, <1>10 DEF FromRemembered
      <4> QED BY <3>1, <4>1, <1>3, <1>4, <1>5
    <3>2. CASE m # l
      <4>1. starts'[m] = starts[m] /\ m # 0
        BY <3>2, <1>5 DEF Launches
      <4>2. ASSUME NEW x, x \in Remembered', x.id = m, starts[m].token.launch = m
            PROVE  x.probe = starts[m].token.probe
        <5>1. FromRemembered(x)
          BY <4>2, <3>2, <1>3, <1>9
        <5>2. PICK y \in Remembered : x.id = y.id /\ x.probe = y.probe
          BY <4>1, <4>2, <5>1 DEF FromRemembered
        <5> QED BY <4>2, <5>2 DEF IInv, TokensAgree
      <4> QED BY <4>1, <4>2 DEF IInv, TokensAgree
    <3> QED BY <3>1, <3>2
  <2>3. Launches' = Launches
    BY DEF Launches
  <2> QED BY <2>1, <2>2, <2>3 DEF TokensAgree
<1>12. WakeIsOwed'
  <2>1. Cardinality(Known') = l
    BY <1>1, <1>8, FS_Interval
  <2>2. wake \in Nat /\ wake <= l
    BY DEF IInv, Typed, WakeIsOwed, l
  <2>3. [claimed |-> l, fresh |-> FALSE] # NoDemand
    BY <1>1 DEF NoDemand
  <2>4. wake' # 0 => b'.demand = [claimed |-> l, fresh |-> FALSE]
    BY <1>2, <1>3 DEF IInv, WakeIsOwed
  <2>5. wake' \in Nat /\ wake' <= l
    BY <1>1, <1>2, <2>2
  <2>6. wake' # 0 => b'.demand # NoDemand /\ b'.demand.claimed = l
    BY <2>3, <2>4
  <2>7. Cardinality(Known)' = Cardinality(Known')
    OBVIOUS
  <2> QED BY <1>1, <2>1, <2>5, <2>6, <2>7 DEF WakeIsOwed
<1>13. ProbeIsLeased'
  BY <1>3 DEF Probing, ProbeIsLeased
<1>14. HeardIsJudged'
  BY <1>2, <1>3 DEF IInv, HeardIsJudged
<1>15. EvidenceStep
  BY <1>3 DEF EvidenceStep, Holds
<1> QED BY <1>6, <1>8, <1>11, <1>12, <1>13, <1>14, <1>15 DEF IInv

\* A dispatch spends the token of a start that left for sure.
LEMMA DispatchStep ==
    ASSUME IInv, NEW l \in Launches, NEW settles \in BOOLEAN,
           NEW result \in {"sent", "doubt", "failed"}, Dispatch(l, settles, result)
    PROVE  IInv' /\ EvidenceStep
<1>0. /\ Shaped(b) /\ Probing(b) /\ starts \in [Launches -> StartRecords] /\ conn \in Nat
      /\ starts[l].phase = "claimed"
  BY RecordOf DEF IInv, Typed, Dispatch
<1>1. Evolves(b, b') /\ b'.demand = b.demand
  BY <1>0, EvolvesReflexive DEF Dispatch, Shaped, Evolves, Probing, Kin, Holds
<1> DEFINE x == starts[l]
           undo == CASE result = "sent" -> "no" [] result = "doubt" -> "left" [] OTHER -> "never"
           token == IF result = "sent" THEN NoToken ELSE x.token
           phase == IF result = "failed" THEN "over" ELSE "out"
           on == IF result = "failed" THEN 0 ELSE conn
           y == [x EXCEPT !.phase = phase, !.on = on, !.token = token, !.undo = undo]
<1>2. /\ undo \in {"no", "left", "never"} /\ (undo # "no" => token = x.token)
      /\ token \in {x.token, NoToken} /\ phase \in {"out", "over"} /\ on \in Nat
  BY <1>0
<1>3. x \in StartRecords /\ NoToken \in Tokens
  BY <1>0, NoneTyped DEF NoToken, Tokens
<1>4. starts' = [starts EXCEPT ![l] = y]
  BY <1>0, <1>3 DEF Dispatch, StartRecords
<1> HIDE DEF undo, token, phase, on
<1>5. y \in StartRecords /\ y.phase = phase /\ y.token = token /\ y.undo = undo
  <2> HIDE DEF x
  <2>1. x.token \in Tokens
    BY <1>3 DEF StartRecords
  <2> QED BY <1>2, <1>3, <2>1 DEF StartRecords
<1> HIDE DEF y
<1>6. starts' \in [Launches -> StartRecords] /\ starts'[l] = y /\ \A m \in Launches \ {l} : starts'[m] = starts[m]
  BY <1>0, <1>4, <1>5
<1>7. TokensKept
  BY SMTT(40), <1>0, <1>2, <1>5, <1>6 DEF TokensKept, IInv, TokensAgree
<1>8. Typed'
  BY <1>1, <1>6 DEF Dispatch, daemon, ghosts, Evolves, IInv, Typed, Launches, Processes,
     StartRecords, ProcessRecords, Frames, Tokens, LaunchRecords, Shaped, Demands
<1>9. heard = 1 => outbox' # <<>> /\ Head(outbox') = Head(outbox)
  BY DEF Dispatch, IInv, HeardIsJudged
<1>10. IInv'
  BY <1>1, <1>7, <1>8, <1>9, KinRemembered, QuietStep DEF Evolves, Dispatch, ghosts, Unclaimed
<1> QED BY <1>1, <1>10 DEF EvidenceStep, Evolves, Holds

\* A rollback spends the token.
LEMMA RollbackStep ==
    ASSUME IInv, NEW l \in Launches, Rollback(l)
    PROVE  IInv' /\ EvidenceStep
<1> DEFINE x == starts[l]
           token == x.token
           y == [x EXCEPT !.undo = "no", !.token = NoToken]
<1>0. /\ Shaped(b) /\ Probing(b) /\ starts \in [Launches -> StartRecords] /\ x.undo # "no"
  BY RecordOf DEF IInv, Typed, Rollback
<1>1. x \in StartRecords /\ NoToken \in Tokens
  BY <1>0, NoneTyped DEF NoToken, Tokens
<1>2. token \in Tokens
  BY <1>1 DEF StartRecords
<1>3. token.launch = l /\ b.cur \in Remembered /\ token.previous \in Remembered
  BY <1>0 DEF IInv, TokensAgree, Remembered
<1>4. b.cur.id = token.launch => b.cur.probe = token.probe
  BY <1>3 DEF IInv, TokensAgree
<1>5. /\ Shaped(b') /\ Probing(b') /\ Kin(b'.last, b)
      /\ Kin(b'.cur, b) \/ b'.cur = token.previous
      /\ b'.epoch = b.epoch /\ Holds(b, b') /\ Unclaimed(b, b')
      /\ b'.marked = b.marked /\ b'.judged = b.judged /\ b'.marksLost = b.marksLost
  BY <1>0, <1>2, <1>4, RolledBackFacts DEF Rollback
<1>6. FromRemembered(b'.cur) /\ FromRemembered(b'.last)
  BY <1>3, <1>5, KinRemembered DEF FromRemembered
<1>7. starts' = [starts EXCEPT ![l] = y]
  BY <1>0, <1>1 DEF Rollback, StartRecords
<1>8. y \in StartRecords /\ y.phase = x.phase /\ y.token = NoToken /\ y.undo = "no"
  <2> HIDE DEF x
  <2> QED BY <1>1 DEF StartRecords
<1> HIDE DEF y
<1>9. starts' \in [Launches -> StartRecords] /\ starts'[l] = y /\ \A m \in Launches \ {l} : starts'[m] = starts[m]
  BY <1>0, <1>7, <1>8
<1>10. x.phase # "claimed"
  BY <1>0 DEF IInv, TokensAgree
<1>11. TokensKept
  BY SMTT(40), <1>8, <1>9, <1>10 DEF TokensKept, IInv, TokensAgree
<1>12. Typed'
  BY <1>5, <1>9 DEF Rollback, daemon, ghosts, IInv, Typed, Launches, Processes,
     StartRecords, ProcessRecords, Frames, Tokens, LaunchRecords, Shaped, Demands
<1>13. heard = 1 => outbox' # <<>> /\ Head(outbox') = Head(outbox)
  BY DEF Rollback, IInv, HeardIsJudged
<1>14. IInv'
  BY <1>5, <1>6, <1>11, <1>12, <1>13, QuietStep DEF Rollback, ghosts
<1> QED BY <1>5, <1>14 DEF EvidenceStep, Holds

\* A fold never removes a frame that was applied.
LEMMA FoldFrameStep ==
    ASSUME IInv, NEW k \in 1..MaxFrames, FoldFrame(k)
    PROVE  IInv' /\ EvidenceStep
<1>0. /\ Shaped(b) /\ Probing(b) /\ Evolves(b, b) /\ outbox \in Seq(Frames)
      /\ k \in 1..Len(outbox) /\ outbox' = RemoveAt(outbox, k) /\ b' = b /\ (k = 1 => heard = 0)
  BY RecordOf DEF IInv, Typed, FoldFrame
<1>1. outbox' \in Seq(Frames) /\ (k # 1 => outbox' # <<>> /\ Head(outbox') = Head(outbox))
  <2> DEFINE u == SubSeq(outbox, 1, k - 1)
             v == SubSeq(outbox, k + 1, Len(outbox))
  <2>1. outbox' = u \o v
    BY <1>0 DEF RemoveAt
  <2>2. u \in Seq(Frames) /\ v \in Seq(Frames) /\ Len(u) = k - 1
    BY <1>0
  <2>3. k # 1 => Len(u) >= 1 /\ u[1] = outbox[1]
    BY <1>0
  <2> HIDE DEF u, v
  <2>4. outbox' \in Seq(Frames) /\ Len(outbox') = Len(u) + Len(v)
    BY <2>1, <2>2
  <2>5. k # 1 => outbox'[1] = outbox[1] /\ Len(outbox') >= 1
    BY <2>1, <2>2, <2>3
  <2> QED BY <1>0, <2>4, <2>5
<1>2. heard = 1 => outbox' # <<>> /\ Head(outbox') = Head(outbox)
  BY <1>0, <1>1
<1>3. Typed'
  BY <1>1 DEF FoldFrame, daemon, ghosts, IInv, Typed, Launches, Processes,
     StartRecords, ProcessRecords, Frames, Tokens, LaunchRecords, Shaped, Demands
<1>4. TokensKept
  BY DEF TokensKept, FoldFrame, IInv, TokensAgree
<1>5. IInv'
  BY <1>0, <1>2, <1>3, <1>4, KinRemembered, QuietStep DEF Evolves, Unclaimed, FoldFrame, ghosts
<1> QED BY <1>0, <1>5 DEF EvidenceStep

\* A stop ends the wake with its demand.
LEMMA ManualStopStep ==
    ASSUME IInv, ManualStop
    PROVE  IInv' /\ EvidenceStep
<1>1. Evolves(b, b')
  BY RecordOf, ManuallyStoppedEvolves DEF ManualStop
<1>2. Typed'
  BY <1>1 DEF ManualStop, daemon, Evolves, IInv, Typed, Launches, Processes,
     StartRecords, ProcessRecords, Frames, Tokens, LaunchRecords, Shaped, Demands
<1>3. TokensKept
  BY DEF TokensKept, ManualStop, IInv, TokensAgree
<1>4. Known' = Known /\ Minted' /\ TokensAgree'
  BY <1>1, <1>3, KinRemembered, TokensAgreeKept DEF Evolves, IInv
<1>5. Cardinality(Known) \in Nat
  BY BreakerAssumption, NextLaunch DEF IInv
<1>6. WakeIsOwed' /\ HeardIsJudged' /\ ProbeIsLeased'
  BY <1>1, <1>4, <1>5 DEF WakeIsOwed, HeardIsJudged, ProbeIsLeased, Probing, Evolves, ManualStop, IInv
<1> QED BY <1>1, <1>2, <1>4, <1>6 DEF IInv, EvidenceStep, Evolves, Holds

\* A lost record forgets everything but that its watermarks were lost.
LEMMA RecordUnreadableStep ==
    ASSUME IInv, RecordUnreadable
    PROVE  IInv' /\ EvidenceStep
<1>1. /\ Shaped(b') /\ b'.circuit = "closed" /\ b'.cur = NoLaunch /\ b'.last = NoLaunch
      /\ b'.marked = {} /\ b'.marksLost
  <2>1. /\ Shaped(FreshRecord) /\ FreshRecord.circuit = "closed" /\ FreshRecord.cur = NoLaunch
        /\ FreshRecord.last = NoLaunch /\ FreshRecord.marked = {}
    BY NoneTyped DEF FreshRecord, Shaped
  <2> DEFINE t == [FreshRecord EXCEPT !.owed = "failure", !.marksLost = TRUE]
  <2>2. b' = t
    BY DEF RecordUnreadable, UnreadableRecord
  <2>3. /\ Shaped(t) /\ t.circuit = "closed" /\ t.cur = NoLaunch /\ t.last = NoLaunch
        /\ t.marked = {} /\ t.marksLost
    BY <2>1 DEF Shaped
  <2> QED BY <2>2, <2>3
<1>2. Typed'
  BY <1>1 DEF RecordUnreadable, daemon, IInv, Typed, Launches, Processes,
     StartRecords, ProcessRecords, Frames, Tokens, LaunchRecords, Shaped, Demands
<1>3. TokensKept
  BY DEF TokensKept, RecordUnreadable, IInv, TokensAgree
<1>4. FromRemembered(b'.cur) /\ FromRemembered(b'.last)
  BY <1>1, NoneTyped DEF FromRemembered
<1>5. Known' = Known /\ Minted' /\ TokensAgree'
  BY <1>3, <1>4, TokensAgreeKept DEF IInv
<1>6. Cardinality(Known) \in Nat
  BY BreakerAssumption, NextLaunch DEF IInv
<1>7. WakeIsOwed' /\ HeardIsJudged' /\ ProbeIsLeased'
  BY <1>1, <1>5, <1>6 DEF WakeIsOwed, HeardIsJudged, ProbeIsLeased, RecordUnreadable, IInv
<1> QED BY <1>2, <1>5, <1>7 DEF IInv, EvidenceStep

\* A delivery: the step that applies a frame.
LEMMA DeliverStep ==
    ASSUME IInv, NEW same \in BOOLEAN, NEW echo \in BOOLEAN, NEW acked \in BOOLEAN,
           Deliver(same, echo, acked)
    PROVE  IInv' /\ EvidenceStep
<1> DEFINE f == Head(outbox)
           r == IF b.judged THEN b ELSE Judged(b, f, same, echo)
           applies == Applies(b, f)
           serves == f.kind = "turn_completed" /\ applies /\ f.launch >= wake /\ r.demand # b.demand
           times == heard + (IF applies THEN 1 ELSE 0)
<1>0. /\ Shaped(b) /\ Probing(b) /\ Evolves(b, b) /\ outbox \in Seq(Frames) /\ outbox # <<>>
      /\ heard \in {0, 1} /\ b.demand \in Demands /\ wake \in Nat
  BY RecordOf DEF IInv, Typed, Deliver, Shaped
<1>1. f \in Frames /\ f.launch \in Launches /\ Tail(outbox) \in Seq(Frames)
  BY <1>0 DEF Frames
<1>2. /\ b' = [r EXCEPT !.judged = ~acked]
      /\ outbox' = IF acked THEN Tail(outbox) ELSE outbox
      /\ procs' = IF applies /\ f.kind = "process_spawned" THEN [procs EXCEPT ![f.proc].told = TRUE] ELSE procs
      /\ heard' = IF acked /\ times <= 1 THEN 0 ELSE times
      /\ wake' = IF serves THEN 0 ELSE wake
      /\ UNCHANGED <<inst, conn, starts>>
  BY Zenon DEF Deliver, daemon
<1> HIDE DEF f
<1>3. /\ Shaped(r) /\ Probing(r) /\ Kin(r.cur, b) /\ Kin(r.last, b) /\ Holds(b, r)
      /\ r.epoch = b.epoch /\ r.marksLost = b.marksLost /\ r.judged
      /\ f.inst \in r.marked \/ b.judged
      /\ ~applies => r.demand = b.demand
      /\ f.kind # "turn_completed" => Unclaimed(b, r)
      /\ f.kind = "turn_completed" => TurnServes(b, r, f.launch)
  <2>1. CASE b.judged
    BY <1>0, <2>1 DEF Evolves, Unclaimed, TurnServes
  <2>2. CASE ~b.judged
    BY <1>0, <1>1, <2>2, JudgedFacts
  <2> QED BY <2>1, <2>2
<1>4. applies => heard = 0
  BY <1>0 DEF Applies, IInv, HeardIsJudged, f
<1> HIDE DEF r, applies
<1>5. times \in {0, 1} /\ (times = 0 => heard = 0) /\ heard' = IF acked THEN 0 ELSE times
  BY <1>0, <1>2, <1>4
<1>6. /\ Shaped(b') /\ Probing(b') /\ b'.cur = r.cur /\ b'.last = r.last /\ b'.manual = r.manual
      /\ b'.epoch = r.epoch /\ b'.demand = r.demand /\ b'.judged = ~acked
  BY <1>2, <1>3 DEF Shaped, Probing
<1>7. /\ procs' \in [Processes -> ProcessRecords]
      /\ \A p \in Processes : procs'[p].state # "none" => procs'[p].last \in Launches
  <2>1. /\ procs \in [Processes -> ProcessRecords]
        /\ \A p \in Processes : procs[p].state # "none" => procs[p].last \in Launches
    BY DEF IInv, Typed
  <2>2. CASE applies /\ f.kind = "process_spawned"
    <3>1. f.proc \in Processes
      BY <1>1, <2>2 DEF Frames
    <3> DEFINE x == procs[f.proc]
               y == [x EXCEPT !.told = TRUE]
    <3>2. x \in ProcessRecords /\ procs' = [procs EXCEPT ![f.proc] = y]
      BY <1>2, <2>1, <2>2, <3>1
    <3>3. y \in ProcessRecords /\ y.state = x.state /\ y.last = x.last
      <4> HIDE DEF x
      <4> QED BY <3>2 DEF ProcessRecords
    <3> HIDE DEF y
    <3> QED BY <2>1, <3>1, <3>2, <3>3
  <2>3. CASE ~(applies /\ f.kind = "process_spawned")
    BY <1>2, <2>1, <2>3
  <2> QED BY <2>2, <2>3
<1>8. heard' \in {0, 1} /\ outbox' \in Seq(Frames) /\ wake' \in Nat
  BY <1>0, <1>1, <1>2, <1>5
<1>9. Typed'
  BY <1>2, <1>6, <1>7, <1>8 DEF IInv, Typed, Launches, Processes,
     StartRecords, ProcessRecords, Frames, Tokens, LaunchRecords, Shaped, Demands
<1>10. TokensKept
  BY <1>2 DEF TokensKept, IInv, TokensAgree
<1>11. Known' = Known /\ Minted' /\ TokensAgree'
  BY <1>3, <1>6, <1>10, KinRemembered, TokensAgreeKept DEF IInv
<1>12. WakeIsOwed'
  <2>1. wake <= Cardinality(Known) + 1 /\ Cardinality(Known) \in Nat
    BY BreakerAssumption, NextLaunch DEF IInv, WakeIsOwed
  <2>2. wake' # 0 => wake' = wake /\ ~serves /\ b.demand # NoDemand
                     /\ (b.demand.claimed = 0 \/ b.demand.fresh \/ b.demand.claimed >= wake)
    BY <1>2 DEF IInv, WakeIsOwed
  <2>3. f.launch \in Nat /\ f.launch # 0
    BY <1>1, BreakerAssumption DEF Launches
  <2>4. wake' # 0 => /\ r.demand # NoDemand
                     /\ r.demand.claimed = 0 \/ r.demand.fresh \/ r.demand.claimed >= wake
    <3> SUFFICES ASSUME wake' # 0
                 PROVE  /\ r.demand # NoDemand
                        /\ r.demand.claimed = 0 \/ r.demand.fresh \/ r.demand.claimed >= wake
      OBVIOUS
    <3>1. CASE r.demand \in {b.demand, [claimed |-> 0, fresh |-> FALSE]}
      BY <3>1, <2>2, NoneTyped
    <3>2. CASE r.demand \notin {b.demand, [claimed |-> 0, fresh |-> FALSE]}
      <4>1. f.kind = "turn_completed" /\ applies /\ b.demand.claimed = f.launch /\ ~b.demand.fresh
        BY <3>2, <1>3 DEF Unclaimed, TurnServes
      <4>2. f.launch >= wake
        BY <4>1, <2>2, <2>3
      <4> QED BY <4>1, <4>2, <3>2, <2>2
    <3> QED BY <3>1, <3>2
  <2> QED BY <1>0, <1>6, <1>11, <1>2, <2>1, <2>2, <2>4 DEF WakeIsOwed
<1>13. HeardIsJudged'
  <2>1. CASE acked
    BY <2>1, <1>5 DEF HeardIsJudged
  <2>2. CASE ~acked
    <3>1. b'.judged
      BY <2>2, <1>6
    <3> QED BY <2>2, <3>1, <1>0, <1>2 DEF HeardIsJudged
  <2> QED BY <2>1, <2>2
<1>14. ProbeIsLeased'
  BY <1>6 DEF Probing, ProbeIsLeased
<1>15. EvidenceStep
  BY <1>3, <1>6 DEF EvidenceStep, Holds
<1> QED BY <1>9, <1>11, <1>12, <1>13, <1>14, <1>15 DEF IInv

-----------------------------------------------------------------------------
(* What the launches remembered give. *)

\* The invariant holds initially.
LEMMA InitIInv == Init => IInv
<1> SUFFICES ASSUME Init PROVE IInv
  OBVIOUS
<1>1. Shaped(b) /\ b.cur = NoLaunch /\ b.last = NoLaunch /\ b.circuit = "closed"
  BY NoneTyped DEF Init, FreshRecord, Shaped
<1>2. NoToken \in Tokens /\ NoToken.launch = 0 /\ NoToken.previous = NoLaunch
  BY NoneTyped DEF NoToken, Tokens
<1>3. NoStart \in StartRecords /\ NoStart.phase = "none" /\ NoStart.undo = "no" /\ NoStart.token = NoToken
  BY <1>2 DEF NoStart, StartRecords
<1>4. NoProcess \in ProcessRecords /\ NoProcess.state = "none"
  BY BreakerAssumption DEF NoProcess, ProcessRecords
<1>5. \A l \in Launches : starts[l] = NoStart
  BY DEF Init
<1>6. Typed
  BY <1>1, <1>3, <1>4 DEF Init, Typed
<1>7. Known = {} /\ Known = 1..0 /\ Minted
  BY <1>3, <1>5, BreakerAssumption DEF Known, Minted
<1>8. Remembered \subseteq {NoLaunch}
  BY <1>1, <1>2, <1>3, <1>5 DEF Remembered
<1>9. TokensAgree
  BY <1>2, <1>3, <1>5, <1>8, NoneTyped DEF TokensAgree, Launches
<1>10. Cardinality(Known) = 0
  BY <1>7, FS_EmptySet
<1> QED BY <1>1, <1>6, <1>7, <1>9, <1>10 DEF IInv, ProbeIsLeased, WakeIsOwed, HeardIsJudged, Init

\* Every step keeps the invariant, and the hold on lost evidence.
LEMMA NextIInv == IInv /\ [Next]_vars => IInv' /\ (EvidenceStep \/ UNCHANGED vars)
<1> SUFFICES ASSUME IInv, [Next]_vars PROVE IInv' /\ (EvidenceStep \/ UNCHANGED vars)
  OBVIOUS
<1>1. CASE UNCHANGED vars
  <2>1. IInv'
    BY <1>1, RecordOf, RecordStep DEF vars, Unclaimed, IInv, Typed
  <2> QED BY <1>1, <2>1
<1>2. CASE Next
  BY <1>2, WakeRefusedStep, ClaimStep, DispatchStep, RollbackStep, DaemonSteps, RecordSteps,
     DeliverStep, FoldFrameStep, ManualStopStep, RecordUnreadableStep DEF Next
<1> QED BY <1>1, <1>2

\* The inductive invariant is an invariant.
THEOREM BreakerInvariant == Spec => []IInv
<1>1. IInv /\ [Next]_vars => IInv'
  BY NextIInv
<1> QED BY InitIInv, <1>1, PTL DEF Spec

\* A half-open circuit always has its probe, bound and under a lease, for any
\* number of launches, instances, processes, faults and queued frames.
THEOREM ProbeAlwaysLeased == Spec => []ProbeIsLeased
<1>1. IInv => ProbeIsLeased
  BY DEF IInv
<1> QED BY <1>1, BreakerInvariant, PTL

\* A refused wake that nobody else retries stays recorded until a late enough
\* clean turn, a stop or the loss of the record.
THEOREM WakeNeverForgotten == Spec => []WakeNotForgotten
<1>1. IInv => WakeNotForgotten
  BY DEF IInv, WakeIsOwed, WakeNotForgotten
<1> QED BY <1>1, BreakerInvariant, PTL

\* No frame is applied twice, even when acknowledgements and the record with
\* its watermarks are lost.
THEOREM FramesAppliedOnce == Spec => []AppliedOnce
<1>1. IInv => AppliedOnce
  BY DEF IInv, Typed, AppliedOnce
<1> QED BY <1>1, BreakerInvariant, PTL

\* Lost evidence keeps automatic starts refused until a human start, or until
\* the record itself is lost.
THEOREM LostEvidenceIsHeld == Spec => LostEvidenceHolds
<1>1. IInv /\ [Next]_vars =>
        [b.manual.reason = "outcome_evidence_lost" =>
           \/ b'.manual = b.manual
           \/ b'.epoch > b.epoch
           \/ RecordUnreadable]_vars
  BY NextIInv DEF EvidenceStep
<1> QED BY <1>1, BreakerInvariant, PTL DEF Spec, LostEvidenceHolds

-----------------------------------------------------------------------------
(* The processes without an exit. *)

EntryRecords ==
    [spawn : Nat, inst : Nat, proc : Nat, launches : SUBSET Nat, protected : BOOLEAN]

Acknowledgements == [spawn : Nat, inst : Nat, proc : Nat]

Triple(e) == <<e.spawn, e.inst, e.proc>>

\* What an entry says, its protection aside.
Core(e) == [spawn |-> e.spawn, inst |-> e.inst, proc |-> e.proc, launches |-> e.launches]
Cores(r) == {Core(e) : e \in Entries(r)}

\* The list is within its cap and names no process twice.
Listed(r) ==
    /\ {"unexited", "overflow", "exits", "acknowledged"} \subseteq DOMAIN r
    /\ r.unexited \in Seq(EntryRecords) /\ Len(r.unexited) <= UnexitedMax
    /\ \A j, k \in DOMAIN r.unexited : j # k => Triple(r.unexited[j]) # Triple(r.unexited[k])
    /\ r.acknowledged \subseteq Acknowledgements

\* Nothing about processes changes but other parts of the record.
Rests(r, s) ==
    /\ DOMAIN s = DOMAIN r /\ s.unexited = r.unexited /\ s.overflow = r.overflow
    /\ s.exits = r.exits /\ s.acknowledged = r.acknowledged

\* Nothing about processes changes but their protection.
Steady(r, s) ==
    /\ Listed(s) /\ Cores(s) = Cores(r) /\ s.overflow = r.overflow
    /\ s.exits = r.exits /\ s.acknowledged = r.acknowledged

\* A list of entries as a set: typed, and told apart by their triples.
LEMMA EntriesListed ==
    ASSUME NEW r, Listed(r)
    PROVE  /\ Entries(r) = {r.unexited[k] : k \in DOMAIN r.unexited}
           /\ Entries(r) \subseteq EntryRecords
           /\ \A x, y \in Entries(r) : x # y => Triple(x) # Triple(y)
BY DEF Listed, Entries, Range

\* A record that keeps its list as it is keeps everything about processes.
LEMMA RestsSteady ==
    ASSUME NEW r, Listed(r), NEW s, Rests(r, s)
    PROVE  Steady(r, s) /\ Listed(s) /\ Entries(s) = Entries(r)
BY DEF Listed, Rests, Steady, Cores, Entries

\* The core of an entry says what the entry says.
LEMMA CoreFacts ==
    ASSUME NEW e
    PROVE  /\ Core(e).spawn = e.spawn /\ Core(e).inst = e.inst /\ Core(e).proc = e.proc
           /\ Core(e).launches = e.launches
BY DEF Core

\* Dropping entries leaves the others, in order.
LEMMA DroppingList ==
    ASSUME NEW r, Listed(r), NEW es
    PROVE  LET s == Dropping(r, es)
           IN  /\ Listed(s) /\ Entries(s) = Entries(r) \ es /\ s.overflow = r.overflow
               /\ s.exits = r.exits /\ s.acknowledged = r.acknowledged
<1> DEFINE u == Others(r.unexited, es)
           s == [r EXCEPT !.unexited = u]
<1>1. Dropping(r, es) = s
  BY DEF Dropping
<1>2. r.unexited \in Seq(EntryRecords) /\ Len(r.unexited) \in Nat
  BY DEF Listed
<1>3. u \in Seq(EntryRecords) /\ \E f : EmbedsUpTo(u, r.unexited, Len(r.unexited), es, f)
  BY <1>2, OthersFacts
<1> HIDE DEF u
<1>4. PICK f : EmbedsUpTo(u, r.unexited, Len(r.unexited), es, f)
  BY <1>3
<1>5. /\ DOMAIN s = DOMAIN r /\ s.unexited = u /\ s.overflow = r.overflow
      /\ s.exits = r.exits /\ s.acknowledged = r.acknowledged
  BY DEF Listed
<1> HIDE DEF s
<1>6. DOMAIN r.unexited = 1..Len(r.unexited)
  BY <1>2
<1>7. {u[k] : k \in DOMAIN u} = {r.unexited[k] : k \in DOMAIN r.unexited} \ es
  <2>1. ASSUME NEW k \in DOMAIN u PROVE u[k] \in {r.unexited[j] : j \in DOMAIN r.unexited} \ es
    BY <1>4, <1>6 DEF EmbedsUpTo
  <2>2. ASSUME NEW j \in DOMAIN r.unexited, r.unexited[j] \notin es
        PROVE  r.unexited[j] \in {u[k] : k \in DOMAIN u}
    BY <1>4, <1>6, <2>2 DEF EmbedsUpTo
  <2> QED BY <2>1, <2>2
<1>8. Entries(s) = Entries(r) \ es
  BY <1>5, <1>7 DEF Entries, Range
<1>9. ASSUME NEW j \in DOMAIN u, NEW k \in DOMAIN u, j # k PROVE Triple(u[j]) # Triple(u[k])
  <2>1. j < k \/ k < j
    BY <1>3, <1>9
  <2>2. f[j] # f[k] /\ f[j] \in DOMAIN r.unexited /\ f[k] \in DOMAIN r.unexited
    BY <1>4, <1>6, <2>1 DEF EmbedsUpTo
  <2> QED BY <1>4, <2>2 DEF EmbedsUpTo, Listed
<1>10. Len(u) <= Len(r.unexited)
  <2>1. DOMAIN u = 1..Len(u) /\ Len(u) \in Nat
    BY <1>3
  <2>2. f \in [1..Len(u) -> 1..Len(r.unexited)]
    BY <1>4, <2>1 DEF EmbedsUpTo
  <2>3. \A j, k \in 1..Len(u) : j # k => f[j] # f[k]
    BY <1>4, <2>1, <2>2 DEF EmbedsUpTo
  <2>4. ASSUME NEW n \in Nat PROVE IsFiniteSet(1..n) /\ Cardinality(1..n) = n
    BY FS_Interval
  <2> SUFFICES ASSUME Len(r.unexited) < Len(u) PROVE FALSE
    BY <1>2, <2>1
  <2>5. \E j, k \in 1..Len(u) : j # k /\ f[j] = f[k]
    BY <1>2, <2>1, <2>2, <2>4, FS_PigeonHole
  <2> QED BY <2>3, <2>5
<1>11. Listed(s)
  BY <1>2, <1>3, <1>5, <1>9, <1>10, BreakerAssumption DEF Listed
<1> QED BY <1>1, <1>5, <1>8, <1>11

\* pushUnexited lists the new entry, or drops the oldest and says so.
LEMMA PushList ==
    ASSUME NEW r, Listed(r), NEW e \in EntryRecords, \A x \in Entries(r) : Triple(x) # Triple(e)
    PROVE  LET s == Push(r, e)
           IN  /\ Listed(s) /\ Entries(s) \subseteq Entries(r) \cup {e}
               /\ s.overflow \/ (Entries(s) = Entries(r) \cup {e} /\ s.overflow = r.overflow)
               /\ s.exits = r.exits /\ s.acknowledged = r.acknowledged
<1> DEFINE q == r.unexited
           all == Append(q, e)
           fit == [r EXCEPT !.unexited = all]
           cut == [r EXCEPT !.unexited = Tail(all), !.overflow = TRUE]
<1>1. q \in Seq(EntryRecords) /\ Len(q) \in Nat /\ Len(q) <= UnexitedMax /\ DOMAIN q = 1..Len(q)
  BY DEF Listed
<1>a. UnexitedMax \in Nat
  BY BreakerAssumption
<1>2. \A x \in Entries(r) : \E k \in DOMAIN q : x = q[k]
  BY EntriesListed
<1>b. \A k \in DOMAIN q : q[k] \in Entries(r)
  BY EntriesListed
<1>c. \A j, k \in DOMAIN q : j # k => Triple(q[j]) # Triple(q[k])
  BY DEF Listed
<1>d. /\ {"unexited", "overflow", "exits", "acknowledged"} \subseteq DOMAIN r
      /\ r.acknowledged \subseteq Acknowledgements
  BY DEF Listed
<1> HIDE DEF q
<1>3. /\ all \in Seq(EntryRecords) /\ Len(all) = Len(q) + 1 /\ DOMAIN all = 1..(Len(q) + 1)
      /\ all[Len(q) + 1] = e /\ \A k \in 1..Len(q) : all[k] = q[k]
  BY <1>1, AppendProperties
<1> HIDE DEF all
<1>4. \A j, k \in DOMAIN all : j # k => Triple(all[j]) # Triple(all[k])
  <2>1. ASSUME NEW k \in DOMAIN q PROVE Triple(q[k]) # Triple(e)
    BY <1>b
  <2>2. ASSUME NEW k \in DOMAIN all
        PROVE  (k = Len(q) + 1 /\ all[k] = e) \/ (k \in DOMAIN q /\ all[k] = q[k])
    BY <1>1, <1>3
  <2> QED BY <1>c, <2>1, <2>2
<1>5. \A x : x \in {all[k] : k \in DOMAIN all} <=> x \in Entries(r) \cup {e}
  <2>1. ASSUME NEW k \in DOMAIN all PROVE all[k] \in Entries(r) \cup {e}
    BY <1>1, <1>3, <1>b
  <2>2. ASSUME NEW x \in Entries(r) \cup {e} PROVE \E k \in DOMAIN all : x = all[k]
    BY <1>1, <1>2, <1>3
  <2> QED BY <2>1, <2>2
<1>6. CASE Len(all) <= UnexitedMax
  <2>1. Push(r, e) = fit
    BY <1>6 DEF Push, all, q
  <2>2. /\ DOMAIN fit = DOMAIN r /\ fit.unexited = all /\ fit.overflow = r.overflow
        /\ fit.exits = r.exits /\ fit.acknowledged = r.acknowledged
    BY <1>d
  <2> HIDE DEF fit
  <2>3. Listed(fit)
    BY <1>3, <1>4, <1>6, <1>d, <2>2 DEF Listed
  <2>4. Entries(fit) = Entries(r) \cup {e}
    BY <1>5, <2>2 DEF Entries, Range
  <2> QED BY <2>1, <2>2, <2>3, <2>4
<1>7. CASE ~(Len(all) <= UnexitedMax)
  <2> DEFINE t == Tail(all)
  <2>1. Push(r, e) = cut
    BY <1>7 DEF Push, all, q
  <2>2. /\ DOMAIN cut = DOMAIN r /\ cut.unexited = t /\ cut.overflow
        /\ cut.exits = r.exits /\ cut.acknowledged = r.acknowledged
    BY <1>d
  <2> HIDE DEF cut
  <2>3. all # <<>>
    BY <1>1, <1>3
  <2>4. /\ t \in Seq(EntryRecords) /\ Len(t) = Len(all) - 1 /\ DOMAIN t = 1..(Len(all) - 1)
        /\ \A k \in 1..(Len(all) - 1) : t[k] = all[k + 1]
    BY <1>3, <2>3, HeadTailProperties
  <2> HIDE DEF t
  <2>5. \A k \in DOMAIN t : k + 1 \in DOMAIN all /\ t[k] = all[k + 1] /\ k \in Nat
    BY <1>1, <1>3, <2>4
  <2>6. ASSUME NEW j \in DOMAIN t, NEW k \in DOMAIN t, j # k PROVE Triple(t[j]) # Triple(t[k])
    BY <1>4, <2>5, <2>6
  <2>7. Listed(cut)
    BY <1>1, <1>3, <1>a, <1>d, <2>2, <2>4, <2>6 DEF Listed
  <2>8. Entries(cut) \subseteq Entries(r) \cup {e}
    BY <1>5, <2>2, <2>5 DEF Entries, Range
  <2> QED BY <2>1, <2>2, <2>7, <2>8
<1> QED BY <1>6, <1>7

\* One entry takes an identity and more launches; the others stay.
LEMMA IdentifyList ==
    ASSUME NEW r, Listed(r), NEW e \in Entries(r), NEW p \in Nat, NEW ls \in SUBSET Nat,
           \A x \in Entries(r) : x # e => Triple(x) # <<e.spawn, e.inst, p>>
    PROVE  LET s == Identify(r, e, p, ls)
           IN  /\ Listed(s) /\ s.overflow = r.overflow
               /\ s.exits = r.exits /\ s.acknowledged = r.acknowledged
               /\ Entries(s) = (Entries(r) \ {e}) \cup
                     {[e EXCEPT !.proc = p, !.launches = @ \cup ls]}
<1> DEFINE q == r.unexited
           d == [e EXCEPT !.proc = p, !.launches = @ \cup ls]
           u == [k \in DOMAIN q |-> IF q[k] = e THEN d ELSE q[k]]
           s == [r EXCEPT !.unexited = u]
<1>1. q \in Seq(EntryRecords) /\ Len(q) \in Nat /\ Len(q) <= UnexitedMax /\ DOMAIN q = 1..Len(q)
  BY DEF Listed
<1>b. \A k \in DOMAIN q : q[k] \in Entries(r)
  BY EntriesListed
<1>2. \A x \in Entries(r) : \E k \in DOMAIN q : x = q[k]
  BY EntriesListed
<1>c. \A j, k \in DOMAIN q : j # k => Triple(q[j]) # Triple(q[k])
  BY DEF Listed
<1>d. /\ {"unexited", "overflow", "exits", "acknowledged"} \subseteq DOMAIN r
      /\ r.acknowledged \subseteq Acknowledgements
  BY DEF Listed
<1>e. e \in EntryRecords
  BY EntriesListed
<1>3. Identify(r, e, p, ls) = s
  BY DEF Identify
<1>4. d \in EntryRecords /\ Triple(d) = <<e.spawn, e.inst, p>>
  BY <1>e DEF EntryRecords, Triple
<1> HIDE DEF d, q
<1>5. /\ DOMAIN s = DOMAIN r /\ s.unexited = u /\ s.overflow = r.overflow
      /\ s.exits = r.exits /\ s.acknowledged = r.acknowledged
  BY <1>d
<1> HIDE DEF s
<1>6. \A k \in DOMAIN q : q[k] \in EntryRecords
  BY <1>1
<1>7. DOMAIN u = DOMAIN q /\ \A k \in DOMAIN q : u[k] = IF q[k] = e THEN d ELSE q[k]
  OBVIOUS
<1>8. u \in Seq(EntryRecords) /\ Len(u) = Len(q)
  <2>1. u \in [1..Len(q) -> EntryRecords]
    BY <1>1, <1>4, <1>6
  <2> HIDE DEF u
  <2> QED BY <1>1, <2>1
<1> HIDE DEF u
<1>9. ASSUME NEW j \in DOMAIN u, NEW k \in DOMAIN u, j # k PROVE Triple(u[j]) # Triple(u[k])
  <2>1. CASE q[j] = e /\ q[k] = e
    BY <1>7, <1>9, <1>c, <2>1
  <2>2. CASE q[j] = e /\ q[k] # e
    BY <1>4, <1>7, <1>b, <2>2
  <2>3. CASE q[j] # e /\ q[k] = e
    BY <1>4, <1>7, <1>b, <2>3
  <2>4. CASE q[j] # e /\ q[k] # e
    BY <1>7, <1>9, <1>c, <2>4
  <2> QED BY <2>1, <2>2, <2>3, <2>4
<1>10. Listed(s)
  BY <1>1, <1>5, <1>8, <1>9, <1>d DEF Listed
<1>11. {u[k] : k \in DOMAIN u} = (Entries(r) \ {e}) \cup {d}
  <2>1. ASSUME NEW k \in DOMAIN u PROVE u[k] \in (Entries(r) \ {e}) \cup {d}
    BY <1>7, <1>b
  <2>2. ASSUME NEW x \in (Entries(r) \ {e}) \cup {d} PROVE \E k \in DOMAIN u : u[k] = x
    BY <1>2, <1>7
  <2> QED BY <2>1, <2>2
<1>12. Entries(s) = (Entries(r) \ {e}) \cup {d}
  BY <1>5, <1>11 DEF Entries, Range
<1> QED BY <1>3, <1>5, <1>10, <1>12 DEF d

\* markProtectedIfEngaged and the settling keep what the entries say.
LEMMA MarkProtectedSteady ==
    ASSUME NEW r, Listed(r)
    PROVE  Steady(r, MarkProtected(r))
<1> DEFINE q == r.unexited
           u == [k \in DOMAIN q |-> [q[k] EXCEPT !.protected = TRUE]]
           s == [r EXCEPT !.unexited = u]
<1>1. MarkProtected(r) = s \/ MarkProtected(r) = r
  BY DEF MarkProtected
<1>2. CASE MarkProtected(r) = r
  BY <1>2 DEF Steady
<1>3. CASE MarkProtected(r) = s
  <2>1. q \in Seq(EntryRecords) /\ Len(q) \in Nat /\ Len(q) <= UnexitedMax /\ DOMAIN q = 1..Len(q)
    BY DEF Listed
  <2>2. /\ {"unexited", "overflow", "exits", "acknowledged"} \subseteq DOMAIN r
        /\ r.acknowledged \subseteq Acknowledgements
    BY DEF Listed
  <2>3. \A j, k \in DOMAIN q : j # k => Triple(q[j]) # Triple(q[k])
    BY DEF Listed
  <2>4. Cores(r) = {Core(q[k]) : k \in DOMAIN q}
    BY DEF Cores, Entries, Range
  <2>5. DOMAIN s = DOMAIN r /\ s.unexited = u /\ s.overflow = r.overflow
        /\ s.exits = r.exits /\ s.acknowledged = r.acknowledged
    BY <2>2
  <2> HIDE DEF s, q
  <2>6. ASSUME NEW k \in DOMAIN q
        PROVE  u[k] \in EntryRecords /\ Triple(u[k]) = Triple(q[k]) /\ Core(u[k]) = Core(q[k])
    <3>1. q[k] \in EntryRecords
      BY <2>1
    <3> QED BY <3>1 DEF EntryRecords, Triple, Core
  <2>7. DOMAIN u = DOMAIN q /\ u \in [1..Len(q) -> EntryRecords]
    BY <2>1, <2>6
  <2> HIDE DEF u
  <2>8. u \in Seq(EntryRecords) /\ Len(u) = Len(q)
    BY <2>1, <2>7
  <2>9. Listed(s)
    BY <2>1, <2>2, <2>3, <2>5, <2>6, <2>7, <2>8 DEF Listed
  <2>10. Cores(s) = {Core(u[k]) : k \in DOMAIN u}
    BY <2>5 DEF Cores, Entries, Range
  <2>11. Cores(s) = Cores(r)
    BY <2>4, <2>6, <2>7, <2>10
  <2> QED BY <1>3, <2>5, <2>9, <2>11 DEF Steady
<1> QED BY <1>1, <1>2, <1>3

\* Transitions that only protect entries compose.
LEMMA SteadyTransitive ==
    ASSUME NEW r, NEW s, NEW t, Steady(r, s), Steady(s, t)
    PROVE  Steady(r, t)
BY DEF Steady

\* The normalisation that ends most transitions at most protects entries.
LEMMA FinishSteady ==
    ASSUME NEW r, Listed(r)
    PROVE  Steady(r, Finish(r))
<1>1. Rests(r, SettleManual(r))
  BY DEF Rests, SettleManual, Listed
<1>2. Steady(r, SettleManual(r)) /\ Listed(SettleManual(r))
  BY <1>1, RestsSteady
<1> QED BY <1>2, MarkProtectedSteady, SteadyTransitive DEF Finish

\* A probe whose lease ran out loses no entry.
LEMMA LapseSteady ==
    ASSUME NEW r, Listed(r)
    PROVE  Steady(r, Lapse(r))
<1> DEFINE t == [r EXCEPT !.circuit = "open", !.blocked = TRUE, !.last = r.cur, !.cur = NoLaunch]
<1>1. Rests(r, t)
  BY DEF Rests, Listed
<1>2. Lapse(r) = r \/ Lapse(r) = MarkProtected(t)
  BY DEF Lapse
<1> HIDE DEF t
<1>3. Steady(r, t) /\ Listed(t)
  BY <1>1, RestsSteady
<1>4. Steady(r, MarkProtected(t))
  BY <1>3, MarkProtectedSteady, SteadyTransitive
<1> QED BY <1>2, <1>4 DEF Steady

\* The closing normalisation loses no entry.
LEMMA NormalizeSteady ==
    ASSUME NEW r, Listed(r)
    PROVE  Steady(r, Normalize(r))
<1>1. Steady(r, Lapse(r)) /\ Listed(Lapse(r))
  BY LapseSteady DEF Steady
<1> QED BY <1>1, FinishSteady, SteadyTransitive DEF Normalize

\* A record that rests after another one is settled, and what it then says.
LEMMA RestsFinish ==
    ASSUME NEW r, NEW s, Steady(r, s), NEW t, Rests(s, t)
    PROVE  Steady(r, t) /\ Steady(r, Finish(t)) /\ Steady(r, MarkProtected(t))
<1>1. Listed(s)
  BY DEF Steady
<1>2. Steady(s, t) /\ Listed(t)
  BY <1>1, RestsSteady
<1> QED BY <1>2, FinishSteady, MarkProtectedSteady, SteadyTransitive

\* Transitions that leave the list alone compose.
LEMMA RestsTransitive ==
    ASSUME NEW r, NEW s, NEW t, Rests(r, s), Rests(s, t)
    PROVE  Rests(r, t)
BY DEF Rests

\* The transitions that leave the processes alone.
LEMMA TerminalFailureSteady ==
    ASSUME NEW r0, Listed(r0), Shaped(r0), Probing(r0), NEW l, NEW same
    PROVE  Steady(r0, TerminalFailure(r0, l, same))
<1> DEFINE r == Lapse(r0)
           run == IF same THEN r.same + 1 ELSE 1
           counted == [r EXCEPT !.cur.terminal = "e1", !.same = run, !.total = @ + 1]
           late == [r EXCEPT !.last.terminal = "e1"]
           half == RaiseOwed([counted EXCEPT !.circuit = "open", !.blocked = TRUE,
                                             !.cur.lease = "none"], "failure")
           opened == RaiseOwed([counted EXCEPT !.circuit = "open", !.blocked = TRUE], "failure")
<1>1. TerminalFailure(r0, l, same) \in {r0, Finish(late), Finish(half), Finish(opened), Finish(counted)}
  <2>1. Shaped(r)
    BY LapseEvolves DEF Evolves
  <2>2. r.circuit \in {"closed", "open", "half_open"}
    BY <2>1 DEF Shaped
  <2> HIDE DEF r
  <2> QED BY <2>2 DEF TerminalFailure, r
<1>2. Steady(r0, r) /\ Listed(r)
  BY LapseSteady DEF Steady
<1> HIDE DEF r, run
<1>3. Rests(r, late) /\ Rests(r, counted) /\ Rests(r, half) /\ Rests(r, opened)
  BY <1>2 DEF Rests, Listed, RaiseOwed
<1> HIDE DEF late, counted, half, opened
<1> QED BY <1>1, <1>2, <1>3, RestsFinish DEF Steady

\* A completed turn loses no entry.
LEMMA TurnCompletedSteady ==
    ASSUME NEW r0, Listed(r0), NEW l, NEW echo
    PROVE  Steady(r0, TurnCompleted(r0, l, echo))
<1> DEFINE r == Lapse(r0)
           late == r.circuit = "open" /\ r.cur = NoLaunch /\ Binds(r, r.last, l)
           launch == [(IF late THEN r.last ELSE r.cur) EXCEPT !.lease = "none"]
           clean == [CleanTurn(r, l) EXCEPT
                       !.cur = launch,
                       !.last = IF late THEN NoLaunch ELSE @,
                       !.circuit = "closed", !.blocked = FALSE,
                       !.owed = IF echo THEN "none" ELSE @]
<1>1. TurnCompleted(r0, l, echo) \in {r0, Finish(clean)}
  BY DEF TurnCompleted
<1>2. Steady(r0, r) /\ Listed(r)
  BY LapseSteady DEF Steady
<1> HIDE DEF r, late, launch
<1>3. Rests(r, CleanTurn(r, l))
  BY <1>2 DEF Rests, Listed, CleanTurn
<1>4. Rests(CleanTurn(r, l), clean)
  BY <1>2, <1>3 DEF Rests, Listed
<1> HIDE DEF clean
<1> QED BY <1>1, <1>2, <1>3, <1>4, RestsFinish, RestsTransitive DEF Steady

\* A report of lost evidence loses no entry.
LEMMA EvidenceLostSteady ==
    ASSUME NEW r, Listed(r)
    PROVE  Steady(r, EvidenceLost(r))
<1> DEFINE s == [r EXCEPT !.manual = [reason |-> "outcome_evidence_lost", causes |-> {}]]
<1>1. EvidenceLost(r) \in {r, Finish(s)}
  BY DEF EvidenceLost
<1>2. Rests(r, s) /\ Steady(r, r)
  BY DEF Rests, Listed, Steady
<1> HIDE DEF s
<1> QED BY <1>1, <1>2, RestsFinish

\* A refused wake loses no entry.
LEMMA GateSteady ==
    ASSUME NEW r0, Listed(r0), NEW message, NEW demand
    PROVE  Steady(r0, Gate(r0, message, demand))
<1> DEFINE r == Normalize(r0)
           ref == Refusal(r)
           origin == IF /\ ref.refusal = "needs_manual" /\ ref.manual = "unexited_process"
                        /\ ~Engaged(r) THEN "identity" ELSE "failure"
           blocked == IF ref.manual # "none" /\ r.manual = NoManual
                      THEN [r EXCEPT !.manual = [reason |-> ref.manual,
                              causes |-> IF ref.manual = "unexited_process"
                                         THEN {Key(e) : e \in Blocking(r)} ELSE {}]]
                      ELSE r
           owing == IF message \/ (origin = "failure" /\ r.owed # "none")
                    THEN RaiseOwed(blocked, origin) ELSE blocked
           told == [owing EXCEPT !.demand = IF demand THEN MoreDemand(@) ELSE @]
<1>1. Gate(r0, message, demand) \in {r, MarkProtected(told)}
  BY DEF Gate
<1>2. Steady(r0, r) /\ Listed(r)
  BY NormalizeSteady DEF Steady
<1> HIDE DEF r, ref
<1>3. Rests(r, blocked)
  <2> DEFINE x == [reason |-> ref.manual, causes |-> IF ref.manual = "unexited_process"
                                         THEN {Key(e) : e \in Blocking(r)} ELSE {}]
  <2>1. blocked = r \/ blocked = [r EXCEPT !.manual = x]
    OBVIOUS
  <2> HIDE DEF x, blocked
  <2> QED BY <1>2, <2>1 DEF Rests, Listed
<1> HIDE DEF blocked, origin
<1>4. Rests(blocked, owing)
  BY <1>2, <1>3 DEF Rests, Listed, RaiseOwed
<1> HIDE DEF owing
<1>5. Rests(owing, told)
  BY <1>2, <1>3, <1>4 DEF Rests, Listed
<1> HIDE DEF told
<1> QED BY <1>1, <1>2, <1>3, <1>4, <1>5, RestsFinish, RestsTransitive

\* A reset or a changed configuration loses no entry.
LEMMA LiftSteady ==
    ASSUME NEW r, Listed(r)
    PROVE  Steady(r, Finish(Lifted(r)))
<1>1. Rests(r, Lifted(r)) /\ Steady(r, r)
  BY DEF Rests, Listed, Lifted, Steady
<1> QED BY <1>1, RestsFinish

\* A manual stop loses no entry.
LEMMA ManuallyStoppedSteady ==
    ASSUME NEW r0, Listed(r0)
    PROVE  Steady(r0, ManuallyStopped(r0))
<1> DEFINE q == Lapse(r0)
           r == [q EXCEPT !.demand = NoDemand]
           s == [r EXCEPT !.cur = NoLaunch, !.circuit = "open"]
<1>1. ManuallyStopped(r0) \in {r, Finish(s)}
  BY Zenon DEF ManuallyStopped
<1>2. Steady(r0, q) /\ Listed(q)
  BY LapseSteady DEF Steady
<1> HIDE DEF q
<1>3. Rests(q, r) /\ Rests(q, s)
  BY <1>2 DEF Rests, Listed
<1> HIDE DEF r, s
<1> QED BY <1>1, <1>2, <1>3, RestsFinish

-----------------------------------------------------------------------------
(* The transitions that touch the processes. *)

Carries(d, c) ==
    d.spawn = c.spawn /\ d.inst = c.inst /\ d.proc = c.proc /\ c.launches \subseteq d.launches

\* From r to s only what is in G is let go (or the overflow is recorded), what
\* is new is of a launch and an instance in N or extends what was there, and
\* only the exits in X are learned.
Kept(r, s, G, U, N, X) ==
    /\ Listed(s)
    /\ r.overflow => s.overflow
    /\ \A c \in Cores(r) : c \in G \/ s.overflow \/ \E d \in Cores(s) : Carries(d, c)
    /\ \A d \in Cores(s) :
         \/ \E c \in Cores(r) : d.spawn = c.spawn /\ d.inst = c.inst /\ c.launches \subseteq d.launches
         \/ <<d.spawn, d.inst>> \in N /\ d.spawn \in d.launches
    /\ s.exits \subseteq r.exits \cup X
    /\ \A a \in s.acknowledged : \E c \in r.acknowledged \cup U : a.spawn = c.spawn

\* A bounded transition between two that at most protect entries.
LEMMA KeptSteady ==
    ASSUME NEW r, NEW r1, NEW s1, NEW s, NEW G, NEW U, NEW N, NEW X,
           Steady(r, r1), Kept(r1, s1, G, U, N, X), Steady(s1, s)
    PROVE  Kept(r, s, G, U, N, X)
<1>1. Cores(r1) = Cores(r) /\ Cores(s) = Cores(s1)
  BY DEF Steady
<1>2. /\ Listed(s) /\ (r.overflow => s.overflow) /\ (s1.overflow => s.overflow)
      /\ s.exits = s1.exits /\ r1.exits = r.exits /\ s.acknowledged = s1.acknowledged
      /\ r1.acknowledged = r.acknowledged
  BY DEF Steady, Kept
<1>3. \A c \in Cores(r) : c \in G \/ s.overflow \/ \E d \in Cores(s) : Carries(d, c)
  BY <1>1, <1>2 DEF Kept
<1>4. \A d \in Cores(s) :
         \/ \E c \in Cores(r) : d.spawn = c.spawn /\ d.inst = c.inst /\ c.launches \subseteq d.launches
         \/ <<d.spawn, d.inst>> \in N /\ d.spawn \in d.launches
  BY <1>1 DEF Kept
<1> QED BY <1>2, <1>3, <1>4 DEF Kept

\* A transition that at most protects entries is within every bound.
LEMMA SteadyKept ==
    ASSUME NEW r, NEW s, Steady(r, s), NEW G, NEW U, NEW N, NEW X
    PROVE  Kept(r, s, G, U, N, X)
<1>1. \A c \in Cores(r) : Carries(c, c)
  BY DEF Carries
<1> QED BY <1>1 DEF Steady, Kept

\* Dropping entries, and the same with other parts of the record changed.
LEMMA DroppingKept ==
    ASSUME NEW r, Listed(r), NEW es, NEW s, Rests(Dropping(r, es), s)
    PROVE  /\ Kept(r, s, {Core(e) : e \in es}, {}, {}, {}) /\ Listed(s)
           /\ Entries(s) = Entries(r) \ es
<1>1. /\ Listed(Dropping(r, es)) /\ Entries(Dropping(r, es)) = Entries(r) \ es
      /\ Dropping(r, es).overflow = r.overflow
      /\ Dropping(r, es).exits = r.exits /\ Dropping(r, es).acknowledged = r.acknowledged
  BY DroppingList
<1>2. Listed(s) /\ Entries(s) = Entries(r) \ es
  BY <1>1, RestsSteady
<1>3. s.overflow = r.overflow /\ s.exits = r.exits /\ s.acknowledged = r.acknowledged
  BY <1>1 DEF Rests
<1>4. ASSUME NEW c \in Cores(r) PROVE c \in {Core(e) : e \in es} \/ \E d \in Cores(s) : Carries(d, c)
  <2>1. PICK e \in Entries(r) : c = Core(e)
    BY DEF Cores
  <2>2. CASE e \in es
    BY <2>1, <2>2
  <2>3. CASE e \notin es
    <3>1. c \in Cores(s)
      BY <1>2, <2>1, <2>3 DEF Cores
    <3> QED BY <3>1 DEF Carries
  <2> QED BY <2>2, <2>3
<1>5. Cores(s) \subseteq Cores(r)
  BY <1>2 DEF Cores
<1> QED BY <1>2, <1>3, <1>4, <1>5 DEF Kept

\* Identifying an entry lets go of no more than its old core.
LEMMA IdentifyKept ==
    ASSUME NEW r, Listed(r), NEW e \in Entries(r), NEW p \in Nat, NEW ls \in SUBSET Nat,
           \A x \in Entries(r) : x # e => Triple(x) # <<e.spawn, e.inst, p>>,
           NEW G, e.proc = p \/ Core(e) \in G
    PROVE  LET s == Identify(r, e, p, ls)
           IN  /\ Kept(r, s, G, {}, {}, {}) /\ Listed(s)
               /\ \E d \in Entries(s) : /\ d.spawn = e.spawn /\ d.inst = e.inst /\ d.proc = p
                                        /\ d.launches = e.launches \cup ls
               /\ \A x \in Entries(r) : x # e => x \in Entries(s)
               /\ s.acknowledged = r.acknowledged /\ s.overflow = r.overflow
<1> DEFINE d == [e EXCEPT !.proc = p, !.launches = @ \cup ls]
           s == Identify(r, e, p, ls)
<1>1. /\ Listed(s) /\ s.overflow = r.overflow
      /\ s.exits = r.exits /\ s.acknowledged = r.acknowledged
      /\ Entries(s) = (Entries(r) \ {e}) \cup {d}
  BY IdentifyList
<1>2. e \in EntryRecords
  BY EntriesListed
<1>3. d.spawn = e.spawn /\ d.inst = e.inst /\ d.proc = p /\ d.launches = e.launches \cup ls
  BY <1>2 DEF EntryRecords
<1> HIDE DEF d, s
<1>4. Core(d) \in Cores(s)
  BY <1>1 DEF Cores
<1>5. ASSUME NEW c \in Cores(r) PROVE c \in G \/ \E y \in Cores(s) : Carries(y, c)
  <2>1. PICK x \in Entries(r) : c = Core(x)
    BY DEF Cores
  <2>2. CASE x # e
    <3>1. c \in Cores(s)
      BY <1>1, <2>1, <2>2 DEF Cores
    <3> QED BY <3>1 DEF Carries
  <2>3. CASE x = e /\ e.proc = p
    <3>1. Carries(Core(d), c)
      BY <1>3, <2>1, <2>3 DEF Carries, Core
    <3> QED BY <1>4, <3>1
  <2> QED BY <2>1, <2>2, <2>3
<1>6. ASSUME NEW y \in Cores(s)
      PROVE  \E c \in Cores(r) : y.spawn = c.spawn /\ y.inst = c.inst /\ c.launches \subseteq y.launches
  <2>1. PICK x \in Entries(s) : y = Core(x)
    BY DEF Cores
  <2>2. CASE x \in Entries(r)
    <3>1. y \in Cores(r)
      BY <2>1, <2>2 DEF Cores
    <3> QED BY <3>1
  <2>3. CASE x = d
    <3>1. Core(e) \in Cores(r)
      BY DEF Cores
    <3>2. /\ y.spawn = Core(e).spawn /\ y.inst = Core(e).inst
          /\ Core(e).launches \subseteq y.launches
      BY <1>3, <2>1, <2>3 DEF Core
    <3> QED BY <3>1, <3>2
  <2> QED BY <1>1, <2>1, <2>2, <2>3
<1>7. Kept(r, s, G, {}, {}, {})
  BY <1>1, <1>5, <1>6 DEF Kept
<1> QED BY <1>1, <1>3, <1>7 DEF s

CoreRecords == [spawn : Nat, inst : Nat, proc : Nat, launches : SUBSET Nat]

\* What entries of launches in ls, dispatched to instance i, say before their
\* process is known.
PendingCores(ls, i) == {c \in CoreRecords : c.spawn \in ls /\ c.inst = i /\ c.proc = 0}
IdentifiedCores(i, p) == {c \in CoreRecords : c.inst = i /\ c.proc = p}

\* G depends on no launches an entry carries.
Upward(G) == \A c, d \in CoreRecords : d \in G /\ Carries(d, c) => c \in G

\* What entries say, without their protection, is typed.
LEMMA CoresTyped ==
    ASSUME NEW r, Listed(r)
    PROVE  Cores(r) \subseteq CoreRecords
<1>1. ASSUME NEW e \in EntryRecords PROVE Core(e) \in CoreRecords
  BY DEF EntryRecords, CoreRecords, Core
<1> QED BY <1>1, EntriesListed DEF Cores

\* An entry that carries more launches stays in the sets an exit or a start settles.
LEMMA UpwardFacts ==
    /\ \A ls, i : Upward(PendingCores(ls, i))
    /\ \A i, p : Upward(IdentifiedCores(i, p))
    /\ \A G, H : Upward(G) /\ Upward(H) => Upward(G \cup H)
BY DEF Upward, PendingCores, IdentifiedCores, Carries

\* Bounded transitions compose.
LEMMA KeptTransitive ==
    ASSUME NEW r, Listed(r), NEW s, NEW t, NEW G, NEW U, NEW N, NEW X, Upward(G),
           Kept(r, s, G, U, N, X), Kept(s, t, G, U, N, X)
    PROVE  Kept(r, t, G, U, N, X)
<1>0. Cores(r) \subseteq CoreRecords /\ Cores(s) \subseteq CoreRecords
  BY CoresTyped DEF Kept
<1>1. Listed(t) /\ (r.overflow => t.overflow) /\ (s.overflow => t.overflow)
      /\ t.exits \subseteq r.exits \cup X
  BY DEF Kept
<1>2. ASSUME NEW c \in Cores(r) PROVE c \in G \/ t.overflow \/ \E d \in Cores(t) : Carries(d, c)
  <2>1. c \in G \/ s.overflow \/ \E d \in Cores(s) : Carries(d, c)
    BY DEF Kept
  <2>2. ASSUME NEW d \in Cores(s), Carries(d, c)
        PROVE  c \in G \/ t.overflow \/ \E x \in Cores(t) : Carries(x, c)
    <3>1. d \in G \/ t.overflow \/ \E x \in Cores(t) : Carries(x, d)
      BY DEF Kept
    <3>2. d \in G => c \in G
      BY <1>0, <2>2 DEF Upward
    <3>3. \A x : Carries(x, d) => Carries(x, c)
      BY <2>2 DEF Carries
    <3> QED BY <3>1, <3>2, <3>3
  <2> QED BY <1>1, <2>1, <2>2
<1>3. ASSUME NEW d \in Cores(t)
      PROVE  \/ \E c \in Cores(r) : d.spawn = c.spawn /\ d.inst = c.inst /\ c.launches \subseteq d.launches
             \/ <<d.spawn, d.inst>> \in N /\ d.spawn \in d.launches
  <2>1. CASE <<d.spawn, d.inst>> \in N /\ d.spawn \in d.launches
    BY <2>1
  <2>2. ASSUME NEW x \in Cores(s), d.spawn = x.spawn, d.inst = x.inst, x.launches \subseteq d.launches
        PROVE  \/ \E c \in Cores(r) : d.spawn = c.spawn /\ d.inst = c.inst /\ c.launches \subseteq d.launches
               \/ <<d.spawn, d.inst>> \in N /\ d.spawn \in d.launches
    <3>1. \/ \E c \in Cores(r) : x.spawn = c.spawn /\ x.inst = c.inst /\ c.launches \subseteq x.launches
          \/ <<x.spawn, x.inst>> \in N /\ x.spawn \in x.launches
      BY DEF Kept
    <3> QED BY <2>2, <3>1
  <2> QED BY <2>1, <2>2 DEF Kept
<1>4. ASSUME NEW a \in t.acknowledged PROVE \E c \in r.acknowledged \cup U : a.spawn = c.spawn
  BY DEF Kept
<1> QED BY <1>1, <1>2, <1>3, <1>4 DEF Kept

\* The bounds on what a transition drops, lists and counts as exited may grow.
LEMMA KeptWeakens ==
    ASSUME NEW r, NEW s, NEW G, NEW U, NEW N, NEW X, NEW H, NEW M, NEW Y, Kept(r, s, G, U, N, X),
           G \subseteq H, N \subseteq M, X \subseteq Y
    PROVE  Kept(r, s, H, U, M, Y)
<1>1. \A c \in Cores(r) : c \in H \/ s.overflow \/ \E d \in Cores(s) : Carries(d, c)
  BY DEF Kept
<1>2. \A a \in s.acknowledged : \E c \in r.acknowledged \cup U : a.spawn = c.spawn
  BY DEF Kept
<1>3. \A d \in Cores(s) :
         \/ \E c \in Cores(r) : d.spawn = c.spawn /\ d.inst = c.inst /\ c.launches \subseteq d.launches
         \/ <<d.spawn, d.inst>> \in M /\ d.spawn \in d.launches
  BY DEF Kept
<1>4. s.exits \subseteq r.exits \cup Y /\ Listed(s) /\ (r.overflow => s.overflow)
  BY DEF Kept
<1> QED BY <1>1, <1>2, <1>3, <1>4 DEF Kept

\* The pending entries of some launches, and what they say.
LEMMA PendingFacts ==
    ASSUME NEW r, Listed(r), NEW ls, NEW i
    PROVE  /\ PendingOf(r, ls, i) \subseteq Entries(r)
           /\ {Core(e) : e \in PendingOf(r, ls, i)} \subseteq PendingCores(ls, i)
           /\ \A e \in PendingOf(r, ls, i) : e.spawn \in ls /\ e.inst = i /\ e.proc = 0
<1>1. \A e \in Entries(r) : Core(e) \in CoreRecords
  BY CoresTyped DEF Cores
<1> QED BY <1>1, CoreFacts DEF PendingOf, PendingCores

\* The normalisation after a bounded transition.
LEMMA FinishKept ==
    ASSUME NEW r, NEW s, NEW G, NEW U, NEW N, NEW X, Kept(r, s, G, U, N, X), Listed(r)
    PROVE  Kept(r, Finish(s), G, U, N, X)
<1>1. Steady(r, r) /\ Steady(s, Finish(s))
  BY FinishSteady DEF Kept, Steady
<1> QED BY <1>1, KeptSteady

\* applyTerminalStartAck of a rebind.
LEMMA StartReboundKept ==
    ASSUME NEW r, Listed(r), NEW l \in Nat, NEW i \in Nat, NEW p \in Nat, p # 0
    PROVE  Kept(r, StartRebound(r, l, i, p), PendingCores({l}, i), {}, {}, {})
<1> DEFINE pending == PendingOf(r, {l}, i)
           known == Identified(r, i, p)
           G == PendingCores({l}, i)
           e1 == CHOOSE e \in known : TRUE
           e2 == CHOOSE e \in pending : TRUE
           s1 == Identify(r, e1, p, {l})
<1>0. PICK z : z = {}
  OBVIOUS
<1>1. \/ StartRebound(r, l, i, p) = Finish(Dropping(r, pending))
      \/ known # {} /\ StartRebound(r, l, i, p) = Finish(Dropping(s1, pending))
      \/ known = {} /\ pending # {} /\ StartRebound(r, l, i, p) = Finish(Identify(r, e2, p, {l}))
      \/ StartRebound(r, l, i, p) = Finish(r)
  BY DEF StartRebound
<1>2. /\ pending \subseteq Entries(r) /\ {Core(e) : e \in pending} \subseteq G
      /\ \A e \in pending : e.spawn \in {l} /\ e.inst = i /\ e.proc = 0
  BY PendingFacts
<1>3. known \subseteq Entries(r) /\ \A e \in known : e.inst = i /\ e.proc = p
  BY DEF Identified
<1>4. Upward(G)
  BY UpwardFacts
<1>5. ASSUME NEW s, Listed(s) PROVE Kept(s, Dropping(s, pending), G, z, z, z)
  <2>1. Listed(Dropping(s, pending)) /\ Rests(Dropping(s, pending), Dropping(s, pending))
    BY <1>5, DroppingList DEF Rests
  <2>2. PICK g : g = {Core(e) : e \in pending}
    OBVIOUS
  <2>3. Kept(s, Dropping(s, pending), g, z, z, z)
    BY <1>0, <1>5, <2>1, <2>2, DroppingKept
  <2>4. g \subseteq G
    BY <1>2, <2>2
  <2> HIDE DEF G, pending
  <2> QED BY <2>3, <2>4, KeptWeakens
<1>6. ASSUME known # {} PROVE Kept(r, Finish(Dropping(s1, pending)), G, {}, {}, {})
  <2>1. e1 \in Entries(r) /\ e1.inst = i /\ e1.proc = p
    BY <1>3, <1>6
  <2> HIDE DEF e1
  <2>2. \A x \in Entries(r) : x # e1 => Triple(x) # <<e1.spawn, e1.inst, p>>
    BY <2>1, EntriesListed DEF Triple
  <2>3. PICK ls : ls = {l} /\ ls \in SUBSET Nat
    OBVIOUS
  <2>4. Kept(r, s1, G, z, z, z) /\ Listed(s1)
    BY <1>0, <2>1, <2>2, <2>3, IdentifyKept
  <2> HIDE DEF s1, G, pending
  <2>5. Kept(r, Dropping(s1, pending), G, z, z, z)
    BY <1>4, <1>5, <2>4, KeptTransitive
  <2> QED BY <1>0, <2>5, FinishKept
<1>7. ASSUME known = {}, pending # {} PROVE Kept(r, Finish(Identify(r, e2, p, {l})), G, {}, {}, {})
  <2>1. e2 \in Entries(r) /\ e2 \in pending
    BY <1>2, <1>7
  <2> HIDE DEF e2
  <2>2. \A x \in Entries(r) : x.inst # i \/ x.proc # p
    BY <1>7 DEF Identified
  <2>3. \A x \in Entries(r) : Triple(x) # <<e2.spawn, e2.inst, p>>
    BY <1>2, <2>1, <2>2 DEF Triple
  <2>4. Core(e2) \in G
    BY <1>2, <2>1
  <2>5. PICK ls : ls = {l} /\ ls \in SUBSET Nat
    OBVIOUS
  <2> HIDE DEF G, pending
  <2>6. Kept(r, Identify(r, e2, p, ls), G, z, z, z)
    BY <1>0, <2>1, <2>3, <2>4, <2>5, IdentifyKept
  <2> QED BY <1>0, <2>5, <2>6, FinishKept
<1>8. Kept(r, Finish(Dropping(r, pending)), G, {}, {}, {}) /\ Kept(r, Finish(r), G, {}, {}, {})
  <2>1. Steady(r, r)
    BY DEF Steady
  <2> HIDE DEF G, pending
  <2> QED BY <1>0, <1>5, <2>1, SteadyKept, FinishKept
<1> QED BY <1>1, <1>6, <1>7, <1>8

\* Learning the process of an acknowledged start keeps whose start it was.
LEMMA AcknowledgedKept ==
    ASSUME NEW r, NEW s, NEW t, NEW G, NEW U, NEW N, NEW X, Kept(r, s, G, U, N, X),
           DOMAIN t = DOMAIN s, t.unexited = s.unexited, t.overflow = s.overflow, t.exits = s.exits,
           t.acknowledged \subseteq Acknowledgements,
           \A a \in t.acknowledged : \E c \in r.acknowledged : a.spawn = c.spawn
    PROVE  Kept(r, t, G, U, N, X) /\ Listed(t) /\ Cores(t) = Cores(s)
<1>1. Listed(s)
  BY DEF Kept
<1>2. Listed(t) /\ Cores(t) = Cores(s)
  BY <1>1 DEF Listed, Cores, Entries
<1>3. Kept(r, t, G, U, N, X)
  BY <1>2 DEF Kept
<1> QED BY <1>2, <1>3

\* The process is on record: identified, or the list overflowed.
Noted(s, l, i, p) ==
    s.overflow \/ \E d \in Cores(s) : d.inst = i /\ d.proc = p /\ l \in d.launches

\* What an announcement leaves: the process has exited already, an entry
\* carries it, or a start it names was acknowledged.
Answers(r, s, ls, l, i, p) ==
    \/ <<i, p>> \in r.exits \/ Noted(s, l, i, p)
    \/ Cores(s) = Cores(r) /\ \E a \in r.acknowledged : a.spawn \in ls

\* A spawn notes its process, unless it has ended or was acknowledged.
LEMMA ProcessSpawnedKept ==
    ASSUME NEW r, Listed(r), NEW ls \in SUBSET Nat, NEW l \in ls, NEW i \in Nat, NEW p \in Nat, p # 0,
           NEW respawn
    PROVE  LET s == ProcessSpawned(r, l, ls, i, p, respawn)
           IN  /\ Kept(r, s, PendingCores(ls, i), {}, {<<l, i>>}, {})
               /\ Answers(r, s, ls, l, i, p)
<1> DEFINE pending == PendingOf(r, ls, i)
           known == Identified(r, i, p)
           own == PendingOf(r, {l}, i)
           first == CHOOSE e \in (IF own # {} THEN own ELSE pending) : TRUE
           taken == {a \in r.acknowledged : a.spawn \in ls /\ a.inst = i /\ a.proc = 0}
           A == (r.acknowledged \ taken) \cup {[a EXCEPT !.proc = p] : a \in taken}
           named(s) == [s EXCEPT !.acknowledged = (@ \ taken) \cup {[a EXCEPT !.proc = p] : a \in taken}]
           revive(s) == IF /\ respawn /\ s.circuit = "closed" /\ s.cur.id = l
                           /\ s.cur.gen = s.gen /\ s.cur.terminal = "exit"
                        THEN [s EXCEPT !.cur.terminal = "no"] ELSE s
           a1 == CHOOSE a \in taken : TRUE
           A1 == (r.acknowledged \ {a1}) \cup {[a1 EXCEPT !.proc = p]}
           e1 == CHOOSE e \in known : TRUE
           s0 == Dropping(r, pending)
           s1 == Identify(r, e1, p, ls)
           s2 == Dropping(r, pending \ {first})
           s3 == Identify(s2, first, p, ls)
           s5 == Push(r, Entry(l, i, p, ls))
           G == PendingCores(ls, i)
<1>1. LET s == ProcessSpawned(r, l, ls, i, p, respawn)
      IN  \/ <<i, p>> \in r.exits /\ s \in {r, Finish(s0)}
          \/ known # {} /\ s = Finish(revive(named(Dropping(s1, pending))))
          \/ known = {} /\ pending # {} /\ s = Finish(revive(named(s3)))
          \/ taken # {} /\ s = [r EXCEPT !.acknowledged = A1]
          \/ known = {} /\ s = Finish(revive(s5))
  BY DEF ProcessSpawned
<1>2. /\ pending \subseteq Entries(r) /\ {Core(e) : e \in pending} \subseteq G
      /\ \A e \in pending : e.spawn \in ls /\ e.inst = i /\ e.proc = 0
      /\ own \subseteq Entries(r) /\ \A e \in own : e.spawn \in {l} /\ e.inst = i /\ e.proc = 0
  BY PendingFacts
<1>3. known \subseteq Entries(r) /\ \A e \in known : e.inst = i /\ e.proc = p
  BY DEF Identified
<1>4. own \subseteq pending
  BY DEF PendingOf
<1>5. Upward(G)
  BY UpwardFacts
<1>6. PICK z, N : z = {} /\ N = {<<l, i>>}
  OBVIOUS
<1> DEFINE P(s) == /\ Kept(r, s, G, z, N, z)
                   /\ \/ <<i, p>> \in r.exits \/ Noted(s, l, i, p)
                      \/ Cores(s) = Cores(r) /\ \E a \in r.acknowledged : a.spawn \in ls
<1>7. ASSUME NEW s, Listed(s), NEW es, es \subseteq pending
      PROVE  /\ Kept(s, Dropping(s, es), G, z, N, z) /\ Listed(Dropping(s, es))
             /\ Entries(Dropping(s, es)) = Entries(s) \ es
             /\ Dropping(s, es).acknowledged = s.acknowledged
  <2>1. /\ Listed(Dropping(s, es)) /\ Rests(Dropping(s, es), Dropping(s, es))
        /\ Entries(Dropping(s, es)) = Entries(s) \ es
        /\ Dropping(s, es).acknowledged = s.acknowledged
    BY <1>7, DroppingList DEF Rests
  <2>2. PICK g : g = {Core(e) : e \in es}
    OBVIOUS
  <2>3. Kept(s, Dropping(s, es), g, z, z, z)
    BY <1>6, <1>7, <2>1, <2>2, DroppingKept
  <2>4. g \subseteq G /\ z \subseteq N /\ z \subseteq z
    BY <1>2, <1>6, <1>7, <2>2
  <2> HIDE DEF G, pending
  <2>5. Kept(s, Dropping(s, es), G, z, N, z)
    BY <2>3, <2>4, KeptWeakens
  <2> QED BY <2>1, <2>5
<1>8. A \subseteq Acknowledgements /\ \A a \in A : \E c \in r.acknowledged : a.spawn = c.spawn
  <2>1. \A a \in r.acknowledged : a \in Acknowledgements
    BY DEF Listed
  <2>2. \A a \in Acknowledgements : [a EXCEPT !.proc = p] \in Acknowledgements /\ [a EXCEPT !.proc = p].spawn = a.spawn
    BY DEF Acknowledgements
  <2> QED BY <2>1, <2>2
<1>9. taken # {} => A1 \subseteq Acknowledgements /\ \A a \in A1 : \E c \in r.acknowledged : a.spawn = c.spawn
  <2>1. \A a \in r.acknowledged : a \in Acknowledgements
    BY DEF Listed
  <2>2. \A a \in Acknowledgements : [a EXCEPT !.proc = p] \in Acknowledgements /\ [a EXCEPT !.proc = p].spawn = a.spawn
    BY DEF Acknowledgements
  <2>3. taken # {} => a1 \in r.acknowledged
    OBVIOUS
  <2> HIDE DEF a1
  <2> QED BY <2>1, <2>2, <2>3
<1> HIDE DEF A1, P
<1>10. ASSUME NEW s, Listed(s) PROVE Listed(revive(s)) /\ Steady(s, revive(s))
  <2>1. Rests(s, revive(s))
    BY <1>10 DEF Rests, Listed
  <2> HIDE DEF revive
  <2> QED BY <1>10, <2>1, RestsSteady
<1> HIDE DEF revive
<1>11. ASSUME NEW s, Kept(r, s, G, z, N, z), Noted(s, l, i, p) PROVE P(Finish(revive(s)))
  <2>1. Listed(s)
    BY <1>11 DEF Kept
  <2>2. Steady(s, revive(s)) /\ Listed(revive(s))
    BY <1>10, <2>1
  <2>3. Steady(s, Finish(revive(s))) /\ Steady(r, r)
    BY <2>2, FinishSteady, SteadyTransitive DEF Steady
  <2>4. Noted(Finish(revive(s)), l, i, p)
    BY <1>11, <2>3 DEF Noted, Steady
  <2> HIDE DEF G
  <2>5. Kept(r, Finish(revive(s)), G, z, N, z)
    BY <1>11, <2>3, KeptSteady
  <2> QED BY <2>4, <2>5 DEF P
<1>12. ASSUME NEW s, Kept(r, s, G, z, N, z), Noted(s, l, i, p), s.acknowledged = r.acknowledged
       PROVE  P(Finish(revive(named(s))))
  <2>1. named(s) = [s EXCEPT !.acknowledged = A]
    BY <1>12
  <2> HIDE DEF G
  <2>a. PICK B : B = A
    OBVIOUS
  <2>b. /\ B \subseteq Acknowledgements /\ \A a \in B : \E c \in r.acknowledged : a.spawn = c.spawn
        /\ named(s) = [s EXCEPT !.acknowledged = B] /\ Listed(s)
    BY <1>8, <1>12, <2>1, <2>a DEF Kept
  <2> HIDE DEF named, A
  <2>c. PICK t : t = named(s)
    OBVIOUS
  <2>d. /\ DOMAIN t = DOMAIN s /\ t.unexited = s.unexited /\ t.overflow = s.overflow
        /\ t.exits = s.exits /\ t.acknowledged = B
    BY <2>b, <2>c DEF Listed
  <2>e. Kept(r, t, G, z, N, z) /\ Cores(t) = Cores(s)
    BY <1>12, <2>b, <2>d, AcknowledgedKept
  <2>2. Kept(r, named(s), G, z, N, z) /\ Cores(named(s)) = Cores(s) /\ named(s).overflow = s.overflow
    BY <2>c, <2>d, <2>e
  <2>3. Noted(named(s), l, i, p)
    BY <1>12, <2>2 DEF Noted
  <2> QED BY <1>11, <2>2, <2>3
<1> HIDE DEF named, A
<1>13. ASSUME NEW s, NEW d \in Entries(s), d.inst = i, d.proc = p, l \in d.launches
       PROVE  Noted(s, l, i, p)
  <2>1. Core(d) \in Cores(s)
    BY DEF Cores
  <2> QED BY <1>13, <2>1, CoreFacts DEF Noted
<1>14. ASSUME <<i, p>> \in r.exits PROVE P(r) /\ P(Finish(s0))
  <2>1. Kept(r, s0, G, z, N, z)
    BY <1>7
  <2> HIDE DEF s0, G
  <2>2. Kept(r, Finish(s0), G, z, N, z) /\ Steady(r, r)
    BY <2>1, FinishKept DEF Steady
  <2>3. Kept(r, r, G, z, N, z)
    BY <2>2, SteadyKept
  <2> QED BY <1>14, <2>2, <2>3 DEF P
<1>15. ASSUME known # {} PROVE P(Finish(revive(named(Dropping(s1, pending)))))
  <2>1. e1 \in Entries(r) /\ e1.inst = i /\ e1.proc = p
    BY <1>3, <1>15
  <2> HIDE DEF e1
  <2>2. \A x \in Entries(r) : x # e1 => Triple(x) # <<e1.spawn, e1.inst, p>>
    BY <2>1, EntriesListed DEF Triple
  <2>3. /\ Kept(r, s1, G, z, z, z) /\ Listed(s1) /\ s1.acknowledged = r.acknowledged
        /\ \E d \in Entries(s1) : /\ d.spawn = e1.spawn /\ d.inst = e1.inst /\ d.proc = p
                                  /\ d.launches = e1.launches \cup ls
    BY <1>6, <2>1, <2>2, IdentifyKept
  <2>4. PICK d \in Entries(s1) : d.inst = i /\ d.proc = p /\ l \in d.launches
    BY <2>1, <2>3
  <2> HIDE DEF s1
  <2>5. d \notin pending
    BY <1>2, <2>4
  <2> DEFINE t == Dropping(s1, pending)
  <2>6. Kept(s1, t, G, z, N, z) /\ Entries(t) = Entries(s1) \ pending /\ t.acknowledged = r.acknowledged
    BY <1>7, <2>3
  <2> HIDE DEF t, G, pending
  <2>7. Kept(r, s1, G, z, z, z) /\ G \subseteq G /\ z \subseteq N /\ z \subseteq z
    BY <1>6, <2>3
  <2>8. Kept(r, s1, G, z, N, z)
    BY <2>7, KeptWeakens
  <2>9. Kept(r, t, G, z, N, z)
    BY <1>5, <2>6, <2>8, KeptTransitive
  <2>10. Noted(t, l, i, p)
    BY <1>13, <2>4, <2>5, <2>6
  <2>11. P(Finish(revive(named(t))))
    BY <1>12, <2>6, <2>9, <2>10
  <2> QED BY <2>11 DEF t
<1>16. ASSUME known = {}, pending # {} PROVE P(Finish(revive(named(s3))))
  <2>1. first \in pending
    BY <1>4, <1>16
  <2> HIDE DEF first
  <2>2. Kept(r, s2, G, z, N, z) /\ Listed(s2) /\ Entries(s2) = Entries(r) \ (pending \ {first}) /\ s2.acknowledged = r.acknowledged
    BY <1>7
  <2>3. first \in Entries(s2) /\ Core(first) \in G /\ first.inst = i
    BY <1>2, <2>1, <2>2
  <2>4. \A x \in Entries(r) : x.inst # i \/ x.proc # p
    BY <1>16 DEF Identified
  <2> HIDE DEF s2, G, pending
  <2>5. \A x \in Entries(s2) : Triple(x) # <<first.spawn, first.inst, p>>
    BY <2>2, <2>3, <2>4 DEF Triple
  <2>6. /\ Kept(s2, s3, G, {}, {}, {}) /\ s3.acknowledged = s2.acknowledged
        /\ \E d \in Entries(s3) : /\ d.spawn = first.spawn /\ d.inst = first.inst /\ d.proc = p
                                  /\ d.launches = first.launches \cup ls
    BY <2>2, <2>3, <2>5, IdentifyKept
  <2>7. PICK d \in Entries(s3) : d.inst = i /\ d.proc = p /\ l \in d.launches
    BY <2>3, <2>6
  <2> HIDE DEF s3
  <2>8. Kept(s2, s3, G, z, z, z) /\ G \subseteq G /\ z \subseteq N /\ z \subseteq z
    BY <1>6, <2>6
  <2>9. Kept(s2, s3, G, z, N, z)
    BY <2>8, KeptWeakens
  <2>10. Kept(r, s3, G, z, N, z)
    BY <1>5, <2>2, <2>9, KeptTransitive
  <2>11. Noted(s3, l, i, p)
    BY <1>13, <2>7
  <2> QED BY <1>12, <2>2, <2>6, <2>10, <2>11
<1>17. ASSUME taken # {} PROVE P([r EXCEPT !.acknowledged = A1])
  <2>1. Steady(r, r)
    BY DEF Steady
  <2>2. Kept(r, r, G, z, N, z)
    BY <2>1, SteadyKept
  <2>3. \E a \in r.acknowledged : a.spawn \in ls
    BY <1>17
  <2>a. PICK B : B = A1 /\ B \subseteq Acknowledgements /\ \A a \in B : \E c \in r.acknowledged : a.spawn = c.spawn
    BY <1>9, <1>17
  <2> HIDE DEF taken
  <2>b. PICK x : x = [r EXCEPT !.acknowledged = B]
    OBVIOUS
  <2> HIDE DEF G
  <2>c. /\ DOMAIN x = DOMAIN r /\ x.unexited = r.unexited /\ x.overflow = r.overflow
        /\ x.exits = r.exits /\ x.acknowledged = B
    BY <2>b DEF Listed
  <2>4. Kept(r, x, G, z, N, z) /\ Cores(x) = Cores(r)
    BY <2>a, <2>2, <2>c, AcknowledgedKept
  <2>5. P(x)
    BY <2>3, <2>4 DEF P
  <2> QED BY <2>5, <2>a, <2>b
<1>18. ASSUME known = {} PROVE P(Finish(revive(s5)))
  <2> DEFINE e == Entry(l, i, p, ls)
  <2>1. /\ e \in EntryRecords /\ Triple(e) = <<l, i, p>> /\ e.inst = i /\ e.proc = p
        /\ e.launches = ls /\ e.spawn = l
    BY DEF Entry, EntryRecords, Triple
  <2> HIDE DEF e
  <2>2. \A x \in Entries(r) : Triple(x) # Triple(e)
    BY <1>18, <2>1 DEF Identified, Triple
  <2>3. /\ Listed(s5) /\ Entries(s5) \subseteq Entries(r) \cup {e}
        /\ s5.overflow \/ (Entries(s5) = Entries(r) \cup {e} /\ s5.overflow = r.overflow)
        /\ s5.exits = r.exits /\ s5.acknowledged = r.acknowledged
    BY <2>1, <2>2, PushList DEF e
  <2> HIDE DEF s5
  <2>4. ASSUME NEW c \in Cores(r) PROVE s5.overflow \/ \E d \in Cores(s5) : Carries(d, c)
    <3>1. s5.overflow \/ c \in Cores(s5)
      BY <2>3 DEF Cores
    <3> QED BY <3>1 DEF Carries
  <2>5. ASSUME NEW d \in Cores(s5)
        PROVE  \/ \E c \in Cores(r) : d.spawn = c.spawn /\ d.inst = c.inst /\ c.launches \subseteq d.launches
               \/ <<d.spawn, d.inst>> \in N /\ d.spawn \in d.launches
    <3>1. PICK x \in Entries(s5) : d = Core(x)
      BY DEF Cores
    <3>2. CASE x \in Entries(r)
      <4>1. d \in Cores(r)
        BY <3>1, <3>2 DEF Cores
      <4> QED BY <4>1
    <3>3. CASE x = e
      BY <1>6, <2>1, <3>1, <3>3, CoreFacts
    <3> QED BY <2>3, <3>2, <3>3
  <2>6. Kept(r, s5, G, z, N, z)
    BY <2>3, <2>4, <2>5 DEF Kept
  <2>7. Noted(s5, l, i, p)
    <3>1. CASE s5.overflow
      BY <3>1 DEF Noted
    <3>2. CASE e \in Entries(s5)
      BY <1>13, <2>1, <3>2
    <3> QED BY <2>3, <3>1, <3>2
  <2> QED BY <1>11, <2>6, <2>7
<1> HIDE DEF known, taken, pending, s0, s1, s3, s5
<1>19. P(ProcessSpawned(r, l, ls, i, p, respawn))
  BY <1>1, <1>14, <1>15, <1>16, <1>17, <1>18
<1> QED BY SMTT(40), <1>6, <1>19 DEF P, G, Answers

\* applyTerminalProcessExited.
LEMMA ProcessExitedKept ==
    ASSUME NEW r, Listed(r), NEW l, NEW m, NEW i, NEW p
    PROVE  Kept(r, ProcessExited(r, l, m, i, p), IdentifiedCores(i, p) \cup PendingCores({l}, i), {},
                {}, {<<i, p>>})
<1> DEFINE match == IF Identified(r, i, p) # {} THEN Identified(r, i, p) ELSE PendingOf(r, {l}, i)
           acked == LET ackedAs(q) == {a \in r.acknowledged : a.inst = i /\ a.proc = q /\ (q # 0 \/ a.spawn = l)}
                    IN  IF ackedAs(p) # {} THEN ackedAs(p) ELSE ackedAs(0)
           carried == {l, m} \cup UNION {e.launches : e \in match}
           dropped == Dropping(r, match)
           A == IF match = {} THEN dropped.acknowledged \ acked ELSE dropped.acknowledged
           gone == [dropped EXCEPT !.exits = @ \cup {<<i, p>>},
                                   !.acknowledged = IF match = {} THEN @ \ acked ELSE @]
           t1 == [gone EXCEPT !.cur.terminal = "exit", !.cur.lease = "none",
                              !.circuit = "open", !.blocked = TRUE]
           t2 == [gone EXCEPT !.cur.terminal = "exit"]
           t3 == [gone EXCEPT !.last.terminal = "exit"]
           G == IdentifiedCores(i, p) \cup PendingCores({l}, i)
<1>1. ProcessExited(r, l, m, i, p) \in {Finish(t1), Finish(t2), Finish(t3), Finish(gone)}
  BY DEF ProcessExited
<1>2. PICK z, X : z = {} /\ X = {<<i, p>>}
  OBVIOUS
<1>3. match \subseteq Entries(r) /\ {Core(e) : e \in match} \subseteq G
  <2>1. \A e \in Entries(r) : Core(e) \in CoreRecords
    BY CoresTyped DEF Cores
  <2>2. ASSUME NEW e \in Identified(r, i, p) PROVE e \in Entries(r) /\ Core(e) \in G
    BY <2>1, CoreFacts DEF Identified, IdentifiedCores
  <2>3. ASSUME NEW e \in PendingOf(r, {l}, i) PROVE e \in Entries(r) /\ Core(e) \in G
    BY PendingFacts
  <2> HIDE DEF G
  <2> QED BY <2>2, <2>3
<1> HIDE DEF match, acked
<1>4. /\ Listed(dropped) /\ Entries(dropped) = Entries(r) \ match /\ dropped.overflow = r.overflow
      /\ dropped.exits = r.exits /\ dropped.acknowledged = r.acknowledged
  BY DroppingList
<1>5. Kept(r, dropped, {Core(e) : e \in match}, {}, {}, {})
  <2>1. Rests(dropped, dropped)
    BY DEF Rests
  <2> QED BY <2>1, DroppingKept
<1> HIDE DEF dropped
<1>6. /\ DOMAIN gone = DOMAIN dropped /\ gone.unexited = dropped.unexited
      /\ gone.overflow = r.overflow /\ gone.exits = r.exits \cup X
      /\ gone.acknowledged \subseteq r.acknowledged
  <2>1. gone = [dropped EXCEPT !.exits = dropped.exits \cup {<<i, p>>}, !.acknowledged = A]
    OBVIOUS
  <2>2. A \subseteq r.acknowledged
    BY <1>4
  <2> HIDE DEF A, gone
  <2> QED BY <1>2, <1>4, <2>1, <2>2 DEF Listed
<1>7. Rests(gone, gone) /\ Rests(gone, t1) /\ Rests(gone, t2) /\ Rests(gone, t3)
  <2>1. {"unexited", "overflow", "exits", "acknowledged"} \subseteq DOMAIN gone
    BY <1>4, <1>6 DEF Listed
  <2> HIDE DEF gone
  <2> QED BY <2>1 DEF Rests
<1> HIDE DEF gone, t1, t2, t3
<1>8. Listed(gone) /\ Cores(gone) = Cores(dropped)
  BY <1>4, <1>6 DEF Listed, Cores, Entries
<1>9. \A c \in Cores(r) : c \in G \/ gone.overflow \/ \E d \in Cores(gone) : Carries(d, c)
  <2> HIDE DEF G
  <2> QED BY <1>3, <1>4, <1>5, <1>6, <1>8 DEF Kept
<1>10. \A d \in Cores(gone) :
         \E c \in Cores(r) : d.spawn = c.spawn /\ d.inst = c.inst /\ c.launches \subseteq d.launches
  BY <1>5, <1>8 DEF Kept
<1> HIDE DEF G
<1>11. Kept(r, gone, G, z, z, X)
  BY <1>2, <1>6, <1>8, <1>9, <1>10 DEF Kept
<1>12. Steady(r, r) /\ Steady(gone, Finish(gone)) /\ Steady(gone, Finish(t1)) /\ Steady(gone, Finish(t2)) /\ Steady(gone, Finish(t3))
  <2>1. Steady(gone, gone) /\ Steady(r, r)
    BY <1>8 DEF Steady
  <2> QED BY <1>7, <2>1, RestsFinish
<1>13. \A s : Steady(gone, s) => Kept(r, s, G, z, z, X)
  BY <1>11, <1>12, KeptSteady
<1>14. Kept(r, ProcessExited(r, l, m, i, p), G, z, z, X)
  BY <1>1, <1>12, <1>13
<1> QED BY SMTT(40), <1>2, <1>14 DEF G

\* applyTerminalStartRejectedBeforeSpawn.
LEMMA StartRejectedKept ==
    ASSUME NEW r0, Listed(r0), NEW l, NEW i, NEW reason
    PROVE  Kept(r0, StartRejected(r0, l, i, reason), PendingCores({l}, i), {}, {}, {})
<1> DEFINE r == Lapse(r0)
           pending == PendingOf(r, {l}, i)
           bound == Binds(r, r.cur, l)
           counts == bound /\ reason = "spawn_error"
           releases == bound /\ ~counts /\ r.circuit = "half_open" /\ r.cur.probe
           unclaims == bound /\ reason \in {"spawn_error", "stale_dispatch"} /\ r.demand.claimed = l
           base == [Dropping(r, pending) EXCEPT
                       !.demand = IF unclaims THEN [claimed |-> 0, fresh |-> FALSE] ELSE @]
           ended == [base EXCEPT !.cur.terminal = "e1", !.cur.lease = "none", !.blocked = TRUE]
           t1 == RaiseOwed([ended EXCEPT !.circuit = "open"], "failure")
           t2 == [base EXCEPT !.last = r.cur, !.cur = NoLaunch, !.circuit = "open"]
           G == PendingCores({l}, i)
<1>1. StartRejected(r0, l, i, reason) \in {r, Finish(base), Finish(ended), Finish(t1), Finish(t2)}
  BY DEF StartRejected
<1>2. PICK z : z = {}
  OBVIOUS
<1>3. Steady(r0, r) /\ Listed(r)
  BY LapseSteady DEF Steady
<1>4. {Core(e) : e \in pending} \subseteq G
  BY <1>3, PendingFacts
<1>5. Listed(Dropping(r, pending))
  BY <1>3, DroppingList
<1> HIDE DEF r, unclaims, pending
<1>6. Rests(Dropping(r, pending), base)
  BY <1>5 DEF Rests, Listed
<1>7. Kept(r, base, {Core(e) : e \in pending}, {}, {}, {}) /\ Listed(base)
  BY <1>3, <1>6, DroppingKept
<1> HIDE DEF base
<1>8. Rests(base, base) /\ Rests(base, ended) /\ Rests(base, t1) /\ Rests(base, t2)
  BY <1>7 DEF Rests, Listed, RaiseOwed
<1> HIDE DEF ended, t1, t2
<1>9. PICK g : g = {Core(e) : e \in pending}
  OBVIOUS
<1>10. Kept(r, base, g, z, z, z) /\ g \subseteq G /\ z \subseteq z
  BY <1>2, <1>4, <1>7, <1>9
<1> HIDE DEF G
<1>11. Kept(r, base, G, z, z, z)
  BY <1>10, KeptWeakens
<1>12. Steady(base, Finish(base)) /\ Steady(base, Finish(ended)) /\ Steady(base, Finish(t1)) /\ Steady(base, Finish(t2))
  <2>1. Steady(base, base)
    BY <1>7 DEF Steady
  <2> QED BY <1>8, <2>1, RestsFinish
<1>13. \A s : Steady(base, s) => Kept(r0, s, G, z, z, z)
  BY <1>3, <1>11, KeptSteady
<1>14. Kept(r0, r, G, z, z, z)
  BY <1>3, SteadyKept
<1>15. Kept(r0, StartRejected(r0, l, i, reason), G, z, z, z)
  BY <1>1, <1>12, <1>13, <1>14
<1> QED BY <1>2, <1>15 DEF G

\* What applyTerminalDaemonReady of instance i lets go.
Untracked(r, i) == {e \in Entries(MarkProtected(r)) : e.inst # i /\ ~e.protected}

\* The reconcile of a ready drops the unprotected entries of other instances only.
LEMMA DaemonReadyKept ==
    ASSUME NEW r, Listed(r), NEW i
    PROVE  Kept(r, DaemonReady(r, i), {Core(e) : e \in Untracked(r, i)}, {Core(e) : e \in Untracked(r, i)}, {}, {})
<1> DEFINE m == MarkProtected(r)
           old == {e \in Entries(m) : e.inst # i}
           untracked == {e \in old : ~e.protected}
           kept == old \ untracked
           news == {[spawn |-> e.spawn, inst |-> e.inst, proc |-> e.proc] : e \in untracked}
           dropped == Dropping(m, untracked)
           moved == [dropped EXCEPT !.acknowledged = @ \cup news]
           t == [moved EXCEPT !.manual = [reason |-> "daemon_restarted_no_exit",
                                          causes |-> {Key(e) : e \in kept}]]
<1>1. DaemonReady(r, i) \in {r, Finish(moved), Finish(t)}
  BY Zenon DEF DaemonReady
<1>2. Steady(r, m) /\ Listed(m)
  BY MarkProtectedSteady DEF Steady
<1>3. untracked = Untracked(r, i) /\ untracked \subseteq Entries(m)
  BY DEF Untracked
<1>4. \A e \in untracked : e \in EntryRecords
  BY <1>2, <1>3, EntriesListed
<1>5. news \subseteq Acknowledgements /\ \A a \in news : \E c \in {Core(e) : e \in untracked} : a.spawn = c.spawn
  BY <1>4, CoreFacts DEF EntryRecords, Acknowledgements
<1> HIDE DEF m, kept, untracked, news
<1>6. PICK z, G : z = {} /\ G = {Core(e) : e \in untracked}
  OBVIOUS
<1>7. /\ Listed(dropped) /\ Entries(dropped) = Entries(m) \ untracked /\ dropped.overflow = m.overflow
      /\ dropped.exits = m.exits /\ dropped.acknowledged = m.acknowledged
  BY <1>2, DroppingList
<1>8. Kept(m, dropped, G, z, z, z)
  <2>1. Rests(dropped, dropped)
    BY DEF Rests
  <2> QED BY <1>2, <1>6, <2>1, DroppingKept
<1> HIDE DEF dropped
<1>9. /\ DOMAIN moved = DOMAIN dropped /\ moved.unexited = dropped.unexited
      /\ moved.overflow = dropped.overflow /\ moved.exits = dropped.exits
      /\ moved.acknowledged = dropped.acknowledged \cup news
  BY <1>7 DEF Listed
<1>10. Rests(moved, moved) /\ Rests(moved, t)
  <2>1. {"unexited", "overflow", "exits", "acknowledged"} \subseteq DOMAIN moved
    BY <1>7, <1>9 DEF Listed
  <2> HIDE DEF moved
  <2> QED BY <2>1 DEF Rests
<1> HIDE DEF moved, t
<1>11. Listed(moved) /\ Cores(moved) = Cores(dropped)
  BY <1>5, <1>7, <1>9 DEF Listed, Cores, Entries
<1>12. \A a \in moved.acknowledged : \E c \in m.acknowledged \cup G : a.spawn = c.spawn
  BY <1>5, <1>6, <1>7, <1>9
<1>13. \A c \in Cores(m) : c \in G \/ moved.overflow \/ \E d \in Cores(moved) : Carries(d, c)
  BY <1>8, <1>9, <1>11 DEF Kept
<1>14. \A d \in Cores(moved) :
         \E c \in Cores(m) : d.spawn = c.spawn /\ d.inst = c.inst /\ c.launches \subseteq d.launches
  BY <1>6, <1>8, <1>11 DEF Kept
<1>15. Kept(m, moved, G, G, z, z)
  BY <1>7, <1>9, <1>11, <1>12, <1>13, <1>14 DEF Kept
<1>16. Steady(moved, Finish(moved)) /\ Steady(moved, Finish(t))
  <2>1. Steady(moved, moved)
    BY <1>11 DEF Steady
  <2> QED BY <1>10, <2>1, RestsFinish
<1>17. \A s : Steady(moved, s) => Kept(r, s, G, G, z, z)
  BY <1>2, <1>15, KeptSteady
<1>18. Steady(r, r)
  BY DEF Steady
<1>19. Kept(r, r, G, G, z, z)
  BY <1>18, SteadyKept
<1>20. Kept(r, DaemonReady(r, i), G, G, z, z)
  BY <1>1, <1>16, <1>17, <1>19
<1> QED BY <1>3, <1>6, <1>20

\* rollbackTerminalClaim drops at most the pending entries of its own launch.
LEMMA RolledBackKept ==
    ASSUME NEW r, Listed(r), NEW token, NEW left
    PROVE  Kept(r, RolledBack(r, token, left),
                {c \in CoreRecords : ~left /\ c.spawn = token.launch /\ c.proc = 0}, {}, {}, {})
<1> DEFINE undone == [r EXCEPT !.blocked = TRUE, !.gen = @ + 1, !.cur = NoLaunch, !.circuit = "open"]
           restored == [r EXCEPT !.cur = token.previous]
           base == IF token.probe THEN undone ELSE restored
           never == IF left THEN {} ELSE {e \in Entries(r) : e.spawn = token.launch /\ e.proc = 0}
           u == Dropping(base, never)
           t == [u EXCEPT !.demand = IF @.claimed = token.launch THEN [claimed |-> 0, fresh |-> FALSE] ELSE @]
           s == RolledBack(r, token, left)
           G == {c \in CoreRecords : ~left /\ c.spawn = token.launch /\ c.proc = 0}
<1>1. s \in {r, Finish(t)}
  BY Zenon DEF RolledBack
<1>2. Rests(r, base)
  BY DEF Rests, Listed
<1>3. {Core(e) : e \in never} \subseteq G
  <2>1. \A e \in Entries(r) : Core(e) \in CoreRecords
    BY CoresTyped DEF Cores
  <2> QED BY <2>1, CoreFacts
<1> HIDE DEF base, never, s
<1>4. Steady(r, base) /\ Listed(base)
  BY <1>2, RestsSteady
<1>5. Listed(u)
  BY <1>4, DroppingList
<1>6. Rests(u, t)
  <2> HIDE DEF u
  <2> QED BY <1>5 DEF Rests, Listed
<1> HIDE DEF t
<1>7. PICK z, g : z = {} /\ g = {Core(e) : e \in never}
  OBVIOUS
<1>8. Kept(base, t, g, z, z, z)
  BY <1>4, <1>6, <1>7, DroppingKept
<1>9. g \subseteq G /\ z \subseteq z
  BY <1>3, <1>7
<1> HIDE DEF G
<1>10. Kept(base, t, G, z, z, z)
  BY <1>8, <1>9, KeptWeakens
<1>11. Listed(t)
  BY <1>10 DEF Kept
<1>12. Steady(t, Finish(t)) /\ Steady(r, r)
  BY <1>11, FinishSteady DEF Steady
<1>13. Kept(r, Finish(t), G, z, z, z) /\ Kept(r, r, G, z, z, z)
  BY <1>4, <1>10, <1>12, KeptSteady, SteadyKept
<1>14. Kept(r, s, G, z, z, z)
  BY <1>1, <1>13
<1> QED BY <1>7, <1>14 DEF G, s

\* The entry of a claim: no process was listed for its launch.
LEMMA ClaimedEntry ==
    ASSUME NEW t, Listed(t), NEW l \in Nat, NEW i \in Nat, \A c \in Cores(t) : c.spawn # l
    PROVE  LET s == MarkProtected(Push(t, Entry(l, i, 0, {l})))
           IN  /\ Kept(t, s, {}, {}, {<<l, i>>}, {})
               /\ s.overflow \/ \E d \in Cores(s) : d.spawn = l /\ d.proc = 0
<1> DEFINE e == Entry(l, i, 0, {l})
           u == Push(t, e)
           s == MarkProtected(u)
<1>1. /\ e \in EntryRecords /\ Triple(e) = <<l, i, 0>> /\ e.spawn = l /\ e.inst = i /\ e.proc = 0
      /\ l \in e.launches
  BY DEF Entry, EntryRecords, Triple
<1>2. \A x \in Entries(t) : x.spawn # l
  BY CoreFacts DEF Cores
<1> HIDE DEF e
<1>3. \A x \in Entries(t) : Triple(x) # Triple(e)
  BY <1>1, <1>2 DEF Triple
<1>4. /\ Listed(u) /\ Entries(u) \subseteq Entries(t) \cup {e}
      /\ u.overflow \/ (Entries(u) = Entries(t) \cup {e} /\ u.overflow = t.overflow)
      /\ u.exits = t.exits /\ u.acknowledged = t.acknowledged
  BY <1>1, <1>3, PushList
<1> HIDE DEF u
<1>5. PICK z, N : z = {} /\ N = {<<l, i>>}
  OBVIOUS
<1>6. ASSUME NEW c \in Cores(t) PROVE u.overflow \/ \E d \in Cores(u) : Carries(d, c)
  <2>1. u.overflow \/ c \in Cores(u)
    BY <1>4 DEF Cores
  <2> QED BY <2>1 DEF Carries
<1>7. ASSUME NEW d \in Cores(u)
      PROVE  \/ \E c \in Cores(t) : d.spawn = c.spawn /\ d.inst = c.inst /\ c.launches \subseteq d.launches
             \/ <<d.spawn, d.inst>> \in N /\ d.spawn \in d.launches
  <2>1. PICK x \in Entries(u) : d = Core(x)
    BY DEF Cores
  <2>2. CASE x \in Entries(t)
    <3>1. d \in Cores(t)
      BY <2>1, <2>2 DEF Cores
    <3> QED BY <3>1
  <2>3. CASE x = e
    BY <1>1, <1>5, <2>1, <2>3, CoreFacts
  <2> QED BY <1>4, <2>2, <2>3
<1>8. Kept(t, u, z, z, N, z)
  BY <1>4, <1>6, <1>7 DEF Kept
<1>9. Steady(u, s) /\ Steady(t, t)
  BY <1>4, MarkProtectedSteady DEF Steady
<1>10. u.overflow \/ \E d \in Cores(u) : d.spawn = l /\ d.proc = 0
  <2>1. e \in Entries(u) => Core(e) \in Cores(u)
    BY DEF Cores
  <2> QED BY <1>1, <1>4, <2>1, CoreFacts
<1> HIDE DEF s
<1>11. Kept(t, s, z, z, N, z)
  BY <1>8, <1>9, KeptSteady
<1>12. s.overflow \/ \E d \in Cores(s) : d.spawn = l /\ d.proc = 0
  BY <1>9, <1>10 DEF Steady
<1> QED BY <1>5, <1>11, <1>12 DEF s, u, e

\* A record that awaits the process of a start, and one a human start of l
\* on instance i made of r.
Awaits(s, l) == s.overflow \/ \E d \in Cores(s) : d.spawn = l /\ d.proc = 0

TakenOver(r, s, l, i) ==
    /\ Listed(s) /\ s.exits \subseteq r.exits
    /\ \A d \in Cores(s) : d.spawn = l /\ d.inst = i /\ l \in d.launches
    /\ \A a \in s.acknowledged : \E c \in r.acknowledged \cup Cores(r) : a.spawn = c.spawn

\* A claim lists its launch; a human one starts from an empty list, and what
\* was listed counts as acknowledged.
LEMMA ClaimedKept ==
    ASSUME NEW r0, Listed(r0), NEW l \in Nat, NEW i \in Nat, NEW human \in BOOLEAN, NEW demand \in BOOLEAN,
           \A c \in Cores(r0) : c.spawn # l
    PROVE  LET s == Claimed(r0, l, i, human, demand)
           IN  /\ ~human => Kept(r0, s, {}, {}, {<<l, i>>}, {})
               /\ human => TakenOver(r0, s, l, i)
               /\ Awaits(s, l)
<1> DEFINE r == Normalize(r0)
           probe == ~human /\ r.circuit = "open"
           news == {[spawn |-> e.spawn, inst |-> e.inst, proc |-> e.proc] : e \in Entries(r)}
           taken == [r EXCEPT !.unexited = <<>>, !.overflow = FALSE, !.manual = NoManual,
                        !.epoch = @ + 1, !.acknowledged = @ \cup news]
           base == IF human THEN Lifted(taken)
                   ELSE IF probe THEN [r EXCEPT !.last = r.cur, !.circuit = "half_open"] ELSE r
           d0 == IF demand /\ ~human THEN MoreDemand(base.demand) ELSE base.demand
           cur == [id |-> l, gen |-> base.gen, probe |-> probe,
                   lease |-> IF probe THEN "live" ELSE "none", terminal |-> "no"]
           dem == IF d0 = NoDemand THEN NoDemand ELSE [claimed |-> l, fresh |-> FALSE]
           t == [base EXCEPT !.cur = cur, !.demand = dem]
           s == Claimed(r0, l, i, human, demand)
<1>1. s = MarkProtected(Push(t, Entry(l, i, 0, {l})))
  BY Zenon DEF Claimed
<1>2. Steady(r0, r) /\ Listed(r)
  BY NormalizeSteady DEF Steady
<1> HIDE DEF r, s
<1>3. news \subseteq Acknowledgements /\ \A a \in news : \E c \in Cores(r) : a.spawn = c.spawn
  <2>1. \A e \in Entries(r) : e \in EntryRecords /\ Core(e) \in Cores(r)
    BY <1>2, EntriesListed DEF Cores
  <2> QED BY <2>1, CoreFacts DEF EntryRecords, Acknowledgements
<1> HIDE DEF news
<1>4. /\ DOMAIN taken = DOMAIN r /\ taken.unexited = <<>> /\ ~taken.overflow
      /\ taken.exits = r.exits /\ taken.acknowledged = r.acknowledged \cup news
  BY <1>2 DEF Listed
<1> HIDE DEF taken
<1>5. Rests(taken, Lifted(taken))
  <2>1. {"unexited", "overflow", "exits", "acknowledged"} \subseteq DOMAIN taken
    BY <1>2, <1>4 DEF Listed
  <2> QED BY <2>1 DEF Rests, Lifted
<1>6. IF human THEN Rests(taken, base) ELSE Rests(r, base)
  <2>1. CASE human
    BY <1>5, <2>1
  <2>2. CASE ~human
    <3>1. base = r \/ base = [r EXCEPT !.last = r.cur, !.circuit = "half_open"]
      BY <2>2
    <3> HIDE DEF base
    <3> QED BY <1>2, <2>2, <3>1 DEF Rests, Listed
  <2> QED BY <2>1, <2>2
<1> HIDE DEF base, cur, dem
<1>7. Rests(base, t)
  <2>1. {"unexited", "overflow", "exits", "acknowledged"} \subseteq DOMAIN base
    BY <1>2, <1>4, <1>6 DEF Listed, Rests
  <2> QED BY <2>1 DEF Rests
<1> HIDE DEF t
<1>8. PICK z, N, e : z = {} /\ N = {<<l, i>>} /\ e = Entry(l, i, 0, {l})
  OBVIOUS
<1>9. CASE ~human
  <2>1. Steady(r0, t) /\ Listed(t)
    BY <1>2, <1>6, <1>7, <1>9, RestsTransitive, RestsFinish DEF Steady
  <2>2. \A c \in Cores(t) : c.spawn # l
    BY <2>1 DEF Steady
  <2>3. Kept(t, s, z, z, N, z) /\ (s.overflow \/ \E d \in Cores(s) : d.spawn = l /\ d.proc = 0)
    BY <1>1, <1>8, <2>1, <2>2, ClaimedEntry
  <2>4. Steady(s, s)
    BY <2>3 DEF Kept, Steady
  <2>5. Kept(r0, s, z, z, N, z)
    BY <2>1, <2>3, <2>4, KeptSteady
  <2> QED BY <1>8, <1>9, <2>3, <2>5 DEF s, Awaits
<1>10. CASE human
  <2>1. Rests(taken, t)
    BY <1>6, <1>7, <1>10, RestsTransitive
  <2>2. /\ t.unexited = <<>> /\ t.exits = r.exits /\ t.acknowledged = r.acknowledged \cup news
        /\ DOMAIN t = DOMAIN r
    BY <1>4, <2>1 DEF Rests
  <2>3. Listed(t) /\ Cores(t) = {}
    <3>1. <<>> \in Seq(EntryRecords) /\ Len(<<>>) = 0 /\ DOMAIN <<>> = {}
      OBVIOUS
    <3>2. 0 <= UnexitedMax
      BY BreakerAssumption
    <3>3. Listed(t)
      BY <1>2, <1>3, <2>2, <3>1, <3>2 DEF Listed
    <3>4. Entries(t) = {}
      BY <2>2, <3>1 DEF Entries, Range
    <3> QED BY <3>3, <3>4 DEF Cores
  <2>4. Kept(t, s, z, z, N, z) /\ (s.overflow \/ \E d \in Cores(s) : d.spawn = l /\ d.proc = 0)
    BY <1>1, <1>8, <2>3, ClaimedEntry
  <2>5. \A d \in Cores(s) : d.spawn = l /\ d.inst = i /\ l \in d.launches
    BY <1>8, <2>3, <2>4 DEF Kept
  <2>6. Listed(s) /\ s.exits \subseteq r0.exits
    BY <1>2, <1>8, <2>2, <2>4 DEF Kept, Steady
  <2>7. ASSUME NEW a \in s.acknowledged
        PROVE  \E c \in r0.acknowledged \cup Cores(r0) : a.spawn = c.spawn
    <3>1. PICK c \in t.acknowledged : a.spawn = c.spawn
      BY <1>8, <2>4 DEF Kept
    <3>2. r.acknowledged = r0.acknowledged /\ Cores(r) = Cores(r0)
      BY <1>2 DEF Steady
    <3> QED BY <1>3, <2>2, <3>1, <3>2
  <2> QED BY <1>10, <2>4, <2>5, <2>6, <2>7 DEF s, Awaits, TakenOver
<1> QED BY <1>9, <1>10

-----------------------------------------------------------------------------
(* What the daemon's frames may speak of. *)

\* Frames that may end the pending entry of a launch, and the frame that
\* announces a process.
Mentions(f, l) ==
    \/ f.kind = "process_spawned" /\ l \in f.launches
    \/ f.kind = "process_exited" /\ l = f.spawn
    \/ f.kind \in {"start_rebound", "start_not_spawned"} /\ l = f.launch
Announces(f, p) == f.kind = "process_spawned" /\ f.proc = p

\* A start the daemon has dealt with.
Spent(l) == l \in Launches /\ starts[l].phase = "over" /\ starts[l].undo # "never"

Alive(p) == p \in Processes /\ procs[p].state = "alive"
Begun(p) == p \in Processes /\ procs[p].state # "none"
CarriedBy(p) == {procs[p].spawn, procs[p].last} \ {0}

\* Instances follow one another; a process carries starts dealt with on its
\* own instance, and each instance runs one process.
CarriersOk ==
    /\ conn \in 1..inst
    /\ ReadyInOrder => readies \subseteq {conn}
    /\ \A l \in Launches : starts[l].phase = "out" => starts[l].undo # "never"
    /\ \A p \in Processes : Begun(p) => procs[p].inst \in 1..inst /\ \A l \in CarriedBy(p) : Spent(l)
    /\ \A p \in Processes : Alive(p) => procs[p].spawn # 0
    /\ \A p, q \in Processes : Alive(p) /\ Alive(q) /\ procs[p].inst = procs[q].inst => p = q
    /\ \A p, q \in Processes :
         Begun(p) /\ Begun(q) /\ CarriedBy(p) \cap CarriedBy(q) # {} => procs[p].inst = procs[q].inst

\* A frame speaks of starts dealt with; of the start of a running process the
\* server was told of, only its own announcement still speaks.
FrameOk(f) ==
    /\ f.inst \in 1..inst
    /\ \A l \in Nat : Mentions(f, l) => Spent(l)
    /\ f.kind = "process_spawned" =>
         /\ f.launch \in f.launches /\ Begun(f.proc) /\ procs[f.proc].inst = f.inst
         /\ Alive(f.proc) => procs[f.proc].spawn = f.launch
    /\ f.kind = "process_exited" => procs[f.proc].state = "dead"
    /\ \A p \in Processes : Alive(p) /\ procs[p].told /\ Mentions(f, procs[p].spawn) => Announces(f, p)
    /\ \A p \in Processes : Alive(p) /\ ~procs[p].told /\ Announces(f, p) => f.launches = {f.launch}

FramesOk == \A k \in DOMAIN outbox : FrameOk(outbox[k])

\* Nothing behind the announcement of a running process speaks of its start.
OrderOk ==
    \A j, k \in DOMAIN outbox : \A p \in Processes :
        j < k /\ Announces(outbox[j], p) /\ Alive(p) => ~Mentions(outbox[k], procs[p].spawn)

DaemonInv == CarriersOk /\ FramesOk /\ OrderOk

\* What a step may do to starts, instances and processes.
Advance ==
    /\ inst <= inst'
    /\ \A l \in Nat : Spent(l) => Spent(l)'
    /\ \A q \in Processes :
         /\ Begun(q) => Begun(q)' /\ procs'[q].inst = procs[q].inst
         /\ procs[q].state = "dead" => procs'[q].state = "dead"
         /\ Alive(q)' /\ Begun(q) => Alive(q) /\ procs'[q].spawn = procs[q].spawn
         /\ Begun(q) /\ procs[q].told => procs'[q].told

\* A step that tells the server of a process leaves no frame but its
\* announcement speaking of its start.
Tells(f) ==
    \A q \in Processes :
        Alive(q)' /\ procs'[q].told /\ Mentions(f, procs'[q].spawn) =>
            Announces(f, q) \/ (Begun(q) /\ procs[q].told)

\* The queue loses some frames and keeps the order of the others.
Thinned ==
    \E m \in [DOMAIN outbox' -> DOMAIN outbox] :
        /\ \A j, k \in DOMAIN outbox' : j < k => m[j] < m[k]
        /\ \A k \in DOMAIN outbox' : outbox'[k] = outbox[m[k]]

\* A frame stays well formed while the daemon advances.
LEMMA FrameKept ==
    ASSUME inst \in Nat, inst' \in Nat, Advance, NEW f \in Frames, FrameOk(f), Tells(f)
    PROVE  FrameOk(f)'
<1>0. f.kind = "process_exited" => f.proc \in Processes
  BY DEF Frames
<1>1. f.inst \in 1..inst'
  BY DEF FrameOk, Advance
<1>2. \A l \in Nat : Mentions(f, l) => Spent(l)'
  BY DEF FrameOk, Advance
<1>3. ASSUME f.kind = "process_spawned"
      PROVE  /\ f.launch \in f.launches /\ Begun(f.proc)' /\ procs'[f.proc].inst = f.inst
             /\ Alive(f.proc)' => procs'[f.proc].spawn = f.launch
  <2>1. f.launch \in f.launches /\ Begun(f.proc) /\ procs[f.proc].inst = f.inst
        /\ (Alive(f.proc) => procs[f.proc].spawn = f.launch)
    BY <1>3 DEF FrameOk
  <2>2. f.proc \in Processes
    BY <2>1 DEF Begun
  <2> QED BY <2>1, <2>2 DEF Advance
<1>4. f.kind = "process_exited" => procs'[f.proc].state = "dead"
  BY <1>0 DEF FrameOk, Advance
<1>5. ASSUME NEW p \in Processes, Alive(p)', procs'[p].told, Mentions(f, procs'[p].spawn)
      PROVE  Announces(f, p)
  BY <1>5 DEF Tells, FrameOk, Advance
<1>6. ASSUME NEW p \in Processes, Alive(p)', ~procs'[p].told, Announces(f, p)
      PROVE  f.launches = {f.launch}
  <2>1. Begun(p)
    BY <1>6 DEF FrameOk, Announces
  <2> QED BY <1>6, <2>1 DEF FrameOk, Advance
<1> QED BY <1>1, <1>2, <1>3, <1>4, <1>5, <1>6 DEF FrameOk

\* The frames that stay in the queue stay well formed and in order.
LEMMA OutboxThinned ==
    ASSUME inst \in Nat, inst' \in Nat, outbox \in Seq(Frames), FramesOk, OrderOk, Advance, Thinned,
           \A k \in DOMAIN outbox' : Tells(outbox'[k])
    PROVE  FramesOk' /\ OrderOk'
<1>1. PICK m \in [DOMAIN outbox' -> DOMAIN outbox] :
        /\ \A j, k \in DOMAIN outbox' : j < k => m[j] < m[k]
        /\ \A k \in DOMAIN outbox' : outbox'[k] = outbox[m[k]]
  BY DEF Thinned
<1>2. ASSUME NEW k \in DOMAIN outbox'
      PROVE  FrameOk(outbox[k])'
  <2>1. PICK f : f = outbox'[k] /\ f = outbox[m[k]]
    BY <1>1
  <2>2. f \in Frames /\ FrameOk(f) /\ Tells(f)
    BY <1>1, <2>1 DEF FramesOk
  <2>3. FrameOk(f)'
    BY <2>2, FrameKept
  <2> QED BY <2>1, <2>3
<1>3. ASSUME NEW j \in DOMAIN outbox', NEW k \in DOMAIN outbox', NEW p \in Processes,
             j < k, Announces(outbox'[j], p), Alive(p)'
      PROVE  ~Mentions(outbox'[k], procs'[p].spawn)
  <2>1. m[j] \in DOMAIN outbox /\ m[k] \in DOMAIN outbox /\ m[j] < m[k]
        /\ outbox'[j] = outbox[m[j]] /\ outbox'[k] = outbox[m[k]]
    BY <1>1, <1>3
  <2>2. Begun(p)
    BY <1>3, <2>1 DEF FramesOk, FrameOk, Announces
  <2>3. Alive(p) /\ procs'[p].spawn = procs[p].spawn
    BY <1>3, <2>2 DEF Advance
  <2> QED BY <1>3, <2>1, <2>3 DEF OrderOk
<1> QED BY <1>2, <1>3 DEF FramesOk, OrderOk

\* A new frame may only speak of the start of the process it announces.
LEMMA OutboxQueued ==
    ASSUME inst \in Nat, inst' \in Nat, outbox \in Seq(Frames), FramesOk, OrderOk, Advance,
           NEW g \in Frames, outbox' = Append(outbox, g), FrameOk(g)',
           \A k \in DOMAIN outbox : Tells(outbox[k]),
           \A p \in Processes : Alive(p) /\ Alive(p)' => ~Mentions(g, procs[p].spawn)
    PROVE  FramesOk' /\ OrderOk'
<1>1. /\ DOMAIN outbox = 1..Len(outbox) /\ Len(outbox) \in Nat
      /\ DOMAIN outbox' = 1..(Len(outbox) + 1) /\ outbox'[Len(outbox) + 1] = g
      /\ \A k \in DOMAIN outbox : outbox'[k] = outbox[k]
  OBVIOUS
<1>2. ASSUME NEW k \in DOMAIN outbox'
      PROVE  FrameOk(outbox[k])'
  <2>1. PICK f : f = outbox'[k]
    OBVIOUS
  <2>2. CASE k \in DOMAIN outbox
    <3>1. f \in Frames /\ FrameOk(f) /\ Tells(f)
      BY <1>1, <2>1, <2>2 DEF FramesOk
    <3>2. FrameOk(f)'
      BY <3>1, FrameKept
    <3> QED BY <2>1, <3>2
  <2>3. CASE k \notin DOMAIN outbox
    <3>1. f = g
      BY <1>1, <2>1, <2>3
    <3>2. FrameOk(f)'
      BY <3>1
    <3> QED BY <2>1, <3>2
  <2> QED BY <2>2, <2>3
<1>3. ASSUME NEW j \in DOMAIN outbox', NEW k \in DOMAIN outbox', NEW p \in Processes,
             j < k, Announces(outbox'[j], p), Alive(p)'
      PROVE  ~Mentions(outbox'[k], procs'[p].spawn)
  <2>1. j \in DOMAIN outbox /\ outbox'[j] = outbox[j]
    BY <1>1, <1>3
  <2>2. Begun(p)
    BY <1>3, <2>1 DEF FramesOk, FrameOk, Announces
  <2>3. Alive(p) /\ procs'[p].spawn = procs[p].spawn
    BY <1>3, <2>2 DEF Advance
  <2>4. CASE k \in DOMAIN outbox
    BY <1>1, <1>3, <2>1, <2>3, <2>4 DEF OrderOk
  <2>5. CASE k \notin DOMAIN outbox
    BY <1>1, <1>3, <2>3, <2>5
  <2> QED BY <2>4, <2>5
<1> QED BY <1>2, <1>3 DEF FramesOk, OrderOk

\* Starts that end are dealt with, and no other start changes.
LEMMA EndedSpent ==
    ASSUME starts \in [Launches -> StartRecords], CarriersOk, NEW ls, ls \subseteq Out, starts' = Ended(ls)
    PROVE  /\ \A l \in Nat : Spent(l) => Spent(l)'
           /\ \A l \in ls : Spent(l)' /\ ~Spent(l)
           /\ \A l \in Launches : starts'[l].phase = "out" => starts'[l].undo # "never"
<1>1. \A l \in Launches : starts'[l] = IF l \in ls THEN [starts[l] EXCEPT !.phase = "over", !.on = 0] ELSE starts[l]
  BY DEF Ended
<1>2. \A l \in ls : l \in Launches /\ starts[l].phase = "out" /\ starts[l].undo # "never"
  BY DEF Out, CarriersOk
<1>3. ASSUME NEW l \in Launches
      PROVE  starts'[l].undo = starts[l].undo /\ starts'[l].phase = IF l \in ls THEN "over" ELSE starts[l].phase
  <2>1. PICK x \in StartRecords : x = starts[l]
    OBVIOUS
  <2>2. CASE l \in ls
    <3>1. starts'[l] = [x EXCEPT !.phase = "over", !.on = 0]
      BY <1>1, <2>1, <2>2
    <3>2. starts'[l].undo = x.undo /\ starts'[l].phase = "over"
      BY <3>1 DEF StartRecords
    <3> QED BY <2>1, <2>2, <3>2
  <2>3. CASE l \notin ls
    BY <1>1, <2>3
  <2> QED BY <2>2, <2>3
<1> QED BY <1>2, <1>3 DEF Spent, CarriersOk

\* What the process records say of their types.
LEMMA ProcsTyped ==
    ASSUME Typed
    PROVE  /\ procs \in [Processes -> ProcessRecords] /\ inst \in Nat /\ conn \in Nat
           /\ starts \in [Launches -> StartRecords] /\ outbox \in Seq(Frames)
           /\ \A p \in Processes : Begun(p) => procs[p].last \in Launches
           /\ \A l \in Launches : l \in Nat /\ l # 0
           /\ \A p \in Processes : p \in Nat /\ p # 0
           /\ \A p \in Processes : procs[p].state \in {"none", "alive", "dead"} /\ procs[p].spawn \in Nat
<1>1. \A l \in Launches : l \in Nat /\ l # 0
  BY BreakerAssumption DEF Launches
<1>2. \A p \in Processes : p \in Nat /\ p # 0
  BY BreakerAssumption DEF Processes
<1>3. \A x \in ProcessRecords : x.state \in {"none", "alive", "dead"} /\ x.spawn \in Nat
  BY DEF ProcessRecords
<1>4. procs \in [Processes -> ProcessRecords]
  BY DEF Typed
<1>5. \A p \in Processes : procs[p].state \in {"none", "alive", "dead"} /\ procs[p].spawn \in Nat
  BY <1>3, <1>4
<1> QED BY <1>1, <1>2, <1>4, <1>5 DEF Typed, Begun

\* Steps that leave processes, starts, queue and instances alone.
LEMMA DaemonRests ==
    ASSUME Typed, DaemonInv, UNCHANGED <<starts, procs, outbox, inst, conn>>, readies' \subseteq readies
    PROVE  DaemonInv'
<1>1. CarriersOk'
  BY DEF DaemonInv, CarriersOk, Spent, Begun, Alive, CarriedBy, Launches, Processes
<1>2. \A f : FrameOk(f) => FrameOk(f)'
  BY DEF FrameOk, Spent, Begun, Alive, Mentions, Announces
<1>3. FramesOk'
  BY <1>2 DEF DaemonInv, FramesOk
<1>4. OrderOk'
  BY DEF DaemonInv, OrderOk, Alive, Mentions, Announces
<1> QED BY <1>1, <1>3, <1>4 DEF DaemonInv

\* Steps that change no process: starts are claimed, sent or rolled back,
\* instances advance, and frames leave the queue.
LEMMA ProcessesRest ==
    ASSUME Typed, DaemonInv, procs' = procs, Thinned, inst' \in Nat, conn' \in 1..inst', inst <= inst',
           ReadyInOrder => readies' \subseteq {conn'},
           \A l \in Nat : Spent(l) => Spent(l)',
           \A l \in Launches : starts'[l].phase = "out" => starts'[l].undo # "never"
    PROVE  DaemonInv'
<1>0. inst \in Nat /\ outbox \in Seq(Frames) /\ procs \in [Processes -> ProcessRecords]
      /\ CarriersOk /\ FramesOk /\ OrderOk
  BY DEF Typed, DaemonInv
<1>1. \A q \in Processes : /\ Begun(q)' <=> Begun(q)
                           /\ Alive(q)' <=> Alive(q)
                           /\ CarriedBy(q)' = CarriedBy(q)
  BY DEF Begun, Alive, CarriedBy
<1>2. Advance
  BY <1>1 DEF Advance
<1>3. \A f : Tells(f)
  BY <1>1 DEF Tells, Begun, Alive
<1>4. FramesOk' /\ OrderOk'
  BY <1>0, <1>2, <1>3, OutboxThinned
<1>5. \A p \in Processes : Begun(p) => procs[p].inst \in 1..inst /\ \A l \in CarriedBy(p) : Spent(l)
  BY <1>0 DEF CarriersOk
<1>6. ASSUME NEW p \in Processes, Begun(p)'
      PROVE  procs'[p].inst \in 1..inst' /\ \A l \in CarriedBy(p)' : Spent(l)'
  <2>1. Begun(p) /\ procs[p].inst \in 1..inst /\ \A l \in CarriedBy(p) : Spent(l)
    BY <1>1, <1>5, <1>6
  <2>2. \A l \in CarriedBy(p) : l \in Nat
    BY <2>1, BreakerAssumption DEF Spent, Launches
  <2> QED BY <1>0, <1>1, <2>1, <2>2
<1>7. CarriersOk'
  BY <1>0, <1>1, <1>6 DEF CarriersOk
<1> QED BY <1>4, <1>7 DEF DaemonInv

\* The queue that does not change is thinned by nothing; so is a queue that
\* loses its head, or any one frame.
LEMMA ThinnedQueues ==
    ASSUME NEW q, q = outbox, outbox \in Seq(Frames)
    PROVE  /\ outbox' = q => Thinned
           /\ outbox # <<>> /\ outbox' = Tail(q) => Thinned
           /\ \A k \in DOMAIN outbox : outbox' = RemoveAt(q, k) => Thinned
<1>1. DOMAIN outbox = 1..Len(q) /\ q \in Seq(Frames) /\ Len(q) \in Nat
  OBVIOUS
<1>2. ASSUME outbox' = q
      PROVE  Thinned
  <2> DEFINE m == [k \in DOMAIN outbox' |-> k]
  <2>1. m \in [DOMAIN outbox' -> DOMAIN outbox] /\ \A k \in DOMAIN outbox' : m[k] = k
    BY <1>2
  <2> HIDE DEF m
  <2> QED BY <1>2, <2>1 DEF Thinned
<1>3. ASSUME outbox # <<>>, outbox' = Tail(q)
      PROVE  Thinned
  <2> DEFINE m == [k \in DOMAIN outbox' |-> k + 1]
  <2>0. /\ DOMAIN outbox' = 1..(Len(q) - 1)
        /\ \A k \in DOMAIN outbox' : outbox'[k] = outbox[k + 1]
    BY <1>1, <1>3
  <2>1. m \in [DOMAIN outbox' -> DOMAIN outbox] /\ \A k \in DOMAIN outbox' : m[k] = k + 1
    BY <1>1, <2>0
  <2>2. \A j, k \in DOMAIN outbox' : j < k => j + 1 < k + 1
    BY <2>0, <1>1
  <2> HIDE DEF m
  <2>3. \A j, k \in DOMAIN outbox' : j < k => m[j] < m[k]
    BY <2>1, <2>2
  <2>4. \A k \in DOMAIN outbox' : outbox'[k] = outbox[m[k]]
    BY <2>0, <2>1
  <2> QED BY <2>1, <2>3, <2>4 DEF Thinned
<1>4. ASSUME NEW k \in DOMAIN outbox, outbox' = RemoveAt(q, k)
      PROVE  Thinned
  <2> DEFINE m == [j \in DOMAIN outbox' |-> IF j < k THEN j ELSE j + 1]
  <2>0. /\ DOMAIN outbox' = 1..(Len(q) - 1)
        /\ \A j \in DOMAIN outbox' : outbox'[j] = outbox[IF j < k THEN j ELSE j + 1]
    <3> DEFINE u == SubSeq(q, 1, k - 1)
               v == SubSeq(q, k + 1, Len(q))
    <3>1. k \in 1..Len(q) /\ outbox' = u \o v
      BY <1>1, <1>4 DEF RemoveAt
    <3>a. k \in Nat /\ k >= 1 /\ k <= Len(q)
      BY <1>1, <3>1
    <3>b. u \in Seq(Frames) /\ Len(u) = k - 1 /\ \A j \in 1..Len(u) : u[j] = q[j]
      BY <1>1, <3>a
    <3>c. v \in Seq(Frames) /\ Len(v) = Len(q) - k /\ \A j \in 1..Len(v) : v[j] = q[k + 1 + j - 1]
      BY <1>1, <3>a
    <3>d. ASSUME NEW j \in 1..Len(v)
          PROVE  v[j] = q[j + k]
      <4>1. k + 1 + j - 1 = j + k
        BY <1>1, <3>a, <3>c
      <4> QED BY <3>c, <4>1
    <3>2. /\ u \in Seq(Frames) /\ v \in Seq(Frames) /\ Len(u) = k - 1 /\ Len(v) = Len(q) - k
          /\ \A j \in 1..Len(u) : u[j] = q[j]
          /\ \A j \in 1..Len(v) : v[j] = q[j + k]
      BY <3>b, <3>c, <3>d
    <3> HIDE DEF u, v
    <3>3. /\ DOMAIN outbox' = 1..(Len(u) + Len(v))
          /\ \A j \in 1..(Len(u) + Len(v)) : outbox'[j] = IF j <= Len(u) THEN u[j] ELSE v[j - Len(u)]
      <4>1. DOMAIN (u \o v) = 1..Len(u \o v)
        BY <3>2
      <4> QED BY <3>1, <3>2, <4>1, ConcatProperties
    <3>4. Len(u) + Len(v) = Len(q) - 1
      BY <1>1, <3>a, <3>2
    <3>5. ASSUME NEW j \in 1..(Len(q) - 1)
          PROVE  outbox'[j] = q[IF j < k THEN j ELSE j + 1]
      <4>1. CASE j < k
        BY <1>1, <3>a, <3>2, <3>3, <3>4, <4>1
      <4>2. CASE ~(j < k)
        <5>1. j - Len(u) \in 1..Len(v) /\ j - Len(u) + k = j + 1 /\ ~(j <= Len(u))
          BY <1>1, <3>a, <3>2, <4>2
        <5> QED BY <3>2, <3>3, <3>4, <4>2, <5>1
      <4> QED BY <4>1, <4>2
    <3> QED BY <3>3, <3>4, <3>5
  <2>1. /\ m \in [DOMAIN outbox' -> DOMAIN outbox]
        /\ \A j \in DOMAIN outbox' : m[j] = IF j < k THEN j ELSE j + 1
    BY <1>1, <2>0
  <2> HIDE DEF m
  <2>2. \A i, j \in DOMAIN outbox' : i < j => m[i] < m[j]
    BY <1>1, <2>0, <2>1
  <2>3. \A j \in DOMAIN outbox' : outbox'[j] = outbox[m[j]]
    BY <2>0, <2>1
  <2> QED BY <2>1, <2>2, <2>3 DEF Thinned
<1> QED BY <1>2, <1>3, <1>4

\* A step that queues one frame.
LEMMA QueueStep ==
    ASSUME Typed, DaemonInv, inst' = inst, Advance, CarriersOk', NEW g \in Frames,
           outbox' = Append(outbox, g), FrameOk(g)', \A f \in Frames : FrameOk(f) => Tells(f),
           \A p \in Processes : Alive(p) /\ Alive(p)' => ~Mentions(g, procs[p].spawn)
    PROVE  DaemonInv'
<1>1. inst \in Nat /\ inst' \in Nat /\ outbox \in Seq(Frames) /\ FramesOk /\ OrderOk
  BY DEF Typed, DaemonInv
<1>2. \A k \in DOMAIN outbox : Tells(outbox[k])
  <2>1. \A k \in DOMAIN outbox : outbox[k] \in Frames
    BY <1>1
  <2> QED BY <1>1, <2>1 DEF FramesOk
<1>3. FramesOk' /\ OrderOk'
  BY <1>1, <1>2, OutboxQueued
<1> QED BY <1>3 DEF DaemonInv

\* What the invariant says of running processes.
LEMMA CarrierFacts ==
    ASSUME Typed, CarriersOk
    PROVE  /\ inst \in Nat /\ inst >= 1
           /\ \A p \in Processes : Begun(p) => procs[p].inst \in 1..inst
           /\ \A p \in Processes, l \in Launches : Begun(p) /\ l \in CarriedBy(p) => Spent(l)
           /\ \A p \in Processes : Alive(p) => /\ Begun(p) /\ procs[p].spawn # 0
                                               /\ procs[p].spawn \in CarriedBy(p) /\ Spent(procs[p].spawn)
           /\ \A p \in Processes : procs[p].state = "dead" => Begun(p)
BY DEF Typed, CarriersOk, Alive, Begun, CarriedBy

\* A process started for l: by a start and the ones it supersedes, or again by
\* the daemon for the last start of a process of its instance.
LEMMA SpawnedCarriers ==
    ASSUME Typed, CarriersOk, Live(inst) = {}, NEW p \in Processes, procs[p].state = "none",
           NEW l \in Launches, NEW told \in BOOLEAN,
           procs' = [procs EXCEPT ![p] = [state |-> "alive", inst |-> inst, spawn |-> l, last |-> l, told |-> told]],
           UNCHANGED <<inst, conn, readies>>,
           \A m \in Nat : Spent(m) => Spent(m)', Spent(l)',
           \A m \in Launches : starts'[m].phase = "out" => starts'[m].undo # "never",
           \A q \in Processes : Begun(q) /\ l \in CarriedBy(q) => procs[q].inst = inst
    PROVE  /\ CarriersOk' /\ Advance
           /\ \A q \in Processes \ {p} : procs'[q] = procs[q]
           /\ procs'[p].state = "alive" /\ procs'[p].inst = inst /\ procs'[p].spawn = l /\ procs'[p].told = told
<1>0. /\ procs \in [Processes -> ProcessRecords] /\ inst \in Nat /\ inst >= 1
      /\ l \in Nat /\ l # 0
  BY ProcsTyped, CarrierFacts
<1>1. /\ \A q \in Processes \ {p} : procs'[q] = procs[q]
      /\ procs'[p].state = "alive" /\ procs'[p].inst = inst /\ procs'[p].spawn = l
      /\ procs'[p].last = l /\ procs'[p].told = told
  BY <1>0
<1>2. \A q \in Processes : q # p => /\ Begun(q)' <=> Begun(q)
                                    /\ Alive(q)' <=> Alive(q)
                                    /\ CarriedBy(q)' = CarriedBy(q)
  BY <1>1 DEF Begun, Alive, CarriedBy
<1>3. ~Begun(p) /\ ~Alive(p) /\ CarriedBy(p)' = {l} /\ Begun(p)' /\ Alive(p)'
  BY <1>0, <1>1 DEF Begun, Alive, CarriedBy
<1>4. Advance
  <2>1. inst <= inst'
    BY <1>0
  <2>2. ASSUME NEW q \in Processes
        PROVE  /\ Begun(q) => Begun(q)' /\ procs'[q].inst = procs[q].inst
               /\ procs[q].state = "dead" => procs'[q].state = "dead"
               /\ Alive(q)' /\ Begun(q) => Alive(q) /\ procs'[q].spawn = procs[q].spawn
               /\ Begun(q) /\ procs[q].told => procs'[q].told
    BY <1>1, <1>2, <1>3
  <2> QED BY <2>1, <2>2 DEF Advance
<1>5. ASSUME NEW q \in Processes, Begun(q)'
      PROVE  procs'[q].inst \in 1..inst' /\ \A m \in CarriedBy(q)' : Spent(m)'
  <2>1. CASE q = p
    BY <1>0, <1>1, <1>3, <2>1
  <2>2. CASE q # p
    <3>1. Begun(q) /\ procs[q].inst \in 1..inst /\ \A m \in CarriedBy(q) : Spent(m)
      BY <1>2, <1>5, <2>2 DEF CarriersOk
    <3>2. \A m \in CarriedBy(q) : m \in Nat
      BY <3>1, BreakerAssumption DEF Spent, Launches
    <3> QED BY <1>1, <1>2, <2>2, <3>1, <3>2
  <2> QED BY <2>1, <2>2
<1>6. ASSUME NEW q \in Processes, Alive(q)'
      PROVE  procs'[q].spawn # 0
  BY <1>0, <1>1, <1>2, <1>6 DEF CarriersOk
<1>7. ASSUME NEW q \in Processes, NEW r \in Processes, Alive(q)', Alive(r)', procs'[q].inst = procs'[r].inst
      PROVE  q = r
  <2>1. \A x \in Processes : x # p /\ Alive(x)' => procs'[x].inst # inst
    BY <1>1, <1>2 DEF Live, Alive
  <2> QED BY <1>1, <1>2, <1>7, <2>1 DEF CarriersOk
<1>8. ASSUME NEW q \in Processes, NEW r \in Processes, Begun(q)', Begun(r)',
             CarriedBy(q)' \cap CarriedBy(r)' # {}
      PROVE  procs'[q].inst = procs'[r].inst
  <2>1. \A x \in Processes : x # p /\ Begun(x)' /\ l \in CarriedBy(x)' => procs'[x].inst = inst
    BY <1>1, <1>2
  <2>2. CASE q = p \/ r = p
    BY <1>1, <1>3, <1>8, <2>1, <2>2
  <2>3. CASE q # p /\ r # p
    BY <1>1, <1>2, <1>8, <2>3 DEF CarriersOk
  <2> QED BY <2>2, <2>3
<1>9. conn' \in 1..inst' /\ (ReadyInOrder => readies' \subseteq {conn'})
  BY DEF CarriersOk
<1>10. CarriersOk'
  BY <1>5, <1>6, <1>7, <1>8, <1>9 DEF CarriersOk
<1> QED BY <1>1, <1>4, <1>10

\* The daemon spawns a process for a start.
LEMMA SpawnDaemon ==
    ASSUME Typed, DaemonInv, NEW l \in Launches, NEW superseded \in SUBSET Launches, NEW p \in Processes,
           Spawn(l, superseded, p)
    PROVE  DaemonInv'
<1> DEFINE ls == superseded \cup {l}
<1>g. PICK g : g = [kind |-> "process_spawned", launch |-> l, launches |-> ls,
                    proc |-> p, inst |-> inst, respawn |-> FALSE]
  OBVIOUS
<1>0. /\ starts \in [Launches -> StartRecords] /\ CarriersOk /\ ls \subseteq Launches /\ l \in ls
      /\ inst \in Nat /\ inst >= 1 /\ procs[p].state = "none" /\ Live(inst) = {}
  BY ProcsTyped, CarrierFacts DEF DaemonInv, Spawn, Free
<1>1. ls \subseteq Out
  BY DEF Spawn, Accepts
<1>2. starts' = Ended(ls) /\ outbox' = Append(outbox, g) /\ UNCHANGED <<inst, conn, readies>>
      /\ procs' = [procs EXCEPT ![p] = [state |-> "alive", inst |-> inst, spawn |-> l, last |-> l, told |-> TRUE]]
  BY <1>g DEF Spawn, Queue, daemon
<1> HIDE DEF ls
<1>3. /\ \A m \in Nat : Spent(m) => Spent(m)'
      /\ \A m \in ls : Spent(m)' /\ ~Spent(m)
      /\ \A m \in Launches : starts'[m].phase = "out" => starts'[m].undo # "never"
  BY <1>0, <1>1, <1>2, EndedSpent
<1>4. \A q \in Processes : Begun(q) => l \notin CarriedBy(q)
  BY <1>0, <1>3, CarrierFacts
<1>5. /\ CarriersOk' /\ Advance
      /\ \A q \in Processes \ {p} : procs'[q] = procs[q]
      /\ procs'[p].state = "alive" /\ procs'[p].inst = inst /\ procs'[p].spawn = l /\ procs'[p].told
  <2>1. PICK told \in BOOLEAN : told = TRUE
    OBVIOUS
  <2>2. procs' = [procs EXCEPT ![p] = [state |-> "alive", inst |-> inst, spawn |-> l, last |-> l, told |-> told]]
    BY <1>2, <2>1
  <2> QED BY <1>0, <1>2, <1>3, <1>4, <2>1, <2>2, SpawnedCarriers
<1>6. g \in Frames /\ g.kind = "process_spawned" /\ g.launch = l /\ g.launches = ls /\ g.proc = p /\ g.inst = inst
  BY <1>0, <1>g DEF Frames
<1>7. \A q \in Processes : q # p /\ Alive(q)' => Alive(q) /\ procs'[q].spawn = procs[q].spawn /\ procs[q].spawn \notin ls
  <2>1. ASSUME NEW q \in Processes, q # p, Alive(q)'
        PROVE  Alive(q) /\ procs'[q].spawn = procs[q].spawn /\ procs[q].spawn \notin ls
    <3>1. procs'[q] = procs[q] /\ Alive(q)
      BY <1>5, <2>1 DEF Alive
    <3>2. Spent(procs[q].spawn)
      BY <1>0, <3>1, CarrierFacts
    <3> QED BY <1>3, <3>1, <3>2
  <2> QED BY <2>1
<1>8. FrameOk(g)'
  <2>1. \A m : Mentions(g, m) <=> m \in ls
    BY <1>6 DEF Mentions
  <2>2. Begun(p)' /\ Alive(p)'
    BY <1>5 DEF Begun, Alive
  <2>3. \A q : Announces(g, q) <=> q = p
    BY <1>6 DEF Announces
  <2>4. inst' = inst /\ inst \in 1..inst
    BY <1>0, <1>2
  <2>5. \A m \in Nat : Mentions(g, m) => Spent(m)'
    BY <1>0, <1>3, <2>1
  <2>6. \A r \in Processes : Alive(r)' /\ procs'[r].told /\ Mentions(g, procs'[r].spawn) => r = p
    BY <1>5, <1>7, <2>1
  <2>7. \A r \in Processes : Alive(r)' /\ ~procs'[r].told /\ Announces(g, r) => g.launches = {g.launch}
    BY <1>5, <1>6, <2>3
  <2>8. g.launch \in g.launches /\ g.kind # "process_exited"
    BY <1>0, <1>6
  <2> QED BY <1>5, <1>6, <2>2, <2>3, <2>4, <2>5, <2>6, <2>7, <2>8 DEF FrameOk
<1>9. ASSUME NEW f \in Frames, FrameOk(f)
      PROVE  Tells(f)
  <2>1. ~Mentions(f, l)
    BY <1>0, <1>3, <1>9, ProcsTyped DEF FrameOk
  <2>2. \A q \in Processes : q # p => (Alive(q)' => Begun(q)) /\ procs'[q].told = procs[q].told
    BY <1>5, <1>7 DEF Alive, Begun
  <2> QED BY <1>5, <2>1, <2>2 DEF Tells
<1>10. \A q \in Processes : Alive(q) /\ Alive(q)' => ~Mentions(g, procs[q].spawn)
  <2>1. ~Alive(p)
    BY <1>0 DEF Alive
  <2> QED BY <1>6, <1>7, <2>1 DEF Mentions
<1> QED BY <1>2, <1>5, <1>6, <1>8, <1>9, <1>10, QueueStep

\* The daemon starts the runtime again by itself.
LEMMA RespawnDaemon ==
    ASSUME Typed, DaemonInv, NEW l \in Launches, NEW p \in Processes, Respawn(l, p)
    PROVE  DaemonInv'
<1>g. PICK g : g = [kind |-> "process_spawned", launch |-> l, launches |-> {l},
                    proc |-> p, inst |-> inst, respawn |-> TRUE]
  OBVIOUS
<1>0. /\ CarriersOk /\ starts' = starts
      /\ inst \in Nat /\ inst >= 1 /\ procs[p].state = "none" /\ Live(inst) = {}
  BY CarrierFacts DEF DaemonInv, Respawn, Free
<1>2. outbox' = Append(outbox, g) /\ UNCHANGED <<inst, conn, readies>>
      /\ procs' = [procs EXCEPT ![p] = [state |-> "alive", inst |-> inst, spawn |-> l, last |-> l, told |-> FALSE]]
  BY <1>g DEF Respawn, Queue, daemon
<1>a. PICK q \in Processes : procs[q].state = "dead" /\ procs[q].inst = inst /\ procs[q].last = l
  BY DEF Respawn
<1>b. Begun(q) /\ l \in CarriedBy(q) /\ Spent(l) /\ l \in Nat
  BY <1>0, <1>a, CarrierFacts, ProcsTyped DEF CarriedBy
<1>c. \A m \in Nat : Spent(m) => Spent(m)'
  BY <1>0 DEF Spent
<1>d. \A m \in Launches : starts'[m].phase = "out" => starts'[m].undo # "never"
  BY <1>0 DEF CarriersOk
<1>4. \A r \in Processes : Begun(r) /\ l \in CarriedBy(r) => procs[r].inst = inst
  BY <1>0, <1>a, <1>b DEF CarriersOk
<1>5. /\ CarriersOk' /\ Advance
      /\ \A r \in Processes \ {p} : procs'[r] = procs[r]
      /\ procs'[p].state = "alive" /\ procs'[p].inst = inst /\ procs'[p].spawn = l /\ ~procs'[p].told
  <2>1. PICK told \in BOOLEAN : told = FALSE
    OBVIOUS
  <2>2. procs' = [procs EXCEPT ![p] = [state |-> "alive", inst |-> inst, spawn |-> l, last |-> l, told |-> told]]
    BY <1>2, <2>1
  <2> QED BY <1>0, <1>2, <1>b, <1>c, <1>d, <1>4, <2>1, <2>2, SpawnedCarriers
<1>6. g \in Frames /\ g.kind = "process_spawned" /\ g.launch = l /\ g.launches = {l} /\ g.proc = p /\ g.inst = inst
  BY <1>0, <1>g DEF Frames
<1>7. \A r \in Processes : r # p /\ Alive(r)' => Alive(r) /\ procs'[r].spawn = procs[r].spawn /\ procs[r].spawn # l
  <2>1. ASSUME NEW r \in Processes, r # p, Alive(r)'
        PROVE  Alive(r) /\ procs'[r].spawn = procs[r].spawn /\ procs[r].spawn # l
    <3>1. procs'[r] = procs[r] /\ Alive(r)
      BY <1>5, <2>1 DEF Alive
    <3>2. Begun(r) /\ procs[r].spawn \in CarriedBy(r)
      BY <1>0, <3>1, CarrierFacts
    <3>3. procs[r].inst # inst
      BY <1>0, <3>1 DEF Live, Alive
    <3> QED BY <1>4, <3>1, <3>2, <3>3
  <2> QED BY <2>1
<1>8. FrameOk(g)'
  <2>1. \A m : Mentions(g, m) <=> m = l
    BY <1>6 DEF Mentions
  <2>2. Begun(p)' /\ Alive(p)'
    BY <1>5 DEF Begun, Alive
  <2>3. \A r : Announces(g, r) <=> r = p
    BY <1>6 DEF Announces
  <2>4. inst' = inst /\ inst \in 1..inst
    BY <1>0, <1>2
  <2>5. \A m \in Nat : Mentions(g, m) => Spent(m)'
    BY <1>0, <1>b, <1>c, <2>1
  <2>6. \A r \in Processes : Alive(r)' /\ procs'[r].told /\ Mentions(g, procs'[r].spawn) => r = p
    BY <1>5, <1>7, <2>1
  <2>7. \A r \in Processes : Alive(r)' /\ ~procs'[r].told /\ Announces(g, r) => g.launches = {g.launch}
    BY <1>5, <1>6, <2>3
  <2>8. g.launch \in g.launches /\ g.kind # "process_exited"
    BY <1>0, <1>6
  <2> QED BY <1>5, <1>6, <2>2, <2>3, <2>4, <2>5, <2>6, <2>7, <2>8 DEF FrameOk
<1>9. ASSUME NEW f \in Frames
      PROVE  Tells(f)
  <2>2. \A r \in Processes : r # p => (Alive(r)' => Begun(r)) /\ procs'[r].told = procs[r].told
    BY <1>5, <1>7 DEF Alive, Begun
  <2> QED BY <1>5, <2>2 DEF Tells
<1>10. \A r \in Processes : Alive(r) /\ Alive(r)' => ~Mentions(g, procs[r].spawn)
  <2>1. ~Alive(p)
    BY <1>0 DEF Alive
  <2> QED BY <1>6, <1>7, <2>1 DEF Mentions
<1> QED BY <1>2, <1>5, <1>6, <1>8, <1>9, <1>10, QueueStep

\* Processes may take one more start, no process begins or ends.
LEMMA CarriersTaken ==
    ASSUME Typed, CarriersOk, UNCHANGED <<inst, conn, readies>>, NEW ls,
           \A m \in Nat : Spent(m) => Spent(m)', \A m \in ls : Spent(m)' /\ ~Spent(m),
           \A m \in Launches : starts'[m].phase = "out" => starts'[m].undo # "never",
           NEW p, \A q \in Processes : /\ procs'[q].state = procs[q].state /\ procs'[q].inst = procs[q].inst
                                       /\ procs'[q].spawn = procs[q].spawn /\ procs'[q].told = procs[q].told
                                       /\ procs'[q].last = procs[q].last \/ (q = p /\ procs'[q].last \in ls)
    PROVE  CarriersOk' /\ Advance /\ (\A f : FrameOk(f) => Tells(f))
<1>1. \A q \in Processes : /\ Begun(q)' <=> Begun(q)
                           /\ Alive(q)' <=> Alive(q)
                           /\ CarriedBy(q)' \subseteq CarriedBy(q) \cup ls
                           /\ q # p => CarriedBy(q)' = CarriedBy(q)
  BY DEF Begun, Alive, CarriedBy
<1>2. inst \in Nat
  BY DEF Typed
<1>3. ASSUME NEW q \in Processes, Begun(q)'
      PROVE  /\ procs'[q].inst \in 1..inst' /\ \A m \in CarriedBy(q)' : Spent(m)'
             /\ Begun(q) /\ \A m \in CarriedBy(q) : Spent(m)
  <2>1. Begun(q) /\ procs[q].inst \in 1..inst /\ \A m \in CarriedBy(q) : Spent(m)
    BY <1>1, <1>3 DEF CarriersOk
  <2>2. \A m \in CarriedBy(q) : m \in Nat
    BY <2>1, BreakerAssumption DEF Spent, Launches
  <2> QED BY <1>1, <2>1, <2>2
<1>4. ASSUME NEW q \in Processes, NEW r \in Processes, Begun(q)', Begun(r)',
             CarriedBy(q)' \cap CarriedBy(r)' # {}
      PROVE  procs'[q].inst = procs'[r].inst
  <2>1. CASE q = r
    BY <2>1
  <2>2. CASE q # r
    <3>1. CarriedBy(q) \cap CarriedBy(r) # {}
      BY <1>1, <1>3, <1>4, <2>2
    <3> QED BY <1>3, <1>4, <3>1 DEF CarriersOk
  <2> QED BY <2>1, <2>2
<1>5. CarriersOk'
  BY <1>1, <1>3, <1>4 DEF CarriersOk
<1>6. Advance
  BY <1>1, <1>2 DEF Advance
<1>7. \A f : FrameOk(f) => Tells(f)
  BY <1>1 DEF Tells, Begun, Alive
<1> QED BY <1>5, <1>6, <1>7

\* A frame of a start that ends is well formed: no process carries it.
LEMMA EndedFrame ==
    ASSUME Typed, CarriersOk, inst' = inst, NEW l \in Launches, Spent(l)', ~Spent(l), NEW g,
           g.kind \in {"start_rebound", "start_not_spawned"}, g.launch = l, g.inst = inst,
           \A q \in Processes : procs'[q].state = procs[q].state /\ procs'[q].spawn = procs[q].spawn
    PROVE  FrameOk(g)' /\ \A q \in Processes : Alive(q) /\ Alive(q)' => ~Mentions(g, procs[q].spawn)
<1>1. inst \in 1..inst
  BY CarrierFacts
<1>2. \A m : Mentions(g, m) <=> m = l
  BY DEF Mentions
<1>3. \A q \in Processes : Alive(q)' => Alive(q) /\ Spent(procs[q].spawn)
  BY CarrierFacts DEF Alive
<1>4. \A q \in Processes : Alive(q)' => procs'[q].spawn # l /\ procs[q].spawn # l
  BY <1>3
<1>5. \A q : ~Announces(g, q)
  BY DEF Announces
<1> QED BY <1>1, <1>2, <1>4, <1>5 DEF FrameOk

\* A start is rebound onto a running process.
LEMMA RebindDaemon ==
    ASSUME Typed, DaemonInv, NEW l \in Launches, NEW p \in Processes, Rebind(l, p)
    PROVE  DaemonInv'
<1>g. PICK g : g = [kind |-> "start_rebound", launch |-> l, proc |-> p, inst |-> inst]
  OBVIOUS
<1>0. /\ starts \in [Launches -> StartRecords] /\ CarriersOk /\ inst \in Nat
      /\ procs \in [Processes -> ProcessRecords]
  BY ProcsTyped DEF DaemonInv
<1>l. PICK ls : ls = {l} /\ l \in ls
  OBVIOUS
<1>1. /\ ls \subseteq Out /\ starts' = Ended(ls) /\ outbox' = Append(outbox, g)
      /\ UNCHANGED <<inst, conn, readies>> /\ procs' = [procs EXCEPT ![p].last = l]
  BY <1>g, <1>l DEF Rebind, Accepts, Queue, daemon
<1>2. /\ \A m \in Nat : Spent(m) => Spent(m)'
      /\ \A m \in ls : Spent(m)' /\ ~Spent(m)
      /\ \A m \in Launches : starts'[m].phase = "out" => starts'[m].undo # "never"
  BY <1>0, <1>1, EndedSpent
<1>3. \A q \in Processes : /\ procs'[q].state = procs[q].state /\ procs'[q].inst = procs[q].inst
                           /\ procs'[q].spawn = procs[q].spawn /\ procs'[q].told = procs[q].told
                           /\ procs'[q].last = procs[q].last \/ (q = p /\ procs'[q].last \in ls)
  <2>1. PICK x \in ProcessRecords : x = procs[p]
    BY <1>0
  <2>2. procs' = [procs EXCEPT ![p] = [x EXCEPT !.last = l]]
    BY <1>1, <2>1
  <2>3. PICK y : y = [x EXCEPT !.last = l]
    OBVIOUS
  <2>4. y.state = x.state /\ y.inst = x.inst /\ y.spawn = x.spawn /\ y.told = x.told /\ y.last = l
    BY <2>1, <2>3 DEF ProcessRecords
  <2>5. procs' = [procs EXCEPT ![p] = y]
    BY <2>2, <2>3
  <2> QED BY <1>0, <1>l, <2>1, <2>4, <2>5
<1>4. CarriersOk' /\ Advance /\ (\A f : FrameOk(f) => Tells(f))
  BY ZenonT(90), <1>0, <1>1, <1>2, <1>3, CarriersTaken
<1>5. g \in Frames /\ g.kind = "start_rebound" /\ g.launch = l /\ g.inst = inst
  BY <1>0, <1>g DEF Frames
<1>6. FrameOk(g)' /\ \A q \in Processes : Alive(q) /\ Alive(q)' => ~Mentions(g, procs[q].spawn)
  BY <1>0, <1>1, <1>2, <1>3, <1>l, <1>5, EndedFrame
<1> QED BY <1>1, <1>4, <1>5, <1>6, QueueStep

\* A start is refused before any spawn.
LEMMA RefuseDaemon ==
    ASSUME Typed, DaemonInv, NEW l \in Launches, NEW reason \in {"spawn_error", "stale_dispatch", "other"},
           RefuseStart(l, reason)
    PROVE  DaemonInv'
<1>g. PICK g : g = [kind |-> "start_not_spawned", launch |-> l, reason |-> reason, inst |-> inst]
  OBVIOUS
<1>0. /\ starts \in [Launches -> StartRecords] /\ CarriersOk /\ inst \in Nat
  BY ProcsTyped DEF DaemonInv
<1>l. PICK ls : ls = {l} /\ l \in ls
  OBVIOUS
<1>1. /\ ls \subseteq Out /\ starts' = Ended(ls) /\ outbox' = Append(outbox, g)
      /\ UNCHANGED <<inst, conn, readies, procs>>
  BY <1>g, <1>l DEF RefuseStart, Queue, daemon
<1>2. /\ \A m \in Nat : Spent(m) => Spent(m)'
      /\ \A m \in ls : Spent(m)' /\ ~Spent(m)
      /\ \A m \in Launches : starts'[m].phase = "out" => starts'[m].undo # "never"
  BY <1>0, <1>1, EndedSpent
<1>4. CarriersOk' /\ Advance /\ (\A f : FrameOk(f) => Tells(f))
  BY <1>0, <1>1, <1>2, CarriersTaken
<1>5. g \in Frames /\ g.kind = "start_not_spawned" /\ g.launch = l /\ g.inst = inst
  BY <1>0, <1>g DEF Frames
<1>6. FrameOk(g)' /\ \A q \in Processes : Alive(q) /\ Alive(q)' => ~Mentions(g, procs[q].spawn)
  BY <1>0, <1>1, <1>2, <1>l, <1>5, EndedFrame
<1> QED BY <1>1, <1>4, <1>5, <1>6, QueueStep

\* A turn ends: its frame ends no pending entry.
LEMMA EndTurnDaemon ==
    ASSUME Typed, DaemonInv, NEW p \in Processes, NEW kind \in {"terminal_failure", "turn_completed"},
           EndTurn(p, kind)
    PROVE  DaemonInv'
<1>g. PICK g : g = [kind |-> kind, launch |-> procs[p].last, inst |-> inst]
  OBVIOUS
<1>0. CarriersOk /\ inst \in Nat /\ inst \in 1..inst /\ procs[p].last \in Launches
  BY ProcsTyped, CarrierFacts DEF DaemonInv, EndTurn, Live, Begun
<1>1. outbox' = Append(outbox, g) /\ UNCHANGED <<inst, conn, readies, procs, starts>>
  BY <1>g DEF EndTurn, Queue, daemon
<1>l. PICK ls : ls = {}
  OBVIOUS
<1>2. /\ \A m \in Nat : Spent(m) => Spent(m)'
      /\ \A m \in ls : Spent(m)' /\ ~Spent(m)
      /\ \A m \in Launches : starts'[m].phase = "out" => starts'[m].undo # "never"
  BY <1>0, <1>1, <1>l DEF Spent, CarriersOk
<1>4. CarriersOk' /\ Advance /\ (\A f : FrameOk(f) => Tells(f))
  BY <1>0, <1>1, <1>2, CarriersTaken
<1>5. g \in Frames /\ g.kind \in {"terminal_failure", "turn_completed"} /\ g.inst = inst
  BY <1>0, <1>g DEF Frames
<1>6. \A m : ~Mentions(g, m)
  BY <1>5 DEF Mentions
<1>7. \A q : ~Announces(g, q)
  BY <1>5 DEF Announces
<1>8. FrameOk(g)'
  BY <1>0, <1>1, <1>5, <1>6, <1>7 DEF FrameOk
<1> QED BY <1>1, <1>4, <1>5, <1>6, <1>8, QueueStep

\* A process ends.
LEMMA ExitDaemon ==
    ASSUME Typed, DaemonInv, NEW p \in Processes, Exit(p)
    PROVE  DaemonInv'
<1>0. /\ CarriersOk /\ FramesOk /\ OrderOk /\ inst \in Nat /\ inst \in 1..inst
      /\ procs \in [Processes -> ProcessRecords] /\ outbox \in Seq(Frames)
      /\ procs[p].state = "alive" /\ Alive(p) /\ Begun(p) /\ procs[p].last \in Launches
      /\ procs[p].spawn \in Nat /\ Spent(procs[p].spawn) /\ procs[p].spawn # 0
  BY ProcsTyped, CarrierFacts DEF DaemonInv, Exit, Begun, Alive
<1>1. UNCHANGED <<inst, conn, readies, starts>>
  BY DEF Exit, daemon
<1>2. /\ \A q \in Processes : q # p => procs'[q] = procs[q]
      /\ procs'[p].state = "dead" /\ procs'[p].spawn = 0 /\ procs'[p].told
      /\ procs'[p].inst = procs[p].inst /\ procs'[p].last = procs[p].last
  <2>1. PICK x \in ProcessRecords : x = procs[p]
    BY <1>0
  <2>2. PICK y : y = [x EXCEPT !.state = "dead", !.spawn = 0, !.told = TRUE]
    OBVIOUS
  <2>3. /\ y.state = "dead" /\ y.spawn = 0 /\ y.told /\ y.inst = x.inst /\ y.last = x.last
    BY <2>1, <2>2 DEF ProcessRecords
  <2>4. procs' = [procs EXCEPT ![p] = y]
    BY <1>0, <2>1, <2>2 DEF Exit, ProcessRecords
  <2> QED BY <1>0, <2>1, <2>3, <2>4
<1>3. \A q \in Processes : /\ Begun(q)' <=> Begun(q)
                           /\ Alive(q)' <=> (Alive(q) /\ q # p)
                           /\ CarriedBy(q)' \subseteq CarriedBy(q)
                           /\ procs'[q].inst = procs[q].inst
  <2>1. \A q \in Processes : q # p => /\ Begun(q)' <=> Begun(q)
                                      /\ Alive(q)' <=> Alive(q)
                                      /\ CarriedBy(q)' = CarriedBy(q)
    BY <1>2 DEF Begun, Alive, CarriedBy
  <2>2. Begun(p)' /\ ~Alive(p)' /\ CarriedBy(p)' \subseteq CarriedBy(p)
    BY <1>0, <1>2 DEF Begun, Alive, CarriedBy
  <2> QED BY <1>0, <1>2, <2>1, <2>2
<1>4. \A m \in Nat : Spent(m) <=> Spent(m)'
  BY <1>1 DEF Spent
<1>5. Advance
  <2>1. \A q \in Processes : Begun(q) /\ procs[q].told => procs'[q].told
    BY <1>2
  <2>2. \A q \in Processes : procs[q].state = "dead" => procs'[q].state = "dead"
    BY <1>2
  <2>3. \A q \in Processes : Alive(q)' => Alive(q) /\ procs'[q].spawn = procs[q].spawn
    BY <1>2, <1>3
  <2> QED BY <1>0, <1>1, <1>3, <1>4, <2>1, <2>2, <2>3 DEF Advance
<1>6. \A f : Tells(f)
  BY <1>2, <1>3 DEF Tells, Begun, Alive
<1>7. CarriersOk'
  <2>1. ASSUME NEW q \in Processes, Begun(q)'
        PROVE  procs'[q].inst \in 1..inst' /\ \A m \in CarriedBy(q)' : Spent(m)'
    <3>1. procs[q].inst \in 1..inst /\ \A m \in CarriedBy(q) : Spent(m)
      BY <1>0, <1>3, <2>1 DEF CarriersOk
    <3>2. \A m \in CarriedBy(q) : m \in Nat
      BY <3>1, BreakerAssumption DEF Spent, Launches
    <3> QED BY <1>1, <1>3, <1>4, <3>1, <3>2
  <2>2. \A q \in Processes : Alive(q)' => procs'[q].spawn # 0
    BY <1>0, <1>2, <1>3 DEF CarriersOk
  <2>3. \A q, r \in Processes : Alive(q)' /\ Alive(r)' /\ procs'[q].inst = procs'[r].inst => q = r
    BY <1>0, <1>3 DEF CarriersOk
  <2>4. \A q, r \in Processes :
          Begun(q)' /\ Begun(r)' /\ CarriedBy(q)' \cap CarriedBy(r)' # {} => procs'[q].inst = procs'[r].inst
    BY <1>0, <1>3 DEF CarriersOk
  <2> QED BY <1>0, <1>1, <2>1, <2>2, <2>3, <2>4 DEF CarriersOk
<1>8. CASE procs[p].inst # inst
  <2>1. outbox' = outbox
    BY <1>8 DEF Exit
  <2>2. PICK q : q = outbox
    OBVIOUS
  <2>3. Thinned
    BY <1>0, <2>1, <2>2, ThinnedQueues
  <2>4. inst' \in Nat
    BY <1>0, <1>1
  <2>5. FramesOk' /\ OrderOk'
    BY <1>0, <1>5, <1>6, <2>3, <2>4, OutboxThinned
  <2> QED BY <1>7, <2>5 DEF DaemonInv
<1>9. CASE procs[p].inst = inst
  <2>g. PICK g : g = [kind |-> "process_exited", launch |-> procs[p].last,
                      spawn |-> procs[p].spawn, proc |-> p, inst |-> inst]
    OBVIOUS
  <2>1. outbox' = Append(outbox, g)
    BY <1>9, <2>g DEF Exit, Queue
  <2>2. g \in Frames /\ g.kind = "process_exited" /\ g.spawn = procs[p].spawn /\ g.proc = p /\ g.inst = inst
    BY <1>0, <2>g DEF Frames
  <2>3. \A m : Mentions(g, m) <=> m = procs[p].spawn
    BY <2>2 DEF Mentions
  <2>4. \A q : ~Announces(g, q)
    BY <2>2 DEF Announces
  <2>5. \A q \in Processes : Alive(q)' => procs[q].spawn # procs[p].spawn /\ procs'[q].spawn = procs[q].spawn
    <3>1. ASSUME NEW q \in Processes, Alive(q)', procs[q].spawn = procs[p].spawn
          PROVE  FALSE
      <4>1. Alive(q) /\ q # p
        BY <1>3, <3>1
      <4>2. Begun(q) /\ procs[q].spawn \in CarriedBy(q) /\ procs[p].spawn \in CarriedBy(p)
        BY <1>0, <4>1, CarrierFacts
      <4>3. procs[q].inst = procs[p].inst
        BY <1>0, <3>1, <4>2 DEF CarriersOk
      <4> QED BY <1>0, <4>1, <4>3 DEF CarriersOk
    <3> QED BY <1>2, <1>3, <3>1
  <2>6. FrameOk(g)'
    <3>1. \A m \in Nat : Mentions(g, m) => Spent(m)'
      BY <1>0, <1>4, <2>3
    <3>2. g.inst \in 1..inst'
      BY <1>0, <1>1, <2>2
    <3> QED BY <1>2, <2>2, <2>3, <2>4, <2>5, <3>1, <3>2 DEF FrameOk
  <2> QED BY <1>1, <1>5, <1>6, <1>7, <2>1, <2>2, <2>3, <2>5, <2>6, QueueStep
<1> QED BY <1>8, <1>9

\* Steps of the server on the starts, and the instances of the daemon.
LEMMA ServerDaemon ==
    ASSUME IInv, DaemonInv,
           \/ \E i \in Instances, human, demand \in BOOLEAN : Claim(i, human, demand)
           \/ \E l \in Launches, settles \in BOOLEAN, result \in {"sent", "doubt", "failed"} :
                Dispatch(l, settles, result)
           \/ \E l \in Launches : Rollback(l)
           \/ Restart \/ Connect
    PROVE  DaemonInv'
<1>0. /\ Typed /\ CarriersOk /\ inst \in Nat /\ starts \in [Launches -> StartRecords]
      /\ outbox \in Seq(Frames) /\ conn \in 1..inst /\ (ReadyInOrder => readies \subseteq {conn})
  BY ProcsTyped DEF IInv, DaemonInv, CarriersOk
<1>q. outbox' = outbox => Thinned
  <2>1. PICK q : q = outbox
    OBVIOUS
  <2> QED BY <1>0, <2>1, ThinnedQueues
<1>a. inst <= inst
  BY <1>0
<1>s. starts' = starts => /\ \A l \in Nat : Spent(l) => Spent(l)'
                          /\ \A l \in Launches : starts'[l].phase = "out" => starts'[l].undo # "never"
  BY <1>0 DEF Spent, CarriersOk
<1>1. ASSUME NEW i \in Instances, NEW human \in BOOLEAN, NEW demand \in BOOLEAN, Claim(i, human, demand)
      PROVE  DaemonInv'
  <2>1. PICK l \in Launches : l = Cardinality(Known) + 1
    BY <1>1 DEF Claim
  <2>2. l \notin Known
    BY <2>1, BreakerAssumption, NextLaunch DEF IInv
  <2>3. PICK x : x = [phase |-> "claimed", human |-> human, on |-> 0,
                      epoch |-> Claimed(b, l, i, human, demand).epoch, undo |-> "no",
                      token |-> TokenOf(b, l, human)]
    OBVIOUS
  <2>4. starts' = [starts EXCEPT ![l] = x] /\ x.phase = "claimed"
    BY <1>1, <2>1, <2>3 DEF Claim
  <2>5. \A m \in Launches : starts'[m] = IF m = l THEN x ELSE starts[m]
    BY <1>0, <2>4
  <2>6. ~Spent(l)
    BY <2>2 DEF Spent, Known
  <2>7. /\ \A m \in Nat : Spent(m) => Spent(m)'
        /\ \A m \in Launches : starts'[m].phase = "out" => starts'[m].undo # "never"
    BY SMTT(40), <1>0, <2>4, <2>5, <2>6 DEF Spent, CarriersOk
  <2> QED BY <1>0, <1>1, <1>q, <1>a, <2>7, ProcessesRest DEF Claim, daemon
<1>2. ASSUME NEW l \in Launches, NEW settles \in BOOLEAN, NEW result \in {"sent", "doubt", "failed"},
             Dispatch(l, settles, result)
      PROVE  DaemonInv'
  <2>1. starts[l].phase = "claimed"
    BY ZenonT(90), <1>2 DEF Dispatch
  <2>2. \A m \in Launches : m # l => starts'[m] = starts[m]
    BY <1>0, <1>2 DEF Dispatch
  <2>3. starts'[l].phase = "out" => starts'[l].undo # "never"
    <3>1. PICK x \in StartRecords : x = starts[l]
      BY <1>0
    <3>2. PICK undo : undo = CASE result = "sent" -> "no" [] result = "doubt" -> "left" [] OTHER -> "never"
      OBVIOUS
    <3>3. PICK phase : phase = IF result = "failed" THEN "over" ELSE "out"
      OBVIOUS
    <3>4. PICK on : on = IF result = "failed" THEN 0 ELSE conn
      OBVIOUS
    <3>5. PICK token : token = IF result = "sent" THEN NoToken ELSE x.token
      BY SMTT(40)
    <3>6. starts' = [starts EXCEPT ![l] = [x EXCEPT !.phase = phase, !.on = on, !.token = token, !.undo = undo]]
      BY <1>0, <1>2, <3>1, <3>2, <3>3, <3>4, <3>5 DEF Dispatch, StartRecords
    <3>7. starts'[l].phase = phase /\ starts'[l].undo = undo
      BY <1>0, <3>1, <3>6 DEF StartRecords
    <3> QED BY <3>2, <3>3, <3>7
  <2>4. ~Spent(l)
    BY <2>1 DEF Spent
  <2>5. /\ \A m \in Nat : Spent(m) => Spent(m)'
        /\ \A m \in Launches : starts'[m].phase = "out" => starts'[m].undo # "never"
    BY <1>0, <2>2, <2>3, <2>4 DEF Spent, CarriersOk
  <2> QED BY ZenonT(90), <1>0, <1>2, <1>q, <1>a, <2>5, ProcessesRest DEF Dispatch, daemon
<1>3. ASSUME NEW l \in Launches, Rollback(l)
      PROVE  DaemonInv'
  <2>1. \A m \in Launches : m # l => starts'[m] = starts[m]
    BY <1>0, <1>3 DEF Rollback
  <2>2. starts'[l].phase = starts[l].phase /\ starts'[l].undo = "no"
    <3>1. PICK x \in StartRecords : x = starts[l]
      BY <1>0
    <3>2. starts' = [starts EXCEPT ![l] = [x EXCEPT !.undo = "no", !.token = NoToken]]
      BY <1>0, <1>3, <3>1 DEF Rollback, StartRecords
    <3> QED BY <1>0, <3>1, <3>2 DEF StartRecords
  <2>3. /\ \A m \in Nat : Spent(m) => Spent(m)'
        /\ \A m \in Launches : starts'[m].phase = "out" => starts'[m].undo # "never"
    BY <1>0, <2>1, <2>2 DEF Spent, CarriersOk
  <2> QED BY <1>0, <1>3, <1>q, <1>a, <2>3, ProcessesRest DEF Rollback, daemon
<1>4. CASE Restart
  <2>1. inst' = inst + 1 /\ inst' \in Nat /\ conn' \in 1..inst' /\ inst <= inst'
    BY <1>0, <1>4 DEF Restart
  <2> QED BY <1>0, <1>4, <1>q, <1>s, <2>1, ProcessesRest DEF Restart
<1>5. CASE Connect
  <2>1. conn' \in 1..inst' /\ (ReadyInOrder => readies' \subseteq {conn'}) /\ inst' \in Nat
    BY <1>0, <1>5 DEF Connect
  <2> QED BY <1>0, <1>5, <1>q, <1>a, <1>s, <2>1, ProcessesRest DEF Connect
<1> QED BY <1>1, <1>2, <1>3, <1>4, <1>5

\* A fold takes a frame out of the queue.
LEMMA FoldFrameDaemon ==
    ASSUME IInv, DaemonInv, NEW k \in 1..MaxFrames, FoldFrame(k)
    PROVE  DaemonInv'
<1>0. /\ Typed /\ CarriersOk /\ inst \in Nat /\ outbox \in Seq(Frames) /\ conn \in 1..inst
      /\ (ReadyInOrder => readies \subseteq {conn}) /\ inst <= inst
  BY ProcsTyped DEF IInv, DaemonInv, CarriersOk
<1>1. PICK q : q = outbox
  OBVIOUS
<1>2. Thinned
  BY <1>0, <1>1, ThinnedQueues DEF FoldFrame
<1>3. /\ \A l \in Nat : Spent(l) => Spent(l)'
      /\ \A l \in Launches : starts'[l].phase = "out" => starts'[l].undo # "never"
  BY <1>0 DEF Spent, CarriersOk, FoldFrame
<1> QED BY <1>0, <1>2, <1>3, ProcessesRest DEF FoldFrame, daemon

\* A delivery tells the server of the process its frame announces, and may
\* take the frame out of the queue.
LEMMA DeliverDaemon ==
    ASSUME IInv, DaemonInv, NEW same \in BOOLEAN, NEW echo \in BOOLEAN, NEW acked \in BOOLEAN,
           Deliver(same, echo, acked)
    PROVE  /\ DaemonInv'
           /\ \A q \in Processes : /\ Alive(q)' <=> Alive(q)
                                   /\ procs'[q].state = procs[q].state
                                   /\ procs'[q].spawn = procs[q].spawn /\ procs'[q].inst = procs[q].inst
                                   /\ procs'[q].told => \/ procs[q].told
                                                        \/ Announces(Head(outbox), q) /\ Applies(b, Head(outbox))
<1>0. /\ Typed /\ CarriersOk /\ FramesOk /\ OrderOk /\ inst \in Nat /\ outbox \in Seq(Frames)
      /\ procs \in [Processes -> ProcessRecords] /\ outbox # <<>>
      /\ UNCHANGED <<inst, conn, readies, starts>>
  BY ProcsTyped DEF IInv, DaemonInv, Deliver, daemon
<1>f. PICK f : f = Head(outbox)
  OBVIOUS
<1>g. PICK q : q = outbox
  OBVIOUS
<1>1. f \in Frames /\ f = outbox[1] /\ 1 \in DOMAIN outbox
  BY <1>0, <1>f
<1>2. f.kind = "process_spawned" => f.proc \in Processes
  BY <1>1 DEF Frames
<1>3. outbox' = q \/ outbox' = Tail(q)
  BY <1>f, <1>g DEF Deliver
<1>4. PICK m \in [DOMAIN outbox' -> DOMAIN outbox] :
        /\ \A j, k \in DOMAIN outbox' : j < k => m[j] < m[k]
        /\ \A k \in DOMAIN outbox' : outbox'[k] = outbox[m[k]]
  BY <1>0, <1>3, <1>g, ThinnedQueues DEF Thinned
<1>5. procs' = procs \/ (/\ f.kind = "process_spawned" /\ Applies(b, f)
                         /\ procs' = [procs EXCEPT ![f.proc].told = TRUE])
  BY <1>f DEF Deliver
<1>6. \A r \in Processes : /\ procs'[r].state = procs[r].state
                           /\ procs'[r].spawn = procs[r].spawn /\ procs'[r].inst = procs[r].inst
                           /\ procs'[r].last = procs[r].last
                           /\ procs[r].told => procs'[r].told
                           /\ procs'[r].told => procs[r].told \/ (Announces(f, r) /\ Applies(b, f))
  <2>1. CASE procs' = procs
    BY <2>1
  <2>2. CASE f.kind = "process_spawned" /\ Applies(b, f) /\ procs' = [procs EXCEPT ![f.proc].told = TRUE]
    <3>1. PICK x \in ProcessRecords : x = procs[f.proc]
      BY <1>0, <1>2, <2>2
    <3>2. PICK y : y = [x EXCEPT !.told = TRUE]
      OBVIOUS
    <3>3. y.state = x.state /\ y.spawn = x.spawn /\ y.inst = x.inst /\ y.last = x.last /\ y.told
      BY <3>1, <3>2 DEF ProcessRecords
    <3>4. procs' = [procs EXCEPT ![f.proc] = y]
      BY <2>2, <3>1, <3>2
    <3>5. \A r \in Processes : procs'[r] = IF r = f.proc THEN y ELSE procs[r]
      BY <1>0, <3>4
    <3>6. \A r : r = f.proc => Announces(f, r)
      BY <2>2 DEF Announces
    <3> QED BY <2>2, <3>1, <3>3, <3>5, <3>6
  <2> QED BY <1>5, <2>1, <2>2
<1>7. \A r \in Processes : /\ Begun(r)' <=> Begun(r)
                           /\ Alive(r)' <=> Alive(r)
                           /\ CarriedBy(r)' = CarriedBy(r)
  BY <1>6 DEF Begun, Alive, CarriedBy
<1>8. \A l \in Nat : Spent(l) <=> Spent(l)'
  BY <1>0 DEF Spent
<1>9. Advance
  BY <1>0, <1>6, <1>7, <1>8 DEF Advance
<1>10. ASSUME NEW k \in DOMAIN outbox'
       PROVE  Tells(outbox'[k])
  <2>1. PICK h : h = outbox'[k] /\ h = outbox[m[k]]
    BY <1>4
  <2>2. ASSUME NEW r \in Processes, Alive(r)', procs'[r].told, Mentions(h, procs'[r].spawn), ~procs[r].told
        PROVE  Announces(h, r)
    <3>1. Announces(f, r) /\ Alive(r) /\ Mentions(h, procs[r].spawn)
      BY <1>6, <1>7, <2>2
    <3>2. m[k] \in Nat /\ m[k] >= 1
      BY <1>0, <1>4
    <3>3. CASE m[k] = 1
      BY <1>1, <2>1, <3>1, <3>3
    <3>4. CASE m[k] # 1
      <4>1. 1 < m[k] /\ m[k] \in DOMAIN outbox
        BY <1>4, <3>2, <3>4
      <4> QED BY <1>0, <1>1, <2>1, <3>1, <4>1 DEF OrderOk
    <3> QED BY <3>3, <3>4
  <2>3. \A r \in Processes : Alive(r)' => Begun(r)
    BY <1>7 DEF Alive, Begun
  <2>4. Tells(h)
    BY <2>2, <2>3 DEF Tells
  <2> QED BY <2>1, <2>4
<1>11. FramesOk' /\ OrderOk'
  <2>1. Thinned
    BY <1>4 DEF Thinned
  <2>2. inst' \in Nat
    BY <1>0
  <2> QED BY <1>0, <1>9, <1>10, <2>1, <2>2, OutboxThinned
<1>12. CarriersOk'
  <2>1. PICK ls : ls = {}
    OBVIOUS
  <2>2. \A l \in ls : Spent(l)' /\ ~Spent(l)
    BY <2>1
  <2>3. ASSUME NEW r \in Processes, Begun(r)'
        PROVE  procs'[r].inst \in 1..inst' /\ \A l \in CarriedBy(r)' : Spent(l)'
    <3>1. procs[r].inst \in 1..inst /\ \A l \in CarriedBy(r) : Spent(l)
      BY <1>0, <1>7, <2>3 DEF CarriersOk
    <3>2. \A l \in CarriedBy(r) : l \in Nat
      BY <3>1, BreakerAssumption DEF Spent, Launches
    <3> QED BY <1>0, <1>6, <1>7, <1>8, <3>1, <3>2
  <2> QED BY <1>0, <1>6, <1>7, <2>3 DEF CarriersOk
<1> QED BY <1>6, <1>7, <1>11, <1>12, <1>f DEF DaemonInv

\* The daemon's side of the invariant holds initially and in every step.
LEMMA InitDaemon == Init => DaemonInv
<1> SUFFICES ASSUME Init PROVE DaemonInv
  OBVIOUS
<1>1. \A l \in Launches : starts[l].phase = "none"
  BY DEF Init, NoStart
<1>2. \A p \in Processes : procs[p].state = "none"
  BY DEF Init, NoProcess
<1>3. outbox = <<>> /\ inst = 1 /\ conn = 1 /\ (ReadyInOrder => readies = {})
  BY DEF Init
<1>4. CarriersOk
  BY <1>1, <1>2, <1>3 DEF CarriersOk, Begun, Alive
<1>5. DOMAIN outbox = {}
  BY <1>3
<1> QED BY <1>4, <1>5 DEF DaemonInv, FramesOk, OrderOk

\* Every step keeps it.
LEMMA NextDaemon ==
    ASSUME IInv, DaemonInv, [Next]_vars
    PROVE  DaemonInv'
<1>0. Typed
  BY DEF IInv
<1>1. CASE UNCHANGED vars
  <2>1. readies' \subseteq readies
    BY <1>1 DEF vars
  <2> QED BY <1>0, <1>1, <2>1, DaemonRests DEF vars
<1>2. CASE Next
  <2>1. CASE \/ \E message, demand \in BOOLEAN : WakeRefused(message, demand)
             \/ \E i \in Instances : ObserveReady(i)
             \/ \E epoch \in 0..MaxLaunch, acked \in BOOLEAN : DeliverMarker(epoch, acked)
             \/ Lift \/ ManualStop \/ RecordUnreadable \/ LeaseRunsOut \/ BackoffPasses
    <3>1. UNCHANGED <<starts, procs, outbox, inst, conn>> /\ readies' \subseteq readies
      BY <2>1 DEF WakeRefused, ObserveReady, DeliverMarker, Lift, ManualStop, RecordUnreadable,
         LeaseRunsOut, BackoffPasses, daemon
    <3> QED BY <1>0, <3>1, DaemonRests
  <2>2. CASE \/ \E l \in Launches, superseded \in SUBSET Launches, p \in Processes : Spawn(l, superseded, p)
             \/ \E l \in Launches, p \in Processes : Rebind(l, p)
             \/ \E l \in Launches, reason \in {"spawn_error", "stale_dispatch", "other"} : RefuseStart(l, reason)
             \/ \E l \in Launches, p \in Processes : Respawn(l, p)
             \/ \E p \in Processes, kind \in {"terminal_failure", "turn_completed"} : EndTurn(p, kind)
             \/ \E p \in Processes : Exit(p)
    BY <1>0, <2>2, SpawnDaemon, RebindDaemon, RefuseDaemon, RespawnDaemon, EndTurnDaemon, ExitDaemon
  <2> QED BY <1>2, <2>1, <2>2, ServerDaemon, FoldFrameDaemon, DeliverDaemon DEF Next
<1> QED BY <1>1, <1>2

-----------------------------------------------------------------------------
(* What the record accounts for. *)

\* What the record lists was minted, of an instance that connected; what it
\* knows to have exited is dead.
ListOk ==
    /\ Listed(b)
    /\ \A c \in Cores(b) : c.spawn \in c.launches /\ c.inst \in 1..conn /\ c.spawn \in Known
    /\ \A i \in Nat, p \in Processes : <<i, p>> \in b.exits => procs[p].state = "dead"

\* An entry that keeps a start, or a process, from being unknown.
Covers(c, l) == c.spawn = l /\ c.proc = 0
Traces(c, l, i, p) == l \in c.launches /\ ((c.inst = i /\ c.proc = p) \/ Covers(c, l))

StartsAccounted ==
    \A l \in Known \ released :
        starts[l].phase = "over" \/ b.overflow \/ \E c \in Cores(b) : Covers(c, l)

ProcessesAccounted ==
    \A p \in Processes :
        Alive(p) /\ procs[p].told /\ procs[p].spawn \notin released =>
            b.overflow \/ \E c \in Cores(b) : Traces(c, procs[p].spawn, procs[p].inst, p)

\* What was acknowledged was released, and what was not is accounted for.
Accounted ==
    /\ \A a \in b.acknowledged : a.spawn \in released
    /\ StartsAccounted /\ ProcessesAccounted

ListInv == ListOk /\ (ReadyInOrder => Accounted)

\* A step that keeps the record's entries but those of G, exits but those of
\* X, and acknowledges the entries of U, keeps the list accounted for.
LEMMA ListKept ==
    ASSUME ListInv, NEW G, NEW U, NEW N, NEW X, Kept(b, b', G, U, N, X),
           conn \in Nat, conn' \in Nat, conn <= conn', released \subseteq released', Known \subseteq Known',
           \A l, i : <<l, i>> \in N => l \in Known' /\ i \in 1..conn',
           \A i \in Nat, p \in Processes : <<i, p>> \in X => procs'[p].state = "dead",
           \A p \in Processes : procs[p].state = "dead" => procs'[p].state = "dead",
           ReadyInOrder => \A c \in U : c.spawn \in released',
           ReadyInOrder => \A l \in Known' \ released' :
              \/ starts'[l].phase = "over" \/ b'.overflow \/ \E d \in Cores(b') : Covers(d, l)
              \/ l \in Known /\ starts[l].phase # "over" /\ \A c \in G : ~Covers(c, l),
           ReadyInOrder => \A p \in Processes : Alive(p)' /\ procs'[p].told /\ procs'[p].spawn \notin released' =>
              \/ b'.overflow \/ \E d \in Cores(b') : Traces(d, procs'[p].spawn, procs'[p].inst, p)
              \/ /\ Alive(p) /\ procs[p].told
                 /\ procs'[p].spawn = procs[p].spawn /\ procs'[p].inst = procs[p].inst
                 /\ \A c \in G : ~Traces(c, procs[p].spawn, procs[p].inst, p)
    PROVE  ListInv'
<1>0. PICK s : s = b'
  OBVIOUS
<1>1. /\ Listed(s) /\ (b.overflow => s.overflow)
      /\ \A c \in Cores(b) : c \in G \/ s.overflow \/ \E d \in Cores(s) : Carries(d, c)
      /\ \A d \in Cores(s) :
           \/ \E c \in Cores(b) : d.spawn = c.spawn /\ d.inst = c.inst /\ c.launches \subseteq d.launches
           \/ <<d.spawn, d.inst>> \in N /\ d.spawn \in d.launches
      /\ s.exits \subseteq b.exits \cup X
      /\ \A a \in s.acknowledged : \E c \in b.acknowledged \cup U : a.spawn = c.spawn
  BY <1>0 DEF Kept
<1>2. /\ \A c \in Cores(b) : c.spawn \in c.launches /\ c.inst \in 1..conn /\ c.spawn \in Known
      /\ \A i \in Nat, p \in Processes : <<i, p>> \in b.exits => procs[p].state = "dead"
  BY DEF ListInv, ListOk
<1>3. ASSUME NEW d \in Cores(s)
      PROVE  d.spawn \in d.launches /\ d.inst \in 1..conn' /\ d.spawn \in Known'
  <2>1. CASE \E c \in Cores(b) : d.spawn = c.spawn /\ d.inst = c.inst /\ c.launches \subseteq d.launches
    BY <1>2, <2>1
  <2>2. CASE <<d.spawn, d.inst>> \in N /\ d.spawn \in d.launches
    BY <2>2
  <2> QED BY <1>1, <2>1, <2>2
<1>4. \A i \in Nat, p \in Processes : <<i, p>> \in s.exits => procs'[p].state = "dead"
  BY <1>1, <1>2
<1>5. ListOk'
  BY <1>0, <1>1, <1>3, <1>4 DEF ListOk
<1>6. SUFFICES ASSUME ReadyInOrder, Accounted PROVE Accounted'
  BY <1>5 DEF ListInv
<1>7. \A a \in s.acknowledged : a.spawn \in released'
  BY <1>1, <1>6 DEF Accounted
<1>8. ASSUME NEW l \in Known' \ released'
      PROVE  starts'[l].phase = "over" \/ s.overflow \/ \E d \in Cores(s) : Covers(d, l)
  <2>1. CASE l \in Known /\ starts[l].phase # "over" /\ \A c \in G : ~Covers(c, l)
    <3>1. l \in Known \ released
      BY <1>8, <2>1
    <3>2. b.overflow \/ \E c \in Cores(b) : Covers(c, l)
      BY <1>6, <2>1, <3>1 DEF Accounted, StartsAccounted
    <3> QED BY <1>1, <2>1, <3>2 DEF Covers, Carries
  <2> QED BY <1>0, <1>6, <1>8, <2>1
<1>9. ASSUME NEW p \in Processes, Alive(p)', procs'[p].told, procs'[p].spawn \notin released'
      PROVE  s.overflow \/ \E d \in Cores(s) : Traces(d, procs'[p].spawn, procs'[p].inst, p)
  <2>1. CASE /\ Alive(p) /\ procs[p].told
             /\ procs'[p].spawn = procs[p].spawn /\ procs'[p].inst = procs[p].inst
             /\ \A c \in G : ~Traces(c, procs[p].spawn, procs[p].inst, p)
    <3>1. procs[p].spawn \notin released
      BY <1>9, <2>1
    <3>2. b.overflow \/ \E c \in Cores(b) : Traces(c, procs[p].spawn, procs[p].inst, p)
      BY <1>6, <2>1, <3>1 DEF Accounted, ProcessesAccounted
    <3>3. \A c, d : Carries(d, c) /\ Traces(c, procs[p].spawn, procs[p].inst, p) =>
                      Traces(d, procs[p].spawn, procs[p].inst, p)
      BY DEF Carries, Traces, Covers
    <3> QED BY <1>1, <2>1, <3>2, <3>3
  <2> QED BY <1>0, <1>6, <1>9, <2>1
<1>10. StartsAccounted'
  BY <1>0, <1>8 DEF StartsAccounted, Covers
<1>11. ProcessesAccounted'
  BY <1>0, <1>9 DEF ProcessesAccounted, Traces, Covers
<1> QED BY <1>0, <1>7, <1>10, <1>11 DEF Accounted

\* A step that leaves the entries as they are.
LEMMA SteadyList ==
    ASSUME ListInv, Steady(b, b'), conn \in Nat, conn' \in Nat, conn <= conn', released' = released,
           \A l \in Launches : starts'[l].phase = "none" <=> starts[l].phase = "none",
           \A l \in Launches : starts[l].phase = "over" => starts'[l].phase = "over",
           \A p \in Processes : procs[p].state = "dead" => procs'[p].state = "dead",
           ReadyInOrder => \A p \in Processes : Alive(p)' /\ procs'[p].told /\ procs'[p].spawn \notin released =>
              \/ b.overflow \/ \E d \in Cores(b) : Traces(d, procs'[p].spawn, procs'[p].inst, p)
              \/ /\ Alive(p) /\ procs[p].told
                 /\ procs'[p].spawn = procs[p].spawn /\ procs'[p].inst = procs[p].inst
    PROVE  ListInv'
<1>1. PICK z, s : z = {} /\ s = b'
  OBVIOUS
<1>2. Kept(b, s, z, z, z, z)
  BY <1>1, SteadyKept
<1>3. Known' = Known
  BY DEF Known
<1>4. Cores(s) = Cores(b) /\ s.overflow = b.overflow
  BY <1>1 DEF Steady
<1>5. \A l \in Known' \ released' :
        \/ starts'[l].phase = "over" \/ s.overflow \/ \E d \in Cores(s) : Covers(d, l)
        \/ (l \in Known /\ starts[l].phase # "over" /\ \A c \in z : ~Covers(c, l))
  BY <1>1, <1>3 DEF Known
<1>6. Kept(b, b', z, z, z, z) /\ Cores(b') = Cores(s) /\ b'.overflow = s.overflow
  BY <1>1, <1>2
<1>7. ReadyInOrder => \A p \in Processes : Alive(p)' /\ procs'[p].told /\ procs'[p].spawn \notin released' =>
        \/ s.overflow \/ \E d \in Cores(s) : Traces(d, procs'[p].spawn, procs'[p].inst, p)
        \/ /\ Alive(p) /\ procs[p].told
           /\ procs'[p].spawn = procs[p].spawn /\ procs'[p].inst = procs[p].inst
           /\ \A c \in z : ~Traces(c, procs[p].spawn, procs[p].inst, p)
  BY <1>1, <1>4
<1> QED BY <1>1, <1>3, <1>5, <1>6, <1>7, ListKept

\* The record is one its lemmas speak of.
LEMMA RecordListed ==
    ASSUME IInv, ListInv
    PROVE  /\ Shaped(b) /\ Probing(b) /\ Listed(b) /\ Steady(b, b)
           /\ conn \in Nat /\ conn <= conn /\ starts \in [Launches -> StartRecords]
           /\ procs \in [Processes -> ProcessRecords] /\ Cores(b) \subseteq CoreRecords
           /\ \A c \in Cores(b) : /\ c.spawn \in c.launches /\ c.spawn \in Known /\ c.spawn \in Launches
                                  /\ c.inst \in 1..conn /\ c.spawn # 0
<1>1. Shaped(b) /\ Probing(b) /\ Listed(b)
  BY RecordOf DEF ListInv, ListOk
<1>2. Steady(b, b)
  BY <1>1, RestsSteady DEF Rests
<1>3. Cores(b) \subseteq CoreRecords
  BY <1>1, CoresTyped
<1>4. conn \in Nat /\ conn <= conn /\ starts \in [Launches -> StartRecords] /\ procs \in [Processes -> ProcessRecords]
  BY DEF IInv, Typed
<1>5. \A l \in Known : l \in Launches /\ l # 0
  BY BreakerAssumption DEF Known, Launches
<1> QED BY <1>1, <1>2, <1>3, <1>4, <1>5 DEF ListInv, ListOk

\* Steps of the record that keep its entries.
LEMMA RecordLists ==
    ASSUME IInv, ListInv,
           \/ \E message, demand \in BOOLEAN : WakeRefused(message, demand)
           \/ \E epoch \in 0..MaxLaunch, acked \in BOOLEAN : DeliverMarker(epoch, acked)
           \/ Lift \/ ManualStop \/ LeaseRunsOut \/ BackoffPasses \/ UNCHANGED vars
    PROVE  ListInv'
<1>0. Shaped(b) /\ Listed(b) /\ Steady(b, b) /\ conn \in Nat /\ conn <= conn
  BY RecordListed
<1>1. UNCHANGED <<conn, starts, procs, released>>
  BY DEF WakeRefused, DeliverMarker, Lift, ManualStop, LeaseRunsOut, BackoffPasses, vars, daemon, ghosts
<1>2. Steady(b, b')
  <2>1. ASSUME NEW message \in BOOLEAN, NEW demand \in BOOLEAN, WakeRefused(message, demand)
        PROVE  Steady(b, b')
    BY <1>0, <2>1, GateSteady DEF WakeRefused
  <2>2. ASSUME NEW epoch \in 0..MaxLaunch, NEW acked \in BOOLEAN, DeliverMarker(epoch, acked)
        PROVE  Steady(b, b')
    BY <1>0, <2>2, EvidenceLostSteady DEF DeliverMarker, OutcomeMarker
  <2>3. CASE Lift
    BY <1>0, <2>3, LiftSteady DEF Lift
  <2>4. CASE ManualStop
    BY <1>0, <2>4, ManuallyStoppedSteady DEF ManualStop
  <2>5. CASE LeaseRunsOut
    <3>1. PICK s : s = [b EXCEPT !.cur.lease = "past"]
      OBVIOUS
    <3>2. Rests(b, s)
      BY <1>0, <3>1 DEF Shaped, Rests
    <3>3. b' = s
      BY <2>5, <3>1 DEF LeaseRunsOut
    <3> QED BY <1>0, <3>2, <3>3, RestsSteady
  <2>6. CASE BackoffPasses
    <3>1. PICK s : s = [b EXCEPT !.blocked = FALSE]
      OBVIOUS
    <3>2. Rests(b, s)
      BY <1>0, <3>1 DEF Shaped, Rests
    <3>3. b' = s
      BY <2>6, <3>1 DEF BackoffPasses
    <3> QED BY <1>0, <3>2, <3>3, RestsSteady
  <2>7. CASE UNCHANGED vars
    BY <1>0, <2>7 DEF vars
  <2> QED BY <2>1, <2>2, <2>3, <2>4, <2>5, <2>6, <2>7
<1>3. \A p \in Processes : Alive(p)' <=> Alive(p)
  BY <1>1 DEF Alive
<1> QED BY <1>0, <1>1, <1>2, <1>3, SteadyList

\* Steps of the daemon and of the queue.
LEMMA DaemonLists ==
    ASSUME IInv, DaemonInv, ListInv,
           \/ \E l \in Launches, superseded \in SUBSET Launches, p \in Processes : Spawn(l, superseded, p)
           \/ \E l \in Launches, p \in Processes : Rebind(l, p)
           \/ \E l \in Launches, reason \in {"spawn_error", "stale_dispatch", "other"} : RefuseStart(l, reason)
           \/ \E l \in Launches, p \in Processes : Respawn(l, p)
           \/ \E p \in Processes, kind \in {"terminal_failure", "turn_completed"} : EndTurn(p, kind)
           \/ \E p \in Processes : Exit(p)
           \/ \E k \in 1..MaxFrames : FoldFrame(k)
           \/ Restart \/ Connect
    PROVE  ListInv'
<1>0. /\ Steady(b, b) /\ conn \in Nat /\ conn <= conn /\ starts \in [Launches -> StartRecords]
      /\ procs \in [Processes -> ProcessRecords] /\ inst \in Nat /\ conn <= inst
      /\ \A c \in Cores(b) : c.spawn \in c.launches
  BY RecordListed DEF IInv, Typed, DaemonInv, CarriersOk
<1>e. ASSUME NEW ls, ls \subseteq Out, starts' = Ended(ls)
      PROVE  /\ \A l \in Launches : starts'[l].phase = "none" <=> starts[l].phase = "none"
             /\ \A l \in Launches : starts[l].phase = "over" => starts'[l].phase = "over"
  <2>1. ASSUME NEW l \in Launches
        PROVE  starts'[l].phase = IF l \in ls THEN "over" ELSE starts[l].phase
    <3>1. PICK x \in StartRecords : x = starts[l]
      BY <1>0
    <3>2. starts'[l] = IF l \in ls THEN [x EXCEPT !.phase = "over", !.on = 0] ELSE x
      BY <1>e, <3>1 DEF Ended
    <3> QED BY <3>1, <3>2 DEF StartRecords
  <2> QED BY <1>e, <2>1 DEF Out
<1>1. ASSUME NEW l \in Launches, NEW superseded \in SUBSET Launches, NEW p \in Processes,
             Spawn(l, superseded, p)
      PROVE  ListInv'
  <2>0. PICK ls : ls = superseded \cup {l}
    OBVIOUS
  <2>1. ls \subseteq Out /\ starts' = Ended(ls) /\ starts[l].phase = "out"
    BY <1>1, <2>0 DEF Spawn, Accepts, Out
  <2>2. /\ \A q \in Processes : q # p => procs'[q] = procs[q]
        /\ procs'[p].state = "alive" /\ procs'[p].spawn = l /\ procs[p].state = "none"
    BY <1>0, <1>1 DEF Spawn, Free
  <2>3. ReadyInOrder /\ l \notin released => b.overflow \/ \E d \in Cores(b) : Traces(d, l, procs'[p].inst, p)
    <3>1. l \in Known
      BY <2>1 DEF Known
    <3>2. ReadyInOrder /\ l \notin released => b.overflow \/ \E d \in Cores(b) : Covers(d, l)
      BY <2>1, <3>1 DEF ListInv, Accounted, StartsAccounted
    <3> QED BY <1>0, <3>2 DEF Covers, Traces
  <2>4. \A q \in Processes : q # p /\ Alive(q)' => Alive(q)
    BY <2>2 DEF Alive
  <2>5. UNCHANGED <<b, conn, released>>
    BY <1>1 DEF Spawn, daemon, ghosts
  <2> QED BY <1>0, <1>e, <2>1, <2>2, <2>3, <2>4, <2>5, SteadyList
<1>2. ASSUME NEW l \in Launches, NEW p \in Processes, Rebind(l, p)
      PROVE  ListInv'
  <2>1. PICK ls : ls = {l}
    OBVIOUS
  <2>2. ls \subseteq Out /\ starts' = Ended(ls)
    BY <1>2, <2>1 DEF Rebind, Accepts
  <2>3. \A q \in Processes : /\ procs'[q].state = procs[q].state /\ procs'[q].inst = procs[q].inst
                             /\ procs'[q].spawn = procs[q].spawn /\ procs'[q].told = procs[q].told
    <3>1. PICK x \in ProcessRecords : x = procs[p]
      BY <1>0
    <3>2. procs' = [procs EXCEPT ![p] = [x EXCEPT !.last = l]]
      BY <1>2, <3>1 DEF Rebind
    <3> QED BY <1>0, <3>1, <3>2 DEF ProcessRecords
  <2>4. \A q \in Processes : Alive(q)' <=> Alive(q)
    BY <2>3 DEF Alive
  <2>5. UNCHANGED <<b, conn, released>>
    BY <1>2 DEF Rebind, daemon, ghosts
  <2> QED BY <1>0, <1>e, <2>2, <2>3, <2>4, <2>5, SteadyList
<1>3. ASSUME NEW l \in Launches, NEW reason \in {"spawn_error", "stale_dispatch", "other"}, RefuseStart(l, reason)
      PROVE  ListInv'
  <2>1. PICK ls : ls = {l}
    OBVIOUS
  <2>2. ls \subseteq Out /\ starts' = Ended(ls)
    BY <1>3, <2>1 DEF RefuseStart
  <2>3. UNCHANGED <<b, conn, released, procs>>
    BY <1>3 DEF RefuseStart, daemon, ghosts
  <2>4. \A q \in Processes : Alive(q)' <=> Alive(q)
    BY <2>3 DEF Alive
  <2> QED BY <1>0, <1>e, <2>2, <2>3, <2>4, SteadyList
<1>4. ASSUME NEW l \in Launches, NEW p \in Processes, Respawn(l, p)
      PROVE  ListInv'
  <2>1. /\ \A q \in Processes : q # p => procs'[q] = procs[q]
        /\ ~procs'[p].told /\ procs[p].state = "none"
    BY <1>0, <1>4 DEF Respawn, Free
  <2>2. \A q \in Processes : q # p /\ Alive(q)' => Alive(q)
    BY <2>1 DEF Alive
  <2>3. UNCHANGED <<b, conn, released, starts>>
    BY <1>4 DEF Respawn, daemon, ghosts
  <2> QED BY <1>0, <2>1, <2>2, <2>3, SteadyList
<1>5. ASSUME NEW p \in Processes, NEW kind \in {"terminal_failure", "turn_completed"}, EndTurn(p, kind)
      PROVE  ListInv'
  <2>1. UNCHANGED <<b, conn, released, starts, procs>>
    BY <1>5 DEF EndTurn, daemon, ghosts
  <2>2. \A q \in Processes : Alive(q)' <=> Alive(q)
    BY <2>1 DEF Alive
  <2> QED BY <1>0, <2>1, <2>2, SteadyList
<1>6. ASSUME NEW p \in Processes, Exit(p)
      PROVE  ListInv'
  <2>1. UNCHANGED <<b, conn, released, starts>>
    BY <1>6 DEF Exit, daemon, ghosts
  <2>2. /\ \A q \in Processes : q # p => procs'[q] = procs[q]
        /\ procs'[p].state = "dead"
    <3>1. PICK x \in ProcessRecords : x = procs[p]
      BY <1>0
    <3>2. PICK y : y = [x EXCEPT !.state = "dead", !.spawn = 0, !.told = TRUE]
      OBVIOUS
    <3>3. procs' = [procs EXCEPT ![p] = y] /\ y.state = "dead"
      BY <1>0, <1>6, <3>1, <3>2 DEF Exit, ProcessRecords
    <3> QED BY <1>0, <3>3
  <2>3. \A q \in Processes : Alive(q)' => q # p /\ Alive(q)
    BY <2>2 DEF Alive
  <2> QED BY <1>0, <2>1, <2>2, <2>3, SteadyList
<1>7. ASSUME NEW k \in 1..MaxFrames, FoldFrame(k)
      PROVE  ListInv'
  <2>1. UNCHANGED <<b, conn, released, starts, procs>>
    BY <1>7 DEF FoldFrame, daemon, ghosts
  <2>2. \A q \in Processes : Alive(q)' <=> Alive(q)
    BY <2>1 DEF Alive
  <2> QED BY <1>0, <2>1, <2>2, SteadyList
<1>8. CASE Restart \/ Connect
  <2>1. UNCHANGED <<b, released, starts, procs>> /\ conn' \in Nat /\ conn <= conn'
    BY <1>0, <1>8 DEF Restart, Connect, ghosts
  <2>2. \A q \in Processes : Alive(q)' <=> Alive(q)
    BY <2>1 DEF Alive
  <2> QED BY <1>0, <2>1, <2>2, SteadyList
<1> QED BY <1>1, <1>2, <1>3, <1>4, <1>5, <1>6, <1>7, <1>8

\* A dispatch settles at most the obligation; a start that never left is over.
LEMMA DispatchList ==
    ASSUME IInv, DaemonInv, ListInv, NEW l \in Launches, NEW settles \in BOOLEAN,
           NEW result \in {"sent", "doubt", "failed"}, Dispatch(l, settles, result)
    PROVE  ListInv'
<1>0. /\ Shaped(b) /\ Listed(b) /\ Steady(b, b) /\ conn \in Nat /\ conn <= conn
      /\ starts \in [Launches -> StartRecords]
  BY RecordListed
<1>1. UNCHANGED <<conn, procs, released>> /\ starts[l].phase = "claimed"
  BY DEF Dispatch, daemon, ghosts
<1>2. Steady(b, b')
  <2>1. PICK s : s = [b EXCEPT !.owed = "none"]
    OBVIOUS
  <2>2. Rests(b, s)
    BY <1>0, <2>1 DEF Shaped, Rests
  <2>3. b' = s \/ b' = b
    BY <2>1 DEF Dispatch
  <2> QED BY <1>0, <2>2, <2>3, RestsSteady
<1>3. /\ \A m \in Launches : m # l => starts'[m] = starts[m]
      /\ starts'[l].phase \in {"out", "over"}
  <2>1. PICK x \in StartRecords : x = starts[l]
    BY <1>0
  <2>2. PICK undo : undo = CASE result = "sent" -> "no" [] result = "doubt" -> "left" [] OTHER -> "never"
    OBVIOUS
  <2>3. PICK phase : phase = IF result = "failed" THEN "over" ELSE "out"
    OBVIOUS
  <2>4. PICK on : on = IF result = "failed" THEN 0 ELSE conn
    OBVIOUS
  <2>5. PICK token : token = IF result = "sent" THEN NoToken ELSE x.token
    OBVIOUS
  <2>6. PICK y : y = [x EXCEPT !.phase = phase, !.on = on, !.token = token, !.undo = undo]
    OBVIOUS
  <2>7. starts' = [starts EXCEPT ![l] = y]
    BY <1>0, <2>1, <2>2, <2>3, <2>4, <2>5, <2>6 DEF Dispatch, StartRecords
  <2>8. y.phase = phase
    BY <2>1, <2>6 DEF StartRecords
  <2> QED BY <1>0, <2>3, <2>7, <2>8
<1>4. \A p \in Processes : Alive(p)' <=> Alive(p)
  BY <1>1 DEF Alive
<1> QED BY <1>0, <1>1, <1>2, <1>3, <1>4, SteadyList

\* A rollback drops the entry of a start that provably never left.
LEMMA RollbackList ==
    ASSUME IInv, DaemonInv, ListInv, NEW l \in Launches, Rollback(l)
    PROVE  ListInv'
<1>0. /\ Listed(b) /\ conn \in Nat /\ conn <= conn /\ starts \in [Launches -> StartRecords]
      /\ Cores(b) \subseteq CoreRecords
  BY RecordListed
<1>1. PICK token, left : token = starts[l].token /\ left = (starts[l].undo = "left")
  OBVIOUS
<1>2. PICK G : G = {c \in CoreRecords : ~left /\ c.spawn = token.launch /\ c.proc = 0}
  OBVIOUS
<1>z. PICK z : z = {}
  OBVIOUS
<1>3. Kept(b, b', G, z, z, z)
  BY <1>0, <1>1, <1>2, <1>z, RolledBackKept DEF Rollback
<1>4. /\ UNCHANGED <<conn, procs, released>> /\ starts[l].undo # "no"
  BY DEF Rollback, daemon, ghosts
<1>5. /\ \A m \in Launches : m # l => starts'[m] = starts[m]
      /\ starts'[l].phase = starts[l].phase
  <2>1. PICK x \in StartRecords : x = starts[l]
    BY <1>0
  <2>2. starts' = [starts EXCEPT ![l] = [x EXCEPT !.undo = "no", !.token = NoToken]]
    BY <1>0, <2>1 DEF Rollback, StartRecords
  <2> QED BY <1>0, <2>1, <2>2 DEF StartRecords
<1>6. token.launch = l /\ starts[l].phase # "claimed"
  BY <1>1, <1>4 DEF IInv, TokensAgree
<1>7. Known' = Known
  BY <1>5 DEF Known
<1>8. \A c \in G : starts[l].undo = "never" /\ c.spawn = l /\ c.proc = 0
  BY <1>0, <1>1, <1>2, <1>4, <1>6 DEF StartRecords
<1>9. ASSUME NEW m \in Known' \ released'
      PROVE  \/ starts'[m].phase = "over"
             \/ (m \in Known /\ starts[m].phase # "over" /\ \A c \in G : ~Covers(c, m))
  <2>1. m \in Known /\ m \in Launches /\ starts[m].phase # "none"
    BY <1>7 DEF Known
  <2>2. ASSUME NEW c \in G, Covers(c, m)
        PROVE  starts'[m].phase = "over"
    <3>1. m = l /\ starts[l].undo = "never"
      BY <1>8, <2>2 DEF Covers
    <3>2. starts[l].phase # "out"
      BY <3>1 DEF DaemonInv, CarriersOk
    <3>3. starts[l].phase = "over"
      BY <1>0, <1>6, <2>1, <3>1, <3>2 DEF StartRecords
    <3> QED BY <1>5, <3>1, <3>3
  <2> QED BY <1>5, <2>1, <2>2
<1>10. ASSUME NEW p \in Processes, Alive(p)', procs'[p].told
       PROVE  /\ Alive(p) /\ procs[p].told
              /\ procs'[p].spawn = procs[p].spawn /\ procs'[p].inst = procs[p].inst
              /\ \A c \in G : ~Traces(c, procs[p].spawn, procs[p].inst, p)
  <2>1. Alive(p) /\ procs' = procs /\ Spent(procs[p].spawn) /\ p # 0
    BY <1>4, <1>10, CarrierFacts, ProcsTyped DEF Alive, IInv, DaemonInv
  <2>2. ASSUME NEW c \in G, Traces(c, procs[p].spawn, procs[p].inst, p)
        PROVE  FALSE
    <3>1. starts[l].undo = "never" /\ c.spawn = l /\ c.proc = 0
      BY <1>8
    <3>2. procs[p].spawn = l
      BY <2>1, <2>2, <3>1 DEF Traces, Covers
    <3> QED BY <2>1, <3>1, <3>2 DEF Spent
  <2> QED BY <1>10, <2>1, <2>2
<1>11. \A p \in Processes : procs[p].state = "dead" => procs'[p].state = "dead"
  BY <1>4
<1> QED BY <1>z, <1>0, <1>3, <1>4, <1>7, <1>9, <1>10, <1>11, ListKept

\* The record is lost, with every start minted so far.
LEMMA UnreadableList ==
    ASSUME IInv, DaemonInv, ListInv, RecordUnreadable
    PROVE  ListInv'
<1>0. UNCHANGED <<starts, procs, conn>> /\ released' = released \cup Known /\ b' = UnreadableRecord
  BY DEF RecordUnreadable, daemon
<1>1. /\ DOMAIN b' = DOMAIN FreshRecord /\ b'.unexited = <<>> /\ b'.exits = {} /\ b'.acknowledged = {}
      /\ b'.overflow = FALSE
  BY <1>0 DEF UnreadableRecord, FreshRecord
<1>2. {"unexited", "overflow", "exits", "acknowledged"} \subseteq DOMAIN b'
  BY <1>1 DEF FreshRecord
<1>3. Listed(b')
  <2>1. b'.unexited \in Seq(EntryRecords) /\ Len(b'.unexited) = 0 /\ DOMAIN b'.unexited = {}
    BY <1>1
  <2> QED BY <1>1, <1>2, <2>1, BreakerAssumption DEF Listed
<1>4. Cores(b') = {}
  <2>1. DOMAIN b'.unexited = {}
    BY <1>1
  <2>2. Entries(b') = {}
    BY <1>3, <2>1, EntriesListed
  <2> QED BY <2>2 DEF Cores
<1>5. Known' \ released' = {}
  BY <1>0 DEF Known
<1>6. \A p \in Processes : Alive(p)' => procs'[p].spawn \in released'
  <2>1. \A p \in Processes : Alive(p)' => Alive(p) /\ Spent(procs[p].spawn)
    BY <1>0, CarrierFacts DEF Alive, IInv, DaemonInv
  <2>2. \A m : Spent(m) => m \in Known
    BY DEF Spent, Known
  <2> QED BY <1>0, <2>1, <2>2
<1>7. ListOk' 
  <2>1. Listed(b)' /\ Cores(b)' = {}
    BY <1>3, <1>4 DEF Listed, Cores, Entries, Core, EntryRecords, Triple, Acknowledgements
  <2> QED BY <1>1, <2>1 DEF ListOk
<1> QED BY <1>1, <1>5, <1>6, <1>7 DEF ListInv, Accounted, StartsAccounted, ProcessesAccounted

\* A ready reconcile lets go of entries of earlier instances only.
LEMMA ReadyList ==
    ASSUME IInv, DaemonInv, ListInv, NEW i \in Instances, ObserveReady(i)
    PROVE  ListInv'
<1>0. /\ Listed(b) /\ conn \in Nat /\ conn <= conn
      /\ \A c \in Cores(b) : c.spawn \in c.launches /\ c.inst \in 1..conn
  BY RecordListed
<1>1. UNCHANGED <<starts, procs, conn>> /\ b' = DaemonReady(b, i) /\ (ReadyInOrder => i = conn)
  BY DEF ObserveReady, DaemonInv, CarriersOk
<1>2. PICK G : G = {Core(e) : e \in Untracked(b, i)}
  OBVIOUS
<1>z. PICK z : z = {}
  OBVIOUS
<1>3. Kept(b, b', G, G, z, z)
  BY <1>0, <1>1, <1>2, <1>z, DaemonReadyKept
<1>4. ASSUME ReadyInOrder, NEW c \in G
      PROVE  c.spawn \in c.launches /\ c.launches \subseteq released'
  <2>1. PICK e \in Untracked(b, i) : c = Core(e)
    BY <1>2
  <2>2. e \in Entries(MarkProtected(b)) /\ e.inst # i /\ ~e.protected
    BY <2>1 DEF Untracked
  <2>3. c \in Cores(MarkProtected(b))
    BY <2>1, <2>2 DEF Cores
  <2>4. c \in Cores(b)
    BY <1>0, <2>3, MarkProtectedSteady DEF Steady
  <2>5. c.inst = e.inst /\ c.launches = e.launches
    BY <2>1, CoreFacts
  <2>6. e.inst < i
    BY <1>0, <1>1, <1>4, <2>2, <2>4, <2>5
  <2>7. e.launches \subseteq released'
    BY <2>2, <2>6 DEF ObserveReady
  <2> QED BY <1>0, <2>4, <2>5, <2>7
<1>5. Known' = Known /\ released \subseteq released'
  BY <1>1 DEF Known, ObserveReady
<1>6. ASSUME ReadyInOrder, NEW m \in Known' \ released'
      PROVE  \/ starts'[m].phase = "over"
             \/ (m \in Known /\ starts[m].phase # "over" /\ \A c \in G : ~Covers(c, m))
  BY <1>1, <1>4, <1>5, <1>6 DEF Covers
<1>7. ASSUME ReadyInOrder, NEW p \in Processes, Alive(p)', procs'[p].told, procs'[p].spawn \notin released'
      PROVE  /\ Alive(p) /\ procs[p].told
             /\ procs'[p].spawn = procs[p].spawn /\ procs'[p].inst = procs[p].inst
             /\ \A c \in G : ~Traces(c, procs[p].spawn, procs[p].inst, p)
  <2>1. Alive(p) /\ procs' = procs
    BY <1>1, <1>7 DEF Alive
  <2> QED BY <1>4, <1>7, <2>1 DEF Traces
<1>8. /\ \A p \in Processes : procs[p].state = "dead" => procs'[p].state = "dead"
      /\ ReadyInOrder => \A c \in G : c.spawn \in released'
  BY <1>1, <1>4
<1>9. conn' \in Nat /\ conn <= conn'
  BY <1>0, <1>1
<1> QED BY <1>z, <1>0, <1>3, <1>5, <1>6, <1>7, <1>8, <1>9, ListKept

\* A claim lists the start; a human claim releases every earlier one.
LEMMA ClaimList ==
    ASSUME IInv, DaemonInv, ListInv, NEW i \in Instances, NEW human \in BOOLEAN, NEW demand \in BOOLEAN,
           Claim(i, human, demand)
    PROVE  ListInv'
<1>0. /\ Listed(b) /\ conn \in Nat /\ conn <= conn /\ starts \in [Launches -> StartRecords]
      /\ \A c \in Cores(b) : c.spawn \in Known
  BY RecordListed
<1>1. PICK l \in Launches : l = Cardinality(Known) + 1
  BY DEF Claim
<1>2. l \notin Known /\ l \in Nat /\ l # 0
  BY <1>1, BreakerAssumption, NextLaunch, ProcsTyped DEF IInv
<1>3. PICK x : x = [phase |-> "claimed", human |-> human, on |-> 0,
                    epoch |-> Claimed(b, l, i, human, demand).epoch, undo |-> "no",
                    token |-> TokenOf(b, l, human)]
  OBVIOUS
<1>4. /\ starts' = [starts EXCEPT ![l] = x] /\ x.phase = "claimed" /\ i \in 1..conn /\ i \in Nat
      /\ b' = Claimed(b, l, i, human, demand)
      /\ UNCHANGED <<conn, procs>> /\ released' = IF human THEN released \cup Known ELSE released
  BY <1>0, <1>1, <1>3 DEF Claim, daemon
<1>5. \A m \in Launches : starts'[m] = IF m = l THEN x ELSE starts[m]
  BY <1>0, <1>4
<1>6. Known' = Known \cup {l}
  BY <1>4, <1>5 DEF Known
<1>7. \A c \in Cores(b) : c.spawn # l
  BY <1>0, <1>2
<1>p. PICK s : s = b'
  OBVIOUS
<1>q. PICK t : t = b
  OBVIOUS
<1>r. Listed(t) /\ (\A c \in Cores(t) : c.spawn # l) /\ s = Claimed(t, l, i, human, demand)
  BY <1>0, <1>4, <1>7, <1>p, <1>q
<1>t. l \in Nat /\ i \in Nat
  BY <1>2, <1>4
<1>8. /\ ~human => Kept(b, s, {}, {}, {<<l, i>>}, {})
      /\ human => TakenOver(b, s, l, i)
      /\ Awaits(s, l)
  BY <1>q, <1>r, <1>t, ClaimedKept
<1>9. \A p \in Processes : Alive(p)' <=> Alive(p)
  BY <1>4 DEF Alive
<1>10. CASE ~human
  <2>1. PICK z, N : z = {} /\ N = {<<l, i>>}
    OBVIOUS
  <2>2. Kept(b, b', z, z, N, z)
    BY <1>8, <1>10, <1>p, <2>1
  <2>3. \A m, j : <<m, j>> \in N => m \in Known' /\ j \in 1..conn'
    BY <1>4, <1>6, <2>1
  <2>4. ASSUME NEW m \in Known' \ released'
        PROVE  \/ b'.overflow \/ \E d \in Cores(b') : Covers(d, m)
               \/ starts'[m].phase = "over"
               \/ (m \in Known /\ starts[m].phase # "over" /\ \A c \in z : ~Covers(c, m))
    <3>1. CASE m = l
      BY <1>8, <1>p, <3>1 DEF Awaits, Covers
    <3>2. CASE m # l
      <4>1. m \in Known /\ m \in Launches /\ starts'[m] = starts[m]
        BY <1>5, <1>6, <3>2 DEF Known
      <4> QED BY <2>1, <4>1
    <3> QED BY <3>1, <3>2
  <2>5. released \subseteq released' /\ Known \subseteq Known' /\ conn' \in Nat /\ conn <= conn'
    BY <1>0, <1>4, <1>6, <1>10
  <2>6. \A p \in Processes : Alive(p)' /\ procs'[p].told /\ procs'[p].spawn \notin released' =>
          /\ Alive(p) /\ procs[p].told
          /\ procs'[p].spawn = procs[p].spawn /\ procs'[p].inst = procs[p].inst
          /\ \A c \in z : ~Traces(c, procs[p].spawn, procs[p].inst, p)
    BY <1>4, <1>9, <2>1
  <2> QED BY <1>0, <1>4, <2>1, <2>2, <2>3, <2>4, <2>5, <2>6, ListKept
<1>11. CASE human
  <2>1. released' = released \cup Known
    BY <1>4, <1>11
  <2>2. \A d \in Cores(s) : d.spawn \in d.launches /\ d.inst \in 1..conn' /\ d.spawn \in Known'
    BY <1>4, <1>6, <1>8, <1>11 DEF TakenOver
  <2>3. \A j \in Nat, p \in Processes : <<j, p>> \in s.exits => procs'[p].state = "dead"
    BY <1>4, <1>8, <1>11 DEF TakenOver, ListInv, ListOk
  <2>4. ReadyInOrder => \A a \in s.acknowledged : a.spawn \in released'
    BY <1>0, <1>8, <1>11, <2>1 DEF TakenOver, ListInv, Accounted
  <2>5. ListOk'
    BY <1>8, <1>11, <1>p, <2>2, <2>3 DEF TakenOver, ListOk
  <2>6. StartsAccounted'
    BY <1>6, <1>8, <1>p, <2>1 DEF Awaits, StartsAccounted, Covers
  <2>7. \A p \in Processes : Alive(p)' => procs'[p].spawn \in released'
    <3>1. \A p \in Processes : Alive(p)' => Alive(p) /\ Spent(procs[p].spawn)
      BY <1>9, CarrierFacts DEF IInv, DaemonInv
    <3>2. \A m : Spent(m) => m \in Known
      BY DEF Spent, Known
    <3> QED BY <1>4, <2>1, <3>1, <3>2
  <2>8. ProcessesAccounted'
    BY <2>7 DEF ProcessesAccounted
  <2> QED BY <1>p, <2>4, <2>5, <2>6, <2>8 DEF ListInv, Accounted
<1> QED BY <1>10, <1>11

\* The entries a frame may end: pending ones of starts it speaks of, and those
\* of a process that exited.
Ends(f, c) ==
    \/ c.proc = 0 /\ Mentions(f, c.spawn)
    \/ f.kind = "process_exited" /\ c.inst = f.inst /\ c.proc = f.proc

\* What a frame that applies makes of the entries of r.
Obeys(f, r, t) ==
    \E G, z, N, X :
        /\ z = {} /\ Kept(r, t, G, z, N, X) /\ \A c \in G : c \in CoreRecords /\ Ends(f, c)
        /\ \A l, i : <<l, i>> \in N => f.kind = "process_spawned" /\ l = f.launch /\ i = f.inst
        /\ \A i, p : <<i, p>> \in X => f.kind = "process_exited" /\ p = f.proc
        /\ f.kind = "process_spawned" => Answers(r, t, f.launches, f.launch, f.inst, f.proc)

\* What a frame that applies does to the entries.
LEMMA TransitionKept ==
    ASSUME NEW r, Listed(r), Shaped(r), Probing(r), NEW f \in Frames, f.inst \in Nat, NEW same, NEW echo,
           f.kind = "process_spawned" => f.launch \in f.launches,
           NEW t, t = Transition(r, f, same, echo)
    PROVE  Obeys(f, r, t)
<1>z. PICK z : z = {}
  OBVIOUS
<1>p. (\A l \in Launches : l \in Nat) /\ \A p \in Processes : p \in Nat /\ p # 0
  BY BreakerAssumption DEF Launches, Processes
<1>1. CASE f.kind \in {"terminal_failure", "turn_completed"}
  <2>1. Steady(r, t)
    <3>1. CASE f.kind = "terminal_failure"
      BY <3>1, TerminalFailureSteady DEF Transition
    <3>2. CASE f.kind = "turn_completed"
      <4>1. Steady(r, r)
        BY RestsSteady DEF Rests
      <4> QED BY <3>2, <4>1, TurnCompletedSteady DEF Transition
    <3> QED BY <1>1, <3>1, <3>2
  <2>2. Kept(r, t, z, z, z, z)
    BY <2>1, SteadyKept
  <2> QED BY <1>1, <1>z, <2>2 DEF Obeys
<1>2. CASE f.kind \in {"start_rebound", "start_not_spawned"}
  <2>1. PICK G, ls : ls = {f.launch} /\ G = PendingCores(ls, f.inst)
    OBVIOUS
  <2>0. f.launch \in Nat
    BY <1>2, <1>p DEF Frames
  <2>2. Kept(r, t, G, z, z, z)
    <3>1. CASE f.kind = "start_rebound"
      <4>1. f.proc \in Nat /\ f.proc # 0
        BY <3>1, <1>p DEF Frames
      <4>2. t = StartRebound(r, f.launch, f.inst, f.proc)
        BY <3>1 DEF Transition
      <4> QED BY <1>z, <2>0, <2>1, <4>1, <4>2, StartReboundKept
    <3>2. CASE f.kind = "start_not_spawned"
      <4>2. t = StartRejected(r, f.launch, f.inst, f.reason)
        BY <3>2 DEF Transition
      <4> QED BY <1>z, <2>0, <2>1, <4>2, StartRejectedKept
    <3> QED BY <1>2, <3>1, <3>2
  <2>3. \A c \in G : c \in CoreRecords /\ Ends(f, c)
    BY <1>2, <2>1 DEF PendingCores, Ends, Mentions
  <2> QED BY <1>2, <1>z, <2>2, <2>3 DEF Obeys
<1>3. CASE f.kind = "process_exited"
  <2>1. PICK ls, X : ls = {f.spawn} /\ X = {<<f.inst, f.proc>>}
    OBVIOUS
  <2>2. PICK G : G = IdentifiedCores(f.inst, f.proc) \cup PendingCores(ls, f.inst)
    OBVIOUS
  <2>3. t = ProcessExited(r, f.spawn, f.launch, f.inst, f.proc)
    BY <1>3 DEF Transition
  <2>4. Kept(r, t, G, z, z, X)
    BY <1>z, <2>1, <2>2, <2>3, ProcessExitedKept
  <2>5. \A c \in G : c \in CoreRecords /\ Ends(f, c)
    BY <1>3, <2>1, <2>2 DEF PendingCores, IdentifiedCores, Ends, Mentions
  <2>6. \A i, p : <<i, p>> \in X => p = f.proc
    BY <2>1
  <2> QED BY <1>3, <1>z, <2>4, <2>5, <2>6 DEF Obeys
<1>4. CASE f.kind = "process_spawned"
  <2>0. f.launches \in SUBSET Nat /\ f.launch \in f.launches /\ f.proc \in Nat /\ f.proc # 0
    BY <1>4, <1>p DEF Frames
  <2>1. PICK N, G : N = {<<f.launch, f.inst>>} /\ G = PendingCores(f.launches, f.inst)
    OBVIOUS
  <2>2. t = ProcessSpawned(r, f.launch, f.launches, f.inst, f.proc, f.respawn)
    BY <1>4 DEF Transition
  <2>i. f.inst \in Nat
    OBVIOUS
  <2>3. Kept(r, t, G, z, N, z) /\ Answers(r, t, f.launches, f.launch, f.inst, f.proc)
    BY <2>i, <1>z, <2>0, <2>1, <2>2, ProcessSpawnedKept
  <2>4. \A c \in G : c \in CoreRecords /\ Ends(f, c)
    BY <1>4, <2>1 DEF PendingCores, Ends, Mentions
  <2>5. \A l, i : <<l, i>> \in N => l = f.launch /\ i = f.inst
    BY <2>1
  <2> QED BY <1>4, <1>z, <2>3, <2>4, <2>5 DEF Obeys
<1> QED BY <1>1, <1>2, <1>3, <1>4 DEF Frames

\* A delivery: what the frame ends is over, exited, or its own process.
LEMMA DeliverList ==
    ASSUME IInv, DaemonInv, ListInv, NEW same \in BOOLEAN, NEW echo \in BOOLEAN, NEW acked \in BOOLEAN,
           Deliver(same, echo, acked)
    PROVE  ListInv'
<1>0. /\ Shaped(b) /\ Probing(b) /\ Listed(b) /\ Steady(b, b) /\ conn \in Nat /\ conn <= conn
      /\ outbox \in Seq(Frames) /\ outbox # <<>> /\ conn = inst
      /\ UNCHANGED <<conn, starts, released>>
  BY RecordListed DEF IInv, Typed, Deliver, daemon
<1>f. PICK f : f = Head(outbox)
  OBVIOUS
<1>1. f \in Frames /\ FrameOk(f)
  <2>1. f = outbox[1] /\ 1 \in DOMAIN outbox /\ f \in Frames
    BY <1>0, <1>f
  <2> QED BY <2>1 DEF DaemonInv, FramesOk
<1>2. \A q \in Processes : /\ Alive(q)' <=> Alive(q)
                           /\ procs'[q].state = procs[q].state
                           /\ procs'[q].spawn = procs[q].spawn /\ procs'[q].inst = procs[q].inst
                           /\ procs'[q].told => procs[q].told \/ (Announces(f, q) /\ Applies(b, f))
  BY <1>f, DeliverDaemon
<1>t. PICK t : t = IF b.judged THEN b
                   ELSE IF Applies(b, f) THEN Transition(b, f, same, echo) ELSE EvidenceLost(b)
  OBVIOUS
<1>3. Listed(t) => Rests(t, b')
  <2>1. PICK m : m = t.marked \cup {f.inst}
    OBVIOUS
  <2>2. PICK u : u = IF b.judged THEN t ELSE [t EXCEPT !.marked = m, !.judged = TRUE]
    OBVIOUS
  <2>3. b' = [u EXCEPT !.judged = ~acked]
    BY <1>f, <1>t, <2>1, <2>2 DEF Deliver, Judged
  <2>4. Listed(t) => Rests(t, u)
    BY <2>2 DEF Listed, Rests
  <2>5. Listed(t) => Rests(u, b')
    BY <2>3, <2>4 DEF Listed, Rests
  <2> QED BY <2>4, <2>5, RestsTransitive
<1>4. CASE ~Applies(b, f)
  <2>1. Steady(b, t) /\ Listed(t)
    BY <1>0, <1>4, <1>t, EvidenceLostSteady DEF Steady
  <2>2. Steady(b, b')
    BY <1>3, <2>1, RestsFinish
  <2> QED BY <1>0, <1>2, <1>4, <2>2, SteadyList
<1>5. CASE Applies(b, f)
  <2>1. t = Transition(b, f, same, echo)
    BY <1>5, <1>t DEF Applies
  <2>2. f.inst \in 1..inst /\ f.inst \in Nat
    BY <1>1, <1>0 DEF FrameOk
  <2>3. f.kind = "process_spawned" => f.launch \in f.launches
    BY <1>1 DEF FrameOk
  <2>4. PICK G, z, N, X :
          /\ z = {} /\ Kept(b, t, G, z, N, X) /\ \A c \in G : c \in CoreRecords /\ Ends(f, c)
          /\ \A l, i : <<l, i>> \in N => f.kind = "process_spawned" /\ l = f.launch /\ i = f.inst
          /\ \A i, p : <<i, p>> \in X => f.kind = "process_exited" /\ p = f.proc
          /\ f.kind = "process_spawned" => Answers(b, t, f.launches, f.launch, f.inst, f.proc)
    <3>1. Obeys(f, b, t)
      BY <1>0, <1>1, <2>1, <2>2, <2>3, TransitionKept
    <3> QED BY <3>1 DEF Obeys
  <2>5. Steady(t, b')
    BY <1>3, <2>4, RestsSteady DEF Kept
  <2>6. Kept(b, b', G, z, N, X)
    BY <1>0, <2>4, <2>5, KeptSteady
  <2>7. Cores(b') = Cores(t) /\ b'.overflow = t.overflow
    BY <2>5 DEF Steady
  <2>8. \A l, i : <<l, i>> \in N => l \in Known' /\ i \in 1..conn'
    <3>1. ASSUME f.kind = "process_spawned"
          PROVE  f.launch \in Known' /\ f.inst \in 1..conn'
      <4>1. f.launch \in Nat /\ Mentions(f, f.launch)
        BY <1>1, <2>3, <3>1, ProcsTyped DEF Frames, Mentions, IInv
      <4>2. Spent(f.launch)
        BY <1>1, <4>1 DEF FrameOk
      <4> QED BY <1>0, <2>2, <4>2 DEF Spent, Known
    <3> QED BY <2>4, <3>1
  <2>9. \A i \in Nat, p \in Processes : <<i, p>> \in X => procs'[p].state = "dead"
    BY <1>1, <1>2, <2>4 DEF FrameOk
  <2>10. Known' = Known
    BY <1>0 DEF Known
  <2>11. f.kind = "process_exited" => f.proc \in Processes /\ f.proc # 0 /\ procs[f.proc].state = "dead"
    <3>1. f.kind = "process_exited" => f.proc \in Processes
      BY <1>1 DEF Frames
    <3> QED BY <1>1, <3>1, ProcsTyped DEF FrameOk, IInv
  <2>12. ASSUME NEW l \in Known' \ released'
         PROVE  \/ starts'[l].phase = "over"
                \/ (l \in Known /\ starts[l].phase # "over" /\ \A c \in G : ~Covers(c, l))
    <3>1. ASSUME NEW c \in G, Covers(c, l)
          PROVE  starts'[l].phase = "over"
      <4>1. Mentions(f, l) /\ l \in Nat
        BY <2>4, <2>10, <2>11, <3>1, ProcsTyped DEF Ends, Covers, Known, IInv
      <4>2. Spent(l)
        BY <1>1, <4>1 DEF FrameOk
      <4> QED BY <1>0, <4>2 DEF Spent
    <3> QED BY <1>0, <2>10, <3>1
  <2>13. ASSUME ReadyInOrder, NEW p \in Processes, Alive(p)', procs'[p].told, procs'[p].spawn \notin released'
         PROVE  \/ b'.overflow \/ \E d \in Cores(b') : Traces(d, procs'[p].spawn, procs'[p].inst, p)
                \/ /\ Alive(p) /\ procs[p].told
                   /\ procs'[p].spawn = procs[p].spawn /\ procs'[p].inst = procs[p].inst
                   /\ \A c \in G : ~Traces(c, procs[p].spawn, procs[p].inst, p)
    <3>1. /\ Alive(p) /\ procs'[p].spawn = procs[p].spawn /\ procs'[p].inst = procs[p].inst
          /\ procs[p].spawn \notin released /\ p \in Nat /\ p # 0 /\ procs[p].state = "alive"
      BY <1>0, <1>2, <2>13, ProcsTyped DEF Alive, IInv
    <3>2. CASE ~Announces(f, p)
      <4>1. procs[p].told
        BY <1>2, <2>13, <3>2
      <4>2. ~Mentions(f, procs[p].spawn)
        BY <1>1, <3>1, <3>2, <4>1 DEF FrameOk
      <4>3. ASSUME NEW c \in G, Traces(c, procs[p].spawn, procs[p].inst, p)
            PROVE  FALSE
        <5>1. CASE c.proc = 0 /\ Mentions(f, c.spawn)
          BY <3>1, <4>2, <4>3, <5>1 DEF Traces, Covers
        <5>2. CASE f.kind = "process_exited" /\ c.inst = f.inst /\ c.proc = f.proc
          BY <2>11, <3>1, <4>3, <5>2 DEF Traces, Covers
        <5> QED BY <2>4, <5>1, <5>2 DEF Ends
      <4> QED BY <3>1, <4>1, <4>3
    <3>3. CASE Announces(f, p)
      <4>1. /\ f.kind = "process_spawned" /\ f.proc = p /\ procs[p].spawn = f.launch /\ procs[p].inst = f.inst
            /\ ~procs[p].told => f.launches = {f.launch}
        BY <1>1, <3>1, <3>3 DEF FrameOk, Announces
      <4>2. CASE <<f.inst, f.proc>> \in b.exits
        BY <2>2, <3>1, <4>1, <4>2 DEF ListInv, ListOk
      <4>3. CASE Noted(t, f.launch, f.inst, f.proc)
        BY <2>7, <3>1, <4>1, <4>3 DEF Noted, Traces
      <4>4. CASE Cores(t) = Cores(b) /\ \E a \in b.acknowledged : a.spawn \in f.launches
        <5>1. procs[p].told
          BY <2>13, <3>1, <4>1, <4>4 DEF ListInv, Accounted
        <5>2. b.overflow \/ \E c \in Cores(b) : Traces(c, procs[p].spawn, procs[p].inst, p)
          BY <2>13, <3>1, <5>1 DEF ListInv, Accounted, ProcessesAccounted
        <5>3. b.overflow => t.overflow
          BY <2>4 DEF Kept
        <5> QED BY <2>7, <3>1, <4>4, <5>2, <5>3
      <4> QED BY <2>4, <4>1, <4>2, <4>3, <4>4 DEF Answers
    <3> QED BY <3>2, <3>3
  <2>14. \A p \in Processes : procs[p].state = "dead" => procs'[p].state = "dead"
    BY <1>2
  <2>15. \A c \in z : c.spawn \in released'
    BY <2>4
  <2> QED BY <1>0, <2>6, <2>8, <2>9, <2>10, <2>12, <2>13, <2>14, <2>15, ListKept
<1> QED BY <1>4, <1>5

\* The list's side of the invariant holds initially and in every step.
LEMMA InitList == Init => ListInv
<1> SUFFICES ASSUME Init PROVE ListInv
  OBVIOUS
<1>1. b = FreshRecord /\ b.unexited = <<>> /\ b.exits = {} /\ b.acknowledged = {} /\ DOMAIN b = DOMAIN FreshRecord
  BY DEF Init, FreshRecord
<1>2. {"unexited", "overflow", "exits", "acknowledged"} \subseteq DOMAIN b
  BY <1>1 DEF FreshRecord
<1>3. b.unexited \in Seq(EntryRecords) /\ Len(b.unexited) = 0 /\ DOMAIN b.unexited = {}
  BY <1>1
<1>4. Listed(b)
  BY <1>1, <1>2, <1>3, BreakerAssumption DEF Listed
<1>5. Cores(b) = {}
  BY <1>3, <1>4, EntriesListed DEF Cores
<1>6. Known = {} /\ \A p \in Processes : ~Alive(p)
  BY DEF Init, Known, Alive, NoStart, NoProcess
<1> QED BY <1>1, <1>4, <1>5, <1>6 DEF ListInv, ListOk, Accounted, StartsAccounted, ProcessesAccounted

\* Every step keeps it.
LEMMA NextList ==
    ASSUME IInv, DaemonInv, ListInv, [Next]_vars
    PROVE  ListInv'
<1>1. CASE UNCHANGED vars
  BY <1>1, RecordLists
<1>2. CASE Next
  <2>1. CASE \/ \E message, demand \in BOOLEAN : WakeRefused(message, demand)
             \/ \E epoch \in 0..MaxLaunch, acked \in BOOLEAN : DeliverMarker(epoch, acked)
             \/ Lift \/ ManualStop \/ LeaseRunsOut \/ BackoffPasses
    BY <2>1, RecordLists
  <2>2. CASE \/ \E l \in Launches, superseded \in SUBSET Launches, p \in Processes : Spawn(l, superseded, p)
             \/ \E l \in Launches, p \in Processes : Rebind(l, p)
             \/ \E l \in Launches, reason \in {"spawn_error", "stale_dispatch", "other"} : RefuseStart(l, reason)
             \/ \E l \in Launches, p \in Processes : Respawn(l, p)
             \/ \E p \in Processes, kind \in {"terminal_failure", "turn_completed"} : EndTurn(p, kind)
             \/ \E p \in Processes : Exit(p)
             \/ \E k \in 1..MaxFrames : FoldFrame(k)
             \/ Restart \/ Connect
    BY <2>2, DaemonLists
  <2> QED BY <1>2, <2>1, <2>2, ClaimList, DispatchList, RollbackList, ReadyList, DeliverList,
             UnreadableList DEF Next
<1> QED BY <1>1, <1>2

\* What the gate lets through, nothing on record blocks.
LEMMA NothingUnknown ==
    ASSUME ReadyInOrder, IInv, ListInv
    PROVE  NoUnknownStart
<1>0. Listed(b)
  BY RecordListed
<1>1. PICK r : r = Normalize(b)
  OBVIOUS
<1>2. Listed(r) /\ Cores(r) = Cores(b) /\ r.overflow = b.overflow
  BY <1>0, <1>1, NormalizeSteady DEF Steady
<1>3. SUFFICES ASSUME Refusal(r).refusal = "none"
      PROVE  /\ \A l \in Known \ released : starts[l].phase = "over"
             /\ \A p \in Processes :
                  procs[p].state = "alive" /\ procs[p].told /\ procs[p].spawn \notin released
                  => \E e \in Entries(b) : e.inst = procs[p].inst /\ e.proc = p /\ ConfirmedLive(r, e)
  BY <1>1 DEF NoUnknownStart
<1>4. ~r.overflow /\ Blocking(r) = {}
  BY <1>3 DEF Refusal
<1>5. \A c \in Cores(r) : c.proc # 0 /\ \E e \in Entries(r) : c = Core(e) /\ ConfirmedLive(r, e)
  BY <1>4, CoreFacts DEF Cores, Blocking, ConfirmedLive
<1>6. ASSUME NEW l \in Known \ released
      PROVE  starts[l].phase = "over"
  BY <1>2, <1>4, <1>5 DEF ListInv, Accounted, StartsAccounted, Covers
<1>7. ASSUME NEW p \in Processes, procs[p].state = "alive", procs[p].told, procs[p].spawn \notin released
      PROVE  \E e \in Entries(b) : e.inst = procs[p].inst /\ e.proc = p /\ ConfirmedLive(r, e)
  <2>1. PICK c \in Cores(b) : Traces(c, procs[p].spawn, procs[p].inst, p)
    BY <1>2, <1>4, <1>7 DEF ListInv, Accounted, ProcessesAccounted, Alive
  <2>2. c.inst = procs[p].inst /\ c.proc = p
    BY <1>2, <1>5, <2>1 DEF Traces, Covers
  <2>3. PICK x \in Entries(r) : c = Core(x) /\ ConfirmedLive(r, x)
    BY <1>2, <1>5
  <2>4. PICK e \in Entries(b) : c = Core(e)
    BY DEF Cores
  <2>5. e.inst = c.inst /\ e.proc = c.proc /\ e.launches = c.launches /\ x.proc = c.proc /\ x.launches = c.launches
    BY <2>3, <2>4, CoreFacts
  <2>6. ConfirmedLive(r, e)
    BY <2>3, <2>5 DEF ConfirmedLive
  <2> QED BY <2>2, <2>5, <2>6
<1> QED BY <1>6, <1>7

\* When the gate lets a start through, no earlier start is undecided and every
\* running process the server was told of is the confirmed one, for any number
\* of launches, instances, processes, faults, queued and listed entries, as
\* long as the reconcile of a ready never outlives its connection.
THEOREM NoStartUnknown == ReadyInOrder => (Spec => []NoUnknownStart)
<1> SUFFICES ASSUME ReadyInOrder PROVE Spec => []NoUnknownStart
  OBVIOUS
<1>1. Init => IInv /\ DaemonInv /\ ListInv
  BY InitIInv, InitDaemon, InitList
<1>2. IInv /\ DaemonInv /\ ListInv /\ [Next]_vars => (IInv /\ DaemonInv /\ ListInv)'
  BY NextIInv, NextDaemon, NextList
<1>3. IInv /\ DaemonInv /\ ListInv => NoUnknownStart
  BY NothingUnknown
<1> QED BY <1>1, <1>2, <1>3, PTL DEF Spec

-----------------------------------------------------------------------------
(* What is counted. *)

\* A launch whose failure was not reported.
Unfailed(x) == x.id # 0 /\ x.terminal # "e1"

\* The counts of a record, and its two launches.
Tallied(r) ==
    /\ r.total \in Nat /\ r.same \in 0..r.total
    /\ r.blocked \in BOOLEAN /\ (r.circuit = "closed" => ~r.blocked)
    /\ r.gen # 0
    /\ r.cur.id = r.last.id => r.cur.id = 0

\* Two launches are those of r, each at most once, and no failure is undone.
Within(x, y, r) ==
    /\ x.id \in {0, r.cur.id, r.last.id} /\ y.id \in {0, r.cur.id, r.last.id}
    /\ x.id = y.id => x.id = 0
    /\ \A z \in {x, y} : Unfailed(z) => \E w \in {r.cur, r.last} : w.id = z.id /\ Unfailed(w)

\* A transition keeps the counts, or counts the failure of the current launch.
Tallies(r, s) ==
    /\ Tallied(s) /\ Within(s.cur, s.last, r)
    /\ s.demand.claimed \in {r.demand.claimed, 0, -1}
    /\ \/ s.total <= r.total
       \/ /\ s.total = r.total + 1 /\ Unfailed(r.cur)
          /\ \A z \in {s.cur, s.last} : z.id = r.cur.id => ~Unfailed(z)

\* Everything the counts are about is the same.
Level(r, s) ==
    /\ s.circuit = r.circuit /\ s.gen = r.gen /\ s.cur = r.cur /\ s.last = r.last
    /\ s.demand = r.demand /\ s.total = r.total /\ s.same = r.same /\ s.blocked = r.blocked

\* A level record keeps the counts, and what was counted before.
LEMMA LevelTallies ==
    ASSUME NEW r, Tallied(r), NEW s, Level(r, s)
    PROVE  Tallies(r, s) /\ s.total <= r.total
BY DEF Tallied, Level, Tallies, Within

\* A level record after another transition.
LEMMA TalliesLevel ==
    ASSUME NEW r, NEW s, NEW t, Tallies(r, s), Level(s, t)
    PROVE  Tallies(r, t)
BY DEF Tallies, Level, Tallied

\* Level steps compose.
LEMMA LevelTransitive ==
    ASSUME NEW r, NEW s, NEW t, Level(r, s), Level(s, t)
    PROVE  Level(r, t)
BY DEF Level

\* Transitions that count nothing compose.
LEMMA TalliesTransitive ==
    ASSUME NEW r, NEW s, NEW t, Tallied(r), Tallies(r, s), Tallies(s, t), s.total <= r.total, t.total <= s.total
    PROVE  Tallies(r, t) /\ t.total <= r.total
<1>1. Tallied(t) /\ Within(t.cur, t.last, s) /\ Within(s.cur, s.last, r)
  BY DEF Tallies
<1>2. Within(t.cur, t.last, r)
  BY <1>1 DEF Within
<1>3. t.total <= r.total
  BY DEF Tallies, Tallied
<1> QED BY <1>1, <1>2, <1>3 DEF Tallies

\* Settling and protecting leave the counts alone.
LEMMA FinishLevel ==
    ASSUME NEW r, Shaped(r)
    PROVE  Level(r, MarkProtected(r)) /\ Level(r, Finish(r))
<1>1. \A s : Shaped(s) => Level(s, MarkProtected(s))
  BY DEF MarkProtected, Shaped, Level
<1>2. Shaped(SettleManual(r)) /\ Level(r, SettleManual(r))
  BY SettleManualFacts DEF SettleManual, Shaped, Level
<1> QED BY <1>1, <1>2, LevelTransitive DEF Finish

\* So a settled record tallies as the unsettled one does.
LEMMA FinishTallies ==
    ASSUME NEW r, NEW s, Shaped(s), Tallies(r, s)
    PROVE  Tallies(r, Finish(s)) /\ Finish(s).total = s.total
BY FinishLevel, TalliesLevel DEF Level

\* A lapse moves the probe behind an open circuit.
LEMMA LapseTallies ==
    ASSUME NEW r, Shaped(r), Tallied(r)
    PROVE  /\ Tallies(r, Lapse(r)) /\ Lapse(r).total = r.total /\ Lapse(r).same = r.same
           /\ Lapse(r).demand = r.demand
           /\ Lapse(r) = r \/ Lapse(r).circuit = "open"
<1> DEFINE t == [r EXCEPT !.circuit = "open", !.blocked = TRUE, !.last = r.cur, !.cur = NoLaunch]
<1>1. /\ Shaped(t) /\ t.circuit = "open" /\ t.last = r.cur /\ t.cur = NoLaunch /\ t.gen = r.gen
      /\ t.total = r.total /\ t.same = r.same /\ t.blocked = TRUE /\ t.demand = r.demand
  BY NoneTyped DEF Shaped
<1> HIDE DEF t
<1>2. Tallies(r, t)
  <2>1. Tallied(t)
    BY <1>1, NoneTyped DEF Tallied
  <2>2. \A z \in {t.cur, t.last} : Unfailed(z) => z = r.cur
    BY <1>1, NoneTyped DEF Unfailed
  <2>3. Within(t.cur, t.last, r)
    BY <1>1, <2>2, NoneTyped DEF Within
  <2> QED BY <1>1, <2>1, <2>3 DEF Tallies, Tallied
<1>3. Level(t, MarkProtected(t))
  BY <1>1, FinishLevel
<1>4. Lapse(r) = r \/ Lapse(r) = MarkProtected(t)
  BY DEF Lapse, t
<1>5. Tallies(r, r)
  BY LevelTallies DEF Level
<1> QED BY <1>1, <1>2, <1>3, <1>4, <1>5, TalliesLevel DEF Level

\* Dropping, pushing and identifying entries leave the counts alone.
LEMMA EntriesLevel ==
    ASSUME NEW r, Shaped(r)
    PROVE  /\ \A es : Shaped(Dropping(r, es)) /\ Level(r, Dropping(r, es))
           /\ \A e : Shaped(Push(r, e)) /\ Level(r, Push(r, e))
           /\ \A e, p, ls : Shaped(Identify(r, e, p, ls)) /\ Level(r, Identify(r, e, p, ls))
<1>1. ASSUME NEW es PROVE Shaped(Dropping(r, es)) /\ Level(r, Dropping(r, es))
  <2>1. PICK u : u = Others(r.unexited, es)
    OBVIOUS
  <2>2. Dropping(r, es) = [r EXCEPT !.unexited = u]
    BY <2>1 DEF Dropping
  <2> QED BY <2>2 DEF Shaped, Level
<1>2. ASSUME NEW e PROVE Shaped(Push(r, e)) /\ Level(r, Push(r, e))
  <2>1. PICK u, v : u = Append(r.unexited, e) /\ v = Tail(u)
    OBVIOUS
  <2>2. Push(r, e) \in {[r EXCEPT !.unexited = u], [r EXCEPT !.unexited = v, !.overflow = TRUE]}
    BY <2>1 DEF Push
  <2> QED BY ZenonT(90), <2>2 DEF Shaped, Level
<1>3. ASSUME NEW e, NEW p, NEW ls
      PROVE  Shaped(Identify(r, e, p, ls)) /\ Level(r, Identify(r, e, p, ls))
  <2>1. PICK u : u = Identify(r, e, p, ls).unexited
    OBVIOUS
  <2>2. Identify(r, e, p, ls) = [r EXCEPT !.unexited = u]
    BY <2>1 DEF Identify, Shaped
  <2> QED BY <2>2 DEF Shaped, Level
<1> QED BY <1>1, <1>2, <1>3

\* Raising the obligation leaves the counts alone.
LEMMA RaiseLevel ==
    ASSUME NEW r, Shaped(r), NEW origin
    PROVE  Shaped(RaiseOwed(r, origin)) /\ Level(r, RaiseOwed(r, origin))
<1>1. PICK o : o = IF origin = "failure" \/ r.owed = "none" THEN origin ELSE r.owed
  OBVIOUS
<1>2. RaiseOwed(r, origin) = [r EXCEPT !.owed = o]
  BY <1>1 DEF RaiseOwed
<1> QED BY <1>2 DEF Shaped, Level

\* A terminal failure counts the current launch, and no launch twice.
LEMMA TerminalFailureTallies ==
    ASSUME NEW r0, Shaped(r0), Probing(r0), Tallied(r0), NEW l \in Launches, NEW same
    PROVE  Tallies(r0, TerminalFailure(r0, l, same))
<1>1. PICK r : r = Lapse(r0)
  OBVIOUS
<1>2. /\ Shaped(r) /\ Tallied(r) /\ Tallies(r0, r) /\ r.total = r0.total
      /\ r = r0 \/ r.circuit = "open"
  BY <1>1, LapseEvolves, LapseTallies DEF Evolves, Tallies
<1>3. PICK run : run = IF same THEN r.same + 1 ELSE 1
  OBVIOUS
<1>4. /\ run \in 0..(r.total + 1) /\ r.total + 1 \in Nat /\ l # 0
      /\ r.circuit \in {"closed", "open", "half_open"}
      /\ r.cur \in LaunchRecords /\ r.last \in LaunchRecords /\ r.blocked \in BOOLEAN
  BY <1>2, <1>3, BreakerAssumption DEF Tallied, Shaped, Launches
<1>n. PICK n : n = r.total + 1
  OBVIOUS
<1>5. PICK counted, late, half, opened, x, y :
        /\ counted = [r EXCEPT !.cur.terminal = "e1", !.same = run, !.total = @ + 1]
        /\ late = [r EXCEPT !.last.terminal = "e1"]
        /\ x = [counted EXCEPT !.circuit = "open", !.blocked = TRUE, !.cur.lease = "none"]
        /\ y = [counted EXCEPT !.circuit = "open", !.blocked = TRUE]
        /\ half = RaiseOwed(x, "failure") /\ opened = RaiseOwed(y, "failure")
  OBVIOUS
<1>6. \/ TerminalFailure(r0, l, same) = r0
      \/ r.circuit = "open" /\ TerminalFailure(r0, l, same) = Finish(late)
      \/ /\ r.circuit # "open" /\ Binds(r, r.cur, l)
         /\ \/ TerminalFailure(r0, l, same) \in {Finish(half), Finish(opened)}
            \/ r.circuit = "closed" /\ TerminalFailure(r0, l, same) = Finish(counted)
  BY <1>1, <1>3, <1>4, <1>5 DEF TerminalFailure
<1>7. Tallies(r0, r0)
  BY LevelTallies DEF Level
<1>8. r.circuit = "open" => Shaped(late) /\ Tallies(r0, late)
  <2>1. PICK v : v = [r.last EXCEPT !.terminal = "e1"]
    OBVIOUS
  <2>2. late = [r EXCEPT !.last = v] /\ v \in LaunchRecords /\ v.id = r.last.id /\ v.terminal = "e1"
    BY <1>2, <1>4, <1>5, <2>1 DEF Shaped, LaunchRecords
  <2>3. /\ Shaped(late) /\ late.circuit = r.circuit /\ late.cur = r.cur /\ late.last = v /\ late.gen = r.gen
        /\ late.total = r.total /\ late.same = r.same /\ late.blocked = r.blocked /\ late.demand = r.demand
    BY <1>2, <2>2 DEF Shaped
  <2>4. Within(late.cur, late.last, r)
    BY <1>2, <2>2, <2>3 DEF Within, Unfailed, Tallied
  <2>5. Tallies(r, late)
    BY <1>2, <2>2, <2>3, <2>4 DEF Tallies, Tallied
  <2> QED BY <1>2, <2>3, <2>5, TalliesTransitive DEF Tallied
<1>9. ASSUME r.circuit # "open", Binds(r, r.cur, l)
      PROVE  /\ Shaped(half) /\ Shaped(opened) /\ Tallies(r0, half) /\ Tallies(r0, opened)
             /\ r.circuit = "closed" => Shaped(counted) /\ Tallies(r0, counted)
  <2>1. PICK v, w : v = [r.cur EXCEPT !.terminal = "e1"] /\ w = [v EXCEPT !.lease = "none"]
    OBVIOUS
  <2>2. /\ v \in LaunchRecords /\ v.id = r.cur.id /\ v.terminal = "e1"
        /\ w \in LaunchRecords /\ w.id = r.cur.id /\ w.terminal = "e1"
    BY <1>4, <2>1 DEF LaunchRecords
  <2>3. counted = [r EXCEPT !.cur = v, !.same = run, !.total = n]
    BY <1>2, <1>5, <1>n, <2>1 DEF Shaped, LaunchRecords
  <2>4. /\ Shaped(counted) /\ counted.circuit = r.circuit /\ counted.cur = v /\ counted.last = r.last
        /\ counted.gen = r.gen /\ counted.total = n /\ counted.same = run
        /\ counted.blocked = r.blocked /\ counted.demand = r.demand
    BY <1>2, <1>4, <1>n, <2>2, <2>3 DEF Shaped
  <2>5. /\ Shaped(half) /\ half.circuit = "open" /\ half.cur = w /\ half.last = r.last
        /\ half.gen = r.gen /\ half.total = n /\ half.same = run
        /\ half.blocked = TRUE /\ half.demand = r.demand
    <3>1. x = [counted EXCEPT !.circuit = "open", !.blocked = TRUE, !.cur = w]
      BY <1>5, <2>1, <2>4 DEF Shaped, LaunchRecords
    <3>2. /\ Shaped(x) /\ x.circuit = "open" /\ x.cur = w /\ x.last = r.last /\ x.gen = r.gen
          /\ x.total = n /\ x.same = run /\ x.blocked = TRUE /\ x.demand = r.demand
      BY <2>2, <2>4, <3>1 DEF Shaped
    <3>3. half = RaiseOwed(x, "failure")
      BY <1>5
    <3> QED BY <3>2, <3>3, RaiseLevel DEF Level
  <2>6. /\ Shaped(opened) /\ opened.circuit = "open" /\ opened.cur = v /\ opened.last = r.last
        /\ opened.gen = r.gen /\ opened.total = n /\ opened.same = run
        /\ opened.blocked = TRUE /\ opened.demand = r.demand
    <3>1. /\ Shaped(y) /\ y.circuit = "open" /\ y.cur = v /\ y.last = r.last /\ y.gen = r.gen
          /\ y.total = n /\ y.same = run /\ y.blocked = TRUE /\ y.demand = r.demand
      <4>1. y = [counted EXCEPT !.circuit = "open", !.blocked = TRUE]
        BY <1>5
      <4> QED BY <2>2, <2>4, <4>1 DEF Shaped
    <3>2. opened = RaiseOwed(y, "failure")
      BY <1>5
    <3> QED BY <3>1, <3>2, RaiseLevel DEF Level
  <2>7. r = r0 /\ r.cur.id = l /\ Unfailed(r.cur) /\ r.last.id # r.cur.id
    BY <1>2, <1>4, <1>9 DEF Binds, Unfailed, Tallied
  <2>8. /\ Within(half.cur, half.last, r) /\ Within(opened.cur, opened.last, r)
        /\ Within(counted.cur, counted.last, r)
    BY <2>2, <2>4, <2>5, <2>6, <2>7 DEF Within, Unfailed
  <2>9. Tallied(half) /\ Tallied(opened) /\ (r.circuit = "closed" => Tallied(counted))
    <3>1. n \in Nat /\ run \in 0..n /\ r.gen # 0 /\ (r.circuit = "closed" => ~r.blocked)
      <4>1. n \in Nat /\ n = r.total + 1 /\ r.total \in Nat
        BY <1>2, <1>4, <1>n DEF Tallied
      <4>2. run \in 0..n
        BY <1>4, <1>n
      <4> QED BY <1>2, <4>1, <4>2 DEF Tallied
    <3> QED BY ZenonT(90), <1>4, <2>2, <2>4, <2>5, <2>6, <2>7, <3>1 DEF Tallied
  <2> QED BY <1>n, <2>2, <2>4, <2>5, <2>6, <2>7, <2>8, <2>9 DEF Tallies, Unfailed
<1> QED BY <1>6, <1>7, <1>8, <1>9, FinishTallies

\* A clean turn counts nothing and forgets what was counted.
LEMMA TurnCompletedTallies ==
    ASSUME NEW r0, Shaped(r0), Probing(r0), Tallied(r0), NEW l, NEW echo
    PROVE  Tallies(r0, TurnCompleted(r0, l, echo))
<1>1. PICK r : r = Lapse(r0)
  OBVIOUS
<1>2. Shaped(r) /\ Probing(r) /\ Tallied(r) /\ Tallies(r0, r) /\ r.total = r0.total
  BY <1>1, LapseEvolves, LapseTallies DEF Evolves, Tallies
<1>3. PICK late : late = (r.circuit = "open" /\ r.cur = NoLaunch /\ Binds(r, r.last, l))
  OBVIOUS
<1>4. PICK launch, none, t, o :
        /\ launch = [(IF late THEN r.last ELSE r.cur) EXCEPT !.lease = "none"]
        /\ none = IF late THEN NoLaunch ELSE r.last
        /\ t = CleanTurn(r, l) /\ o = IF echo THEN "none" ELSE t.owed
  OBVIOUS
<1>5. /\ Shaped(t) /\ TurnServes(r, t, l) /\ t.cur = r.cur /\ t.last = r.last
      /\ t.total = 0 /\ t.same = 0 /\ t.gen = r.gen
  BY ZenonT(90), <1>2, <1>4, NoneTyped DEF CleanTurn, Shaped, TurnServes
<1>6. r.cur \in LaunchRecords /\ r.last \in LaunchRecords
  BY <1>2 DEF Shaped
<1>7. /\ launch \in LaunchRecords /\ none \in LaunchRecords
      /\ IF late THEN launch.id = r.last.id /\ launch.terminal = r.last.terminal /\ none = NoLaunch
         ELSE launch.id = r.cur.id /\ launch.terminal = r.cur.terminal /\ none = r.last
  <2>1. CASE late
    <3>1. launch = [r.last EXCEPT !.lease = "none"] /\ none = NoLaunch
      BY <1>4, <2>1
    <3> QED BY <1>6, <2>1, <3>1, NoneTyped DEF LaunchRecords
  <2>2. CASE ~late
    <3>1. launch = [r.cur EXCEPT !.lease = "none"] /\ none = r.last
      BY <1>4, <2>2
    <3> QED BY <1>6, <2>2, <3>1 DEF LaunchRecords
  <2> QED BY <2>1, <2>2
<1>8. PICK s : s = [t EXCEPT !.cur = launch, !.last = none, !.circuit = "closed", !.blocked = FALSE, !.owed = o]
  OBVIOUS
<1>9. /\ Shaped(s) /\ s.cur = launch /\ s.last = none /\ s.circuit = "closed" /\ s.blocked = FALSE
      /\ s.total = 0 /\ s.same = 0 /\ s.gen = r.gen /\ s.demand = t.demand
  BY ZenonT(90), <1>5, <1>7, <1>8 DEF Shaped
<1>10. TurnCompleted(r0, l, echo) \in {r0, Finish(s)}
  <2>1. s = [CleanTurn(r, l) EXCEPT !.cur = launch, !.last = IF late THEN NoLaunch ELSE @,
                !.circuit = "closed", !.blocked = FALSE, !.owed = IF echo THEN "none" ELSE @]
    BY <1>4, <1>5, <1>8 DEF Shaped
  <2> QED BY <1>1, <1>3, <1>4, <2>1 DEF TurnCompleted
<1>11. Within(s.cur, s.last, r)
  BY <1>2, <1>7, <1>9, NoneTyped DEF Within, Unfailed, Tallied
<1>12. s.demand.claimed \in {r.demand.claimed, 0, -1}
  BY <1>5, <1>9, NoneTyped DEF TurnServes
<1>13. Tallies(r, s) /\ s.total <= r.total
  <2>1. Tallied(s)
    <3>1. r.gen # 0 /\ s.total \in Nat /\ s.same \in 0..s.total /\ (s.cur.id = s.last.id => s.cur.id = 0)
      BY <1>2, <1>9, <1>11 DEF Tallied, Within
    <3> QED BY <1>9, <3>1 DEF Tallied
  <2> QED BY <1>2, <1>9, <1>11, <1>12, <2>1 DEF Tallies, Tallied
<1>14. Tallies(r0, s)
  <2>1. r.total <= r0.total
    BY <1>2 DEF Tallied
  <2> QED BY <1>2, <1>13, <2>1, TalliesTransitive
<1>15. Tallies(r0, r0)
  BY LevelTallies DEF Level
<1> QED BY <1>9, <1>10, <1>14, <1>15, FinishTallies

\* A rebind touches entries only.
LEMMA StartReboundTallies ==
    ASSUME NEW r, Shaped(r), Tallied(r), NEW l, NEW i, NEW p
    PROVE  Tallies(r, StartRebound(r, l, i, p))
<1> DEFINE Quiet(s) == Shaped(s) /\ Level(r, s)
<1>1. Quiet(r)
  BY DEF Level
<1>2. \A s, es : Quiet(s) => Quiet(Dropping(s, es))
  BY EntriesLevel, LevelTransitive
<1>3. \A s, e, q, ls : Quiet(s) => Quiet(Identify(s, e, q, ls))
  BY EntriesLevel, LevelTransitive
<1> HIDE DEF Quiet
<1>4. \E s : Quiet(s) /\ StartRebound(r, l, i, p) = Finish(s)
  BY <1>1, <1>2, <1>3 DEF StartRebound
<1>5. \A s : Quiet(s) => Shaped(s) /\ Tallies(r, s)
  BY LevelTallies DEF Quiet
<1> QED BY <1>4, <1>5, FinishTallies

\* A spawn may revive the current launch of a closed circuit; a failure stays.
LEMMA ProcessSpawnedTallies ==
    ASSUME NEW r, Shaped(r), Tallied(r), NEW l, NEW ls, NEW i, NEW p, NEW respawn
    PROVE  Tallies(r, ProcessSpawned(r, l, ls, i, p, respawn))
<1> DEFINE Quiet(s) == Shaped(s) /\ Level(r, s)
           pending == PendingOf(r, ls, i)
           known == Identified(r, i, p)
           own == PendingOf(r, {l}, i)
           first == CHOOSE e \in (IF own # {} THEN own ELSE pending) : TRUE
           taken == {a \in r.acknowledged : a.spawn \in ls /\ a.inst = i /\ a.proc = 0}
           named(s) == [s EXCEPT !.acknowledged = (@ \ taken) \cup {[a EXCEPT !.proc = p] : a \in taken}]
           revive(s) == IF /\ respawn /\ s.circuit = "closed" /\ s.cur.id = l
                           /\ s.cur.gen = s.gen /\ s.cur.terminal = "exit"
                        THEN [s EXCEPT !.cur.terminal = "no"] ELSE s
           a1 == CHOOSE a \in taken : TRUE
           acked == [r EXCEPT !.acknowledged = (@ \ {a1}) \cup {[a1 EXCEPT !.proc = p]}]
           e1 == CHOOSE e \in known : TRUE
<1>1. Quiet(r)
  BY DEF Level
<1>2. \A s, es : Quiet(s) => Quiet(Dropping(s, es))
  BY EntriesLevel, LevelTransitive
<1>3. \A s, e, q, ks : Quiet(s) => Quiet(Identify(s, e, q, ks))
  BY EntriesLevel, LevelTransitive
<1>4. \A s, e : Quiet(s) => Quiet(Push(s, e))
  BY EntriesLevel, LevelTransitive
<1>5. ASSUME NEW s, Quiet(s) PROVE Quiet(named(s))
  <2>1. PICK x : x = (s.acknowledged \ taken) \cup {[a EXCEPT !.proc = p] : a \in taken}
    OBVIOUS
  <2>2. named(s) = [s EXCEPT !.acknowledged = x]
    BY <2>1
  <2> HIDE DEF named
  <2> QED BY <1>5, <2>2 DEF Shaped, Level
<1>6. Quiet(acked)
  <2>1. PICK x : x = (r.acknowledged \ {a1}) \cup {[a1 EXCEPT !.proc = p]}
    OBVIOUS
  <2>2. acked = [r EXCEPT !.acknowledged = x]
    BY <2>1
  <2> HIDE DEF acked
  <2> QED BY <2>2, <1>1 DEF Shaped, Level
<1>7. ASSUME NEW s, Quiet(s) PROVE Shaped(revive(s)) /\ Tallies(r, revive(s))
  <2>1. Tallies(r, s)
    BY <1>7, LevelTallies
  <2>2. CASE revive(s) = s
    BY <1>7, <2>1, <2>2
  <2>3. CASE s.circuit = "closed" /\ s.cur.terminal = "exit" /\ revive(s) = [s EXCEPT !.cur.terminal = "no"]
    <3> HIDE DEF revive
    <3>1. PICK v : v = [s.cur EXCEPT !.terminal = "no"]
      OBVIOUS
    <3>2. PICK t : t = [s EXCEPT !.cur = v]
      OBVIOUS
    <3>3. t = revive(s) /\ v \in LaunchRecords /\ v.id = s.cur.id
      BY <1>7, <2>3, <3>1, <3>2 DEF Shaped, LaunchRecords
    <3>4. /\ Shaped(t) /\ t.circuit = s.circuit /\ t.cur = v /\ t.last = s.last /\ t.gen = s.gen
          /\ t.total = s.total /\ t.same = s.same /\ t.blocked = s.blocked /\ t.demand = s.demand
      BY <1>7, <3>2, <3>3 DEF Shaped
    <3>5. s.cur = r.cur /\ s.last = r.last /\ (Unfailed(v) => Unfailed(s.cur))
      BY <1>7, <2>3, <3>3 DEF Level, Unfailed
    <3>6. Within(t.cur, t.last, r)
      BY <2>1, <3>3, <3>4, <3>5 DEF Within, Tallies, Tallied
    <3>7. Tallied(t)
      BY <2>1, <3>3, <3>4 DEF Tallies, Tallied
    <3>8. t.total <= r.total /\ t.demand.claimed = r.demand.claimed
      BY <1>7, <3>4 DEF Level, Tallied
    <3> QED BY <3>3, <3>4, <3>6, <3>7, <3>8 DEF Tallies
  <2> QED BY <2>2, <2>3
<1>9. \/ ProcessSpawned(r, l, ls, i, p, respawn) \in {r, Finish(Dropping(r, pending)), acked}
      \/ ProcessSpawned(r, l, ls, i, p, respawn) =
           Finish(revive(named(Dropping(Identify(r, e1, p, ls), pending))))
      \/ ProcessSpawned(r, l, ls, i, p, respawn) =
           Finish(revive(named(Identify(Dropping(r, pending \ {first}), first, p, ls))))
      \/ ProcessSpawned(r, l, ls, i, p, respawn) = Finish(revive(Push(r, Entry(l, i, p, ls))))
  <2>1. CASE <<i, p>> \in r.exits
    BY <2>1, Zenon DEF ProcessSpawned
  <2>2. CASE <<i, p>> \notin r.exits /\ known # {}
    BY <2>2, Zenon DEF ProcessSpawned
  <2>3. CASE <<i, p>> \notin r.exits /\ known = {} /\ pending # {}
    BY <2>3, Zenon DEF ProcessSpawned
  <2>4. CASE <<i, p>> \notin r.exits /\ known = {} /\ pending = {} /\ taken # {}
    BY <2>4, Zenon DEF ProcessSpawned
  <2>5. CASE <<i, p>> \notin r.exits /\ known = {} /\ pending = {} /\ taken = {}
    BY <2>5, Zenon DEF ProcessSpawned
  <2> QED BY <2>1, <2>2, <2>3, <2>4, <2>5
<1>8. \A s : Quiet(s) => Shaped(s) /\ Tallies(r, s)
  BY LevelTallies
<1> HIDE DEF Quiet, pending, known, own, first, taken, named, revive, acked, a1, e1
<1>10. Quiet(Dropping(r, pending)) /\ Quiet(acked)
  BY <1>1, <1>2, <1>6
<1>11. Quiet(named(Dropping(Identify(r, e1, p, ls), pending)))
  BY <1>1, <1>2, <1>3, <1>5
<1>12. Quiet(named(Identify(Dropping(r, pending \ {first}), first, p, ls)))
  BY <1>1, <1>2, <1>3, <1>5
<1>13. Quiet(Push(r, Entry(l, i, p, ls)))
  BY <1>1, <1>4
<1> QED BY <1>1, <1>7, <1>8, <1>9, <1>10, <1>11, <1>12, <1>13, FinishTallies

\* An exit ends one of the two launches, unless it has failed.
LEMMA ProcessExitedTallies ==
    ASSUME NEW r, Shaped(r), Probing(r), Tallied(r), NEW l \in Nat, NEW m \in Nat, NEW i, NEW p
    PROVE  Tallies(r, ProcessExited(r, l, m, i, p))
<1> DEFINE match == IF Identified(r, i, p) # {} THEN Identified(r, i, p) ELSE PendingOf(r, {l}, i)
           acked == LET ackedAs(q) == {a \in r.acknowledged : a.inst = i /\ a.proc = q /\ (q # 0 \/ a.spawn = l)}
                    IN  IF ackedAs(p) # {} THEN ackedAs(p) ELSE ackedAs(0)
           gone == [Dropping(r, match) EXCEPT !.exits = @ \cup {<<i, p>>},
                                              !.acknowledged = IF match = {} THEN @ \ acked ELSE @]
           probed == [gone EXCEPT !.cur.terminal = "exit", !.cur.lease = "none",
                                  !.circuit = "open", !.blocked = TRUE]
           ended == [gone EXCEPT !.cur.terminal = "exit"]
           late == [gone EXCEPT !.last.terminal = "exit"]
<1>1. \/ ProcessExited(r, l, m, i, p) = Finish(gone)
      \/ r.cur.terminal = "no" /\ ProcessExited(r, l, m, i, p) \in {Finish(probed), Finish(ended)}
      \/ r.last.terminal = "no" /\ ProcessExited(r, l, m, i, p) = Finish(late)
  <2> DEFINE carried == {l, m} \cup UNION {e.launches : e \in match}
             current == r.cur.id \in carried /\ Binds(r, r.cur, r.cur.id)
  <2>1. current => r.cur.terminal = "no"
    BY DEF Binds
  <2>2. CASE match # {} /\ current /\ r.circuit = "half_open" /\ r.cur.probe
    BY <2>1, <2>2, Zenon DEF ProcessExited
  <2>3. CASE match # {} /\ current /\ ~(r.circuit = "half_open" /\ r.cur.probe)
    BY <2>1, <2>3, Zenon DEF ProcessExited
  <2>4. CASE match # {} /\ ~current /\ r.circuit = "open" /\ r.last.id \in carried /\ r.last.terminal = "no"
    BY <2>4, Zenon DEF ProcessExited
  <2>5. CASE /\ ~(match # {} /\ current)
             /\ ~(match # {} /\ ~current /\ r.circuit = "open" /\ r.last.id \in carried /\ r.last.terminal = "no")
    BY <2>5, Zenon DEF ProcessExited
  <2> QED BY <2>2, <2>3, <2>4, <2>5
<1>2. Shaped(gone) /\ Level(r, gone)
  <2>1. PICK d, x, y : /\ d = Dropping(r, match) /\ x = d.exits \cup {<<i, p>>}
                       /\ y = IF match = {} THEN d.acknowledged \ acked ELSE d.acknowledged
    OBVIOUS
  <2>2. Shaped(d) /\ Level(r, d)
    BY <2>1, EntriesLevel
  <2>3. gone = [d EXCEPT !.exits = x, !.acknowledged = y]
    BY <2>1, <2>2 DEF Shaped
  <2> HIDE DEF gone
  <2> QED BY <2>2, <2>3 DEF Shaped, Level
<1> HIDE DEF match, acked, gone
<1>3. PICK g, u, v, w : /\ g = gone /\ u = [g.cur EXCEPT !.terminal = "exit"]
                        /\ v = [u EXCEPT !.lease = "none"] /\ w = [g.last EXCEPT !.terminal = "exit"]
  OBVIOUS
<1>4. /\ Shaped(g) /\ Level(r, g) /\ g.cur \in LaunchRecords /\ g.last \in LaunchRecords
  BY <1>2, <1>3 DEF Shaped
<1>5. /\ u \in LaunchRecords /\ u.id = r.cur.id /\ v \in LaunchRecords /\ v.id = r.cur.id
      /\ w \in LaunchRecords /\ w.id = r.last.id
  BY <1>3, <1>4 DEF LaunchRecords, Level
<1>6. PICK s1, s2, s3 : /\ s1 = [g EXCEPT !.cur = v, !.circuit = "open", !.blocked = TRUE]
                        /\ s2 = [g EXCEPT !.cur = u] /\ s3 = [g EXCEPT !.last = w]
  OBVIOUS
<1>7. probed = s1 /\ ended = s2 /\ late = s3
  <2>1. gone = g
    BY <1>3
  <2> QED BY <1>3, <1>4, <1>6, <2>1 DEF Shaped, LaunchRecords
<1>8. /\ Shaped(s1) /\ s1.circuit = "open" /\ s1.cur = v /\ s1.last = r.last /\ s1.gen = r.gen
      /\ s1.total = r.total /\ s1.same = r.same /\ s1.blocked = TRUE /\ s1.demand = r.demand
  BY <1>4, <1>5, <1>6 DEF Shaped, Level
<1>9. /\ Shaped(s2) /\ s2.circuit = r.circuit /\ s2.cur = u /\ s2.last = r.last /\ s2.gen = r.gen
      /\ s2.total = r.total /\ s2.same = r.same /\ s2.blocked = r.blocked /\ s2.demand = r.demand
  BY <1>4, <1>5, <1>6 DEF Shaped, Level
<1>10. /\ Shaped(s3) /\ s3.circuit = r.circuit /\ s3.cur = r.cur /\ s3.last = w /\ s3.gen = r.gen
       /\ s3.total = r.total /\ s3.same = r.same /\ s3.blocked = r.blocked /\ s3.demand = r.demand
  BY <1>4, <1>5, <1>6 DEF Shaped, Level
<1>11. /\ r.cur.terminal = "no" => Within(v, r.last, r) /\ Within(u, r.last, r)
       /\ r.last.terminal = "no" => Within(r.cur, w, r)
  BY <1>5 DEF Within, Unfailed, Tallied
<1>12. r.total <= r.total
  BY DEF Tallied
<1>13. r.cur.terminal = "no" => Tallies(r, s1) /\ Tallies(r, s2)
  BY <1>5, <1>8, <1>9, <1>11, <1>12 DEF Tallies, Tallied
<1>14. r.last.terminal = "no" => Tallies(r, s3)
  BY <1>5, <1>10, <1>11, <1>12 DEF Tallies, Tallied
<1>15. Shaped(gone) /\ Tallies(r, gone)
  BY <1>2, LevelTallies
<1> HIDE DEF probed, ended, late
<1> QED BY <1>1, <1>7, <1>8, <1>9, <1>10, <1>13, <1>14, <1>15, FinishTallies

\* A start refused before any spawn may end, or set aside, the current launch.
LEMMA StartRejectedTallies ==
    ASSUME NEW r0, Shaped(r0), Probing(r0), Tallied(r0), NEW l, NEW i, NEW reason
    PROVE  Tallies(r0, StartRejected(r0, l, i, reason))
<1>1. PICK r : r = Lapse(r0)
  OBVIOUS
<1>2. Shaped(r) /\ Probing(r) /\ Tallied(r) /\ Tallies(r0, r) /\ r.total <= r0.total
  <2>1. Shaped(r) /\ Probing(r) /\ Tallied(r) /\ Tallies(r0, r) /\ r.total = r0.total
    BY <1>1, LapseEvolves, LapseTallies DEF Evolves, Tallies
  <2> QED BY <2>1 DEF Tallied
<1> DEFINE pending == PendingOf(r, {l}, i)
           bound == Binds(r, r.cur, l)
           counts == bound /\ reason = "spawn_error"
           releases == bound /\ ~counts /\ r.circuit = "half_open" /\ r.cur.probe
           unclaims == bound /\ reason \in {"spawn_error", "stale_dispatch"} /\ r.demand.claimed = l
           base == [Dropping(r, pending) EXCEPT
                       !.demand = IF unclaims THEN [claimed |-> 0, fresh |-> FALSE] ELSE @]
           ended == [base EXCEPT !.cur.terminal = "e1", !.cur.lease = "none", !.blocked = TRUE]
           raised == RaiseOwed([ended EXCEPT !.circuit = "open"], "failure")
           freed == [base EXCEPT !.last = r.cur, !.cur = NoLaunch, !.circuit = "open"]
<1>3. \/ StartRejected(r0, l, i, reason) \in {r, Finish(base), Finish(raised), Finish(freed)}
      \/ r.circuit = "open" /\ StartRejected(r0, l, i, reason) = Finish(ended)
  <2>1. CASE counts
    BY <1>1, <2>1, Zenon DEF StartRejected
  <2>2. CASE ~counts /\ releases
    BY <1>1, <2>2, Zenon DEF StartRejected
  <2>3. CASE ~counts /\ ~releases /\ (pending # {} \/ unclaims)
    BY <1>1, <2>3, Zenon DEF StartRejected
  <2>4. CASE ~counts /\ ~releases /\ ~(pending # {} \/ unclaims)
    BY <1>1, <2>4, Zenon DEF StartRejected
  <2> QED BY <2>1, <2>2, <2>3, <2>4
<1>4. PICK g : g = base
  OBVIOUS
<1>5. /\ Shaped(g) /\ g.circuit = r.circuit /\ g.gen = r.gen /\ g.cur = r.cur /\ g.last = r.last
      /\ g.total = r.total /\ g.same = r.same /\ g.blocked = r.blocked
      /\ g.demand.claimed \in {r.demand.claimed, 0}
  <2>1. PICK d, x : d = Dropping(r, pending) /\ x = IF unclaims THEN [claimed |-> 0, fresh |-> FALSE] ELSE d.demand
    OBVIOUS
  <2>2. Shaped(d) /\ Level(r, d)
    BY <1>2, <2>1, EntriesLevel
  <2>3. g = [d EXCEPT !.demand = x] /\ x \in {d.demand, [claimed |-> 0, fresh |-> FALSE]}
    BY <1>4, <2>1, <2>2 DEF Shaped
  <2>4. x \in Demands /\ x.claimed \in {r.demand.claimed, 0}
    <3>1. CASE x = d.demand
      BY <2>2, <3>1 DEF Shaped, Level
    <3>2. CASE x = [claimed |-> 0, fresh |-> FALSE]
      BY <3>2, NoneTyped
    <3> QED BY <2>3, <3>1, <3>2
  <2> QED BY <2>2, <2>3, <2>4 DEF Shaped, Level
<1>6. base = g
  BY <1>4
<1> HIDE DEF base, pending, bound, counts, releases, unclaims
<1>7. PICK v : v = [[g.cur EXCEPT !.terminal = "e1"] EXCEPT !.lease = "none"]
  OBVIOUS
<1>8. v \in LaunchRecords /\ v.id = r.cur.id /\ v.terminal = "e1"
  BY <1>5, <1>7 DEF Shaped, LaunchRecords
<1>9. PICK s1, s2, s3 : /\ s1 = [g EXCEPT !.cur = v, !.blocked = TRUE] /\ s2 = [s1 EXCEPT !.circuit = "open"]
                        /\ s3 = [g EXCEPT !.last = r.cur, !.cur = NoLaunch, !.circuit = "open"]
  OBVIOUS
<1>10. ended = s1 /\ raised = RaiseOwed(s2, "failure") /\ freed = s3
  <2>1. ended = s1
    BY <1>5, <1>6, <1>7, <1>9 DEF Shaped, LaunchRecords
  <2>2. freed = s3
    BY <1>6, <1>9
  <2> HIDE DEF ended, freed
  <2> QED BY <1>9, <2>1, <2>2
<1> HIDE DEF ended, raised, freed
<1>11. /\ Shaped(s1) /\ s1.circuit = r.circuit /\ s1.cur = v /\ s1.last = r.last /\ s1.gen = r.gen
       /\ s1.total = r.total /\ s1.same = r.same /\ s1.blocked = TRUE /\ s1.demand = g.demand
  BY <1>5, <1>8, <1>9 DEF Shaped
<1>12. /\ Shaped(s2) /\ s2.circuit = "open" /\ s2.cur = v /\ s2.last = r.last /\ s2.gen = r.gen
       /\ s2.total = r.total /\ s2.same = r.same /\ s2.blocked = TRUE /\ s2.demand = g.demand
  <2>1. s2 = [s1 EXCEPT !.circuit = "open"]
    BY <1>9
  <2> QED BY <1>11, <2>1 DEF Shaped
<1>13. /\ Shaped(s3) /\ s3.circuit = "open" /\ s3.cur = NoLaunch /\ s3.last = r.cur /\ s3.gen = r.gen
       /\ s3.total = r.total /\ s3.same = r.same /\ s3.blocked = r.blocked /\ s3.demand = g.demand
  BY <1>2, <1>5, <1>9, NoneTyped DEF Shaped
<1>14. Within(v, r.last, r) /\ Within(NoLaunch, r.cur, r) /\ Within(r.cur, r.last, r)
  <2>1. ~Unfailed(v) /\ ~Unfailed(NoLaunch)
    BY <1>8, NoneTyped DEF Unfailed
  <2>2. r.cur.id = r.last.id => r.cur.id = 0
    BY <1>2 DEF Tallied
  <2>3. NoLaunch.id = r.cur.id => NoLaunch.id = 0
    BY NoneTyped
  <2> QED BY <1>8, <2>1, <2>2, <2>3, NoneTyped DEF Within
<1>15. r.total <= r.total /\ r.total \in Nat /\ r.same \in 0..r.total /\ r.gen # 0 /\ r.blocked \in BOOLEAN
  BY <1>2 DEF Tallied
<1>16. Tallied(g) /\ Tallies(r, g) /\ g.total <= r.total
  BY <1>2, <1>5, <1>14, <1>15 DEF Tallies, Tallied
<1>17. r.circuit = "open" => Tallies(r, s1) /\ s1.total <= r.total
  BY <1>2, <1>5, <1>8, <1>11, <1>14, <1>15 DEF Tallies, Tallied
<1>18. Tallies(r, s2) /\ s2.total <= r.total
  BY <1>2, <1>5, <1>8, <1>12, <1>14, <1>15 DEF Tallies, Tallied
<1>19. Tallies(r, s3) /\ s3.total <= r.total
  BY <1>5, <1>13, <1>14, <1>15, NoneTyped DEF Tallies, Tallied
<1>20. \A s : Shaped(s) /\ Tallies(r, s) /\ s.total <= r.total => Tallies(r0, Finish(s))
  BY <1>2, TalliesTransitive, FinishTallies
<1>21. Shaped(RaiseOwed(s2, "failure")) /\ Tallies(r, RaiseOwed(s2, "failure"))
       /\ RaiseOwed(s2, "failure").total <= r.total
  BY <1>12, <1>18, RaiseLevel, TalliesLevel DEF Level
<1> QED BY <1>2, <1>3, <1>5, <1>6, <1>10, <1>11, <1>13, <1>16, <1>17, <1>19, <1>20, <1>21

\* Lost evidence, and the marker for folded frames, touch the block only.
LEMMA EvidenceLostTallies ==
    ASSUME NEW r, Shaped(r), Tallied(r)
    PROVE  Tallies(r, EvidenceLost(r)) /\ \A epoch : Tallies(r, OutcomeMarker(r, epoch))
<1>1. PICK x : x = [reason |-> "outcome_evidence_lost", causes |-> {}]
  OBVIOUS
<1>2. PICK t : t = [r EXCEPT !.manual = x]
  OBVIOUS
<1>3. EvidenceLost(r) \in {r, Finish(t)}
  BY <1>1, <1>2 DEF EvidenceLost
<1>4. Shaped(t) /\ Level(r, t) /\ Level(r, r)
  BY <1>2 DEF Shaped, Level
<1>5. Tallies(r, EvidenceLost(r)) /\ Tallies(r, r)
  BY <1>3, <1>4, LevelTallies, FinishTallies
<1> QED BY <1>5 DEF OutcomeMarker

\* The reconcile of a ready touches entries and the block only.
LEMMA DaemonReadyTallies ==
    ASSUME NEW r, Shaped(r), Tallied(r), NEW i
    PROVE  Tallies(r, DaemonReady(r, i))
<1> DEFINE m == MarkProtected(r)
           old == {e \in Entries(m) : e.inst # i}
           untracked == {e \in old : ~e.protected}
           kept == old \ untracked
           u == Dropping(m, untracked)
           moved == [u EXCEPT !.acknowledged = @ \cup
                       {[spawn |-> e.spawn, inst |-> e.inst, proc |-> e.proc] : e \in untracked}]
           z == [reason |-> "daemon_restarted_no_exit", causes |-> {Key(e) : e \in kept}]
           held == [moved EXCEPT !.manual = z]
<1>1. DaemonReady(r, i) \in {r, Finish(moved), Finish(held)}
  BY Zenon DEF DaemonReady
<1>2. Shaped(m) /\ Level(r, m)
  BY MarkProtectedFacts, FinishLevel
<1>3. Shaped(u) /\ Level(r, u)
  BY <1>2, EntriesLevel, LevelTransitive
<1>4. Shaped(moved) /\ Level(r, moved)
  <2>1. PICK w : w = u.acknowledged \cup
                    {[spawn |-> e.spawn, inst |-> e.inst, proc |-> e.proc] : e \in untracked}
    OBVIOUS
  <2>2. moved = [u EXCEPT !.acknowledged = w]
    BY <2>1
  <2> HIDE DEF u, moved
  <2> QED BY <1>3, <2>2 DEF Shaped, Level
<1> HIDE DEF m, old, untracked, kept, u, moved, z
<1>5. Shaped(held) /\ Level(r, held)
  BY <1>4 DEF Shaped, Level
<1> HIDE DEF held
<1>6. Level(r, r)
  BY DEF Level
<1> QED BY <1>1, <1>4, <1>5, <1>6, LevelTallies, FinishTallies

\* A closing normalisation counts nothing.
LEMMA NormalizeTallies ==
    ASSUME NEW r, Shaped(r), Probing(r), Tallied(r)
    PROVE  /\ Tallies(r, Normalize(r)) /\ Normalize(r).total <= r.total
           /\ Tallied(Normalize(r)) /\ Normalize(r).demand = r.demand
<1>1. Shaped(Lapse(r))
  BY LapseEvolves DEF Evolves
<1>2. Tallies(r, Lapse(r)) /\ Lapse(r).total = r.total /\ Lapse(r).demand = r.demand
  BY LapseTallies
<1>3. Tallies(r, Normalize(r)) /\ Normalize(r).total = r.total /\ Normalize(r).demand = r.demand
  BY <1>1, <1>2, FinishLevel, FinishTallies DEF Normalize, Level
<1> QED BY <1>3 DEF Tallies, Tallied

\* The gate counts nothing.
LEMMA GateTallies ==
    ASSUME NEW r0, Shaped(r0), Probing(r0), Tallied(r0), NEW message, NEW demand
    PROVE  Tallies(r0, Gate(r0, message, demand))
<1> DEFINE r == Normalize(r0)
           ref == Refusal(r)
           origin == IF /\ ref.refusal = "needs_manual" /\ ref.manual = "unexited_process"
                        /\ ~Engaged(r) THEN "identity" ELSE "failure"
           y == [reason |-> ref.manual, causes |-> IF ref.manual = "unexited_process"
                                         THEN {Key(e) : e \in Blocking(r)} ELSE {}]
           blocked == IF ref.manual # "none" /\ r.manual = NoManual
                      THEN [r EXCEPT !.manual = y] ELSE r
           owing == IF message \/ (origin = "failure" /\ r.owed # "none")
                    THEN RaiseOwed(blocked, origin) ELSE blocked
           s == [owing EXCEPT !.demand = IF demand THEN MoreDemand(@) ELSE @]
<1>1. Gate(r0, message, demand) \in {r, MarkProtected(s)}
  BY Zenon DEF Gate
<1>2. /\ Shaped(r) /\ Tallied(r) /\ Tallies(r0, r) /\ r.total <= r0.total
      /\ r.demand \in Demands
  <2>1. Shaped(r)
    BY NormalizeEvolves DEF Evolves
  <2> QED BY <2>1, NormalizeTallies DEF Shaped
<1> HIDE DEF r, ref, origin, y
<1>3. Shaped(blocked) /\ Level(r, blocked)
  BY <1>2 DEF Shaped, Level
<1> HIDE DEF blocked
<1>4. Shaped(owing) /\ Level(r, owing)
  BY <1>3, RaiseLevel, LevelTransitive
<1>5. PICK g, d : g = owing /\ d = IF demand THEN MoreDemand(g.demand) ELSE g.demand
  OBVIOUS
<1>6. s = [g EXCEPT !.demand = d] /\ Shaped(g) /\ Level(r, g)
  BY <1>4, <1>5
<1> HIDE DEF owing, s
<1>7. d \in Demands /\ d.claimed \in {r.demand.claimed, 0}
  <2>1. g.demand = r.demand
    BY <1>6 DEF Level
  <2>2. MoreDemand(r.demand).claimed \in {r.demand.claimed, 0}
    BY <1>2, NoneTyped DEF MoreDemand, Demands
  <2> QED BY <1>2, <1>5, <2>1, <2>2, MoreDemandFacts
<1>8. PICK t : t = s
  OBVIOUS
<1>9. /\ Shaped(t) /\ t.circuit = r.circuit /\ t.gen = r.gen /\ t.cur = r.cur /\ t.last = r.last
      /\ t.total = r.total /\ t.same = r.same /\ t.blocked = r.blocked /\ t.demand = d
  BY <1>6, <1>7, <1>8 DEF Shaped, Level
<1>10. Within(r.cur, r.last, r) /\ r.total <= r.total
  BY <1>2 DEF Within, Tallied
<1>11. Tallies(r, t) /\ t.total <= r.total
  BY <1>2, <1>7, <1>9, <1>10 DEF Tallies, Tallied
<1>12. Tallies(r0, t)
  BY <1>2, <1>11, TalliesTransitive
<1>13. Level(t, MarkProtected(t))
  BY <1>9, FinishLevel
<1> QED BY <1>1, <1>2, <1>8, <1>12, <1>13, TalliesLevel

\* A lift forgets both launches and all counts.
LEMMA LiftedTallies ==
    ASSUME NEW r, Shaped(r), Tallied(r)
    PROVE  /\ Tallies(r, Lifted(r)) /\ Lifted(r).total <= r.total /\ Lifted(r).gen = r.gen + 1
           /\ Tallies(r, Finish(Lifted(r)))
<1>1. PICK g : g = r.gen + 1
  OBVIOUS
<1>2. g \in Nat /\ g # 0 /\ r.total >= 0
  BY <1>1 DEF Shaped, Tallied
<1>3. PICK t : t = [r EXCEPT !.same = 0, !.total = 0, !.gen = g, !.cur = NoLaunch, !.last = NoLaunch,
                            !.blocked = FALSE, !.circuit = "closed"]
  OBVIOUS
<1>4. Lifted(r) = t
  BY <1>1, <1>3 DEF Lifted
<1>5. /\ Shaped(t) /\ t.circuit = "closed" /\ t.gen = g /\ t.cur = NoLaunch /\ t.last = NoLaunch
      /\ t.total = 0 /\ t.same = 0 /\ t.blocked = FALSE /\ t.demand = r.demand
  BY ZenonT(90), <1>2, <1>3, NoneTyped DEF Shaped
<1>6. Within(NoLaunch, NoLaunch, r)
  BY NoneTyped DEF Within, Unfailed
<1>7. Tallied(t) /\ t.total <= r.total
  <2>1. t.total \in Nat /\ t.same \in 0..t.total
    BY <1>5
  <2> QED BY <1>2, <1>5, <2>1, NoneTyped DEF Tallied
<1>8. Tallies(r, t)
  BY <1>5, <1>6, <1>7 DEF Tallies
<1> QED BY <1>1, <1>4, <1>5, <1>7, <1>8, FinishTallies

\* A manual stop forgets the probe.
LEMMA ManuallyStoppedTallies ==
    ASSUME NEW r0, Shaped(r0), Probing(r0), Tallied(r0)
    PROVE  Tallies(r0, ManuallyStopped(r0))
<1>1. PICK q : q = Lapse(r0)
  OBVIOUS
<1>2. Shaped(q) /\ Tallied(q) /\ Tallies(r0, q) /\ q.total <= r0.total
  <2>1. Shaped(q) /\ Tallied(q) /\ Tallies(r0, q) /\ q.total = r0.total
    BY <1>1, LapseEvolves, LapseTallies DEF Evolves, Tallies
  <2> QED BY <2>1 DEF Tallied
<1>3. PICK r, s : r = [q EXCEPT !.demand = NoDemand] /\ s = [r EXCEPT !.cur = NoLaunch, !.circuit = "open"]
  OBVIOUS
<1>4. ManuallyStopped(r0) \in {r, Finish(s)}
  BY <1>1, <1>3 DEF ManuallyStopped
<1>5. /\ Shaped(r) /\ r.circuit = q.circuit /\ r.gen = q.gen /\ r.cur = q.cur /\ r.last = q.last
      /\ r.total = q.total /\ r.same = q.same /\ r.blocked = q.blocked /\ r.demand = NoDemand
  BY <1>2, <1>3, NoneTyped DEF Shaped
<1>6. /\ Shaped(s) /\ s.circuit = "open" /\ s.gen = q.gen /\ s.cur = NoLaunch /\ s.last = q.last
      /\ s.total = q.total /\ s.same = q.same /\ s.blocked = q.blocked /\ s.demand = NoDemand
  <2>1. s = [r EXCEPT !.cur = NoLaunch, !.circuit = "open"]
    BY <1>3
  <2> QED BY <1>5, <2>1, NoneTyped DEF Shaped
<1>7. Within(q.cur, q.last, q) /\ Within(NoLaunch, q.last, q) /\ q.total <= q.total
  <2>1. ~Unfailed(NoLaunch) /\ NoLaunch.id = 0
    BY NoneTyped DEF Unfailed
  <2>2. (q.cur.id = q.last.id => q.cur.id = 0) /\ q.total <= q.total
    BY <1>2 DEF Tallied
  <2> QED BY <2>1, <2>2 DEF Within
<1>8. Tallies(q, r) /\ Tallies(q, s) /\ r.total <= q.total /\ s.total <= q.total
  BY <1>2, <1>5, <1>6, <1>7, NoneTyped DEF Tallies, Tallied
<1> QED BY <1>2, <1>4, <1>6, <1>8, TalliesTransitive, FinishTallies

\* One frame's transition, and the watermark it advances.
LEMMA JudgedTallies ==
    ASSUME NEW r, Shaped(r), Probing(r), Tallied(r), NEW f \in Frames, NEW same, NEW echo
    PROVE  Tallies(r, Judged(r, f, same, echo))
<1>1. Tallies(r, Transition(r, f, same, echo))
  <2>0. Tallies(r, r)
    BY LevelTallies DEF Level
  <2>1. CASE f.kind = "terminal_failure"
    <3>1. f.launch \in Launches
      BY <2>1 DEF Frames
    <3> QED BY <2>1, <3>1, TerminalFailureTallies DEF Transition
  <2>2. CASE f.kind = "turn_completed"
    BY <2>0, <2>2, TurnCompletedTallies DEF Transition
  <2>3. CASE f.kind = "process_spawned"
    BY <2>3, ProcessSpawnedTallies DEF Transition
  <2>4. CASE f.kind = "process_exited"
    <3>1. f.launch \in Nat /\ f.spawn \in Nat
      BY <2>4 DEF Frames, Launches
    <3> QED BY <2>4, <3>1, ProcessExitedTallies DEF Transition
  <2>5. CASE f.kind = "start_rebound"
    BY <2>5, StartReboundTallies DEF Transition
  <2>6. CASE f.kind = "start_not_spawned"
    BY <2>6, StartRejectedTallies DEF Transition
  <2> QED BY <2>1, <2>2, <2>3, <2>4, <2>5, <2>6 DEF Frames
<1>2. PICK t : t = IF Applies(r, f) THEN Transition(r, f, same, echo) ELSE EvidenceLost(r)
  OBVIOUS
<1>3. Shaped(t) /\ Tallies(r, t)
  BY <1>1, <1>2, TransitionEvolves, EvidenceLostEvolves, EvidenceLostTallies DEF Evolves
<1>4. PICK k, s : k = t.marked \cup {f.inst} /\ s = [t EXCEPT !.marked = k, !.judged = TRUE]
  OBVIOUS
<1>5. Judged(r, f, same, echo) = s
  BY <1>2, <1>4 DEF Judged
<1>6. Level(t, s)
  BY <1>3, <1>4 DEF Shaped, Level
<1> QED BY <1>3, <1>5, <1>6, TalliesLevel

\* A claim counts nothing; the launch it replaces moves to its token or, for
\* a probe, behind it.
LEMMA ClaimedTallies ==
    ASSUME NEW r0, Shaped(r0), Probing(r0), Tallied(r0), NEW l \in Nat, l # 0,
           l \notin {r0.cur.id, r0.last.id}, NEW i, NEW human \in BOOLEAN, NEW demand \in BOOLEAN,
           human \/ Refusal(Normalize(r0)).refusal = "none"
    PROVE  LET s == Claimed(r0, l, i, human, demand)
           IN  /\ Tallied(s) /\ s.total <= r0.total /\ s.epoch <= r0.epoch + 1
               /\ Within(TokenOf(r0, l, human).previous, s.last, r0)
<1>1. PICK r : r = Normalize(r0)
  OBVIOUS
<1>2. PICK probe : probe = (~human /\ r.circuit = "open")
  OBVIOUS
<1>3. /\ Shaped(r) /\ Tallied(r) /\ r.total <= r0.total /\ r.epoch = r0.epoch /\ r0.epoch \in Nat
      /\ Within(r.cur, r.last, r0) /\ r.gen \in Nat
  BY <1>1, NormalizeEvolves, NormalizeTallies DEF Evolves, Tallies, Shaped
<1>4. PICK a, n, taken, base :
        /\ a = r.acknowledged \cup {[spawn |-> e.spawn, inst |-> e.inst, proc |-> e.proc] : e \in Entries(r)}
        /\ n = r.epoch + 1
        /\ taken = [r EXCEPT !.unexited = <<>>, !.overflow = FALSE, !.manual = NoManual, !.epoch = n,
                             !.acknowledged = a]
        /\ base = IF human THEN Lifted(taken)
                  ELSE IF probe THEN [r EXCEPT !.last = r.cur, !.circuit = "half_open"] ELSE r
  OBVIOUS
<1>5. PICK pr : pr = TokenOf(r0, l, human).previous
  OBVIOUS
<1>6. pr = IF human \/ probe THEN NoLaunch ELSE r.cur
  BY <1>1, <1>2, <1>5 DEF TokenOf
<1>7. /\ Shaped(base) /\ base.total \in Nat /\ base.same \in 0..base.total /\ base.gen # 0 /\ base.blocked \in BOOLEAN
      /\ (base.circuit = "closed" => ~base.blocked) /\ base.total <= r0.total
      /\ base.epoch <= r0.epoch + 1 /\ Within(pr, base.last, r0)
  <2>1. CASE human
    <3>1. taken = [r EXCEPT !.unexited = <<>>, !.overflow = FALSE, !.manual = NoManual, !.epoch = n,
                            !.acknowledged = a] /\ n \in Nat
      BY <1>3, <1>4 DEF Shaped
    <3>2. /\ Shaped(taken) /\ Level(r, taken) /\ taken.epoch = n
      BY <1>3, <3>1 DEF Shaped, Level
    <3>3. Tallied(taken) /\ taken.total = r.total
      BY <1>3, <3>2, LevelTallies DEF Tallies, Level
    <3>4. base = Lifted(taken)
      BY <1>4, <2>1
    <3>5. /\ Shaped(base) /\ base.last = NoLaunch /\ base.epoch = n /\ Tallied(base) /\ base.total <= r.total
      BY <3>2, <3>3, <3>4, LiftedFacts, LiftedTallies DEF Tallies
    <3>6. Within(NoLaunch, NoLaunch, r0)
      BY NoneTyped DEF Within, Unfailed
    <3>7. base.epoch <= r0.epoch + 1
      BY <1>3, <1>4, <3>5
    <3>8. base.total <= r0.total
      BY <1>3, <3>5 DEF Tallied
    <3> QED BY <1>6, <2>1, <3>5, <3>6, <3>7, <3>8 DEF Tallied
  <2>2. CASE probe
    <3>1. ~human /\ base = [r EXCEPT !.last = r.cur, !.circuit = "half_open"]
      BY <1>2, <1>4, <2>2
    <3>2. /\ Shaped(base) /\ base.circuit = "half_open" /\ base.last = r.cur /\ base.total = r.total
          /\ base.same = r.same /\ base.gen = r.gen /\ base.blocked = r.blocked /\ base.epoch = r.epoch
      BY <1>3, <3>1 DEF Shaped
    <3>3. Within(NoLaunch, r.cur, r0)
      <4>1. ~Unfailed(NoLaunch) /\ NoLaunch.id = 0
        BY NoneTyped DEF Unfailed
      <4> QED BY <1>3, <4>1 DEF Within
    <3>4. base.epoch <= r0.epoch + 1
      BY <1>3, <3>2
    <3> QED BY <1>3, <1>6, <2>2, <3>2, <3>3, <3>4 DEF Tallied
  <2>3. CASE ~human /\ ~probe
    <3>1. base = r /\ pr = r.cur
      BY <1>4, <1>6, <2>3
    <3>2. base.epoch <= r0.epoch + 1
      BY <1>3, <3>1
    <3> QED BY <1>3, <3>1, <3>2 DEF Tallied
  <2> QED BY <2>1, <2>2, <2>3
<1>8. PICK d, cur, dem :
        /\ d = IF demand /\ ~human THEN MoreDemand(base.demand) ELSE base.demand
        /\ cur = [id |-> l, gen |-> base.gen, probe |-> probe,
                  lease |-> IF probe THEN "live" ELSE "none", terminal |-> "no"]
        /\ dem = IF d = NoDemand THEN NoDemand ELSE [claimed |-> l, fresh |-> FALSE]
  OBVIOUS
<1>9. cur \in LaunchRecords /\ cur.id = l /\ dem \in Demands
  BY <1>2, <1>7, <1>8, NoneTyped DEF LaunchRecords, Shaped, Demands
<1>10. PICK t, s : t = [base EXCEPT !.cur = cur, !.demand = dem] /\ s = Claimed(r0, l, i, human, demand)
  OBVIOUS
<1>11. s = MarkProtected(Push(t, Entry(l, i, 0, {l})))
  <2>1. base = IF human
               THEN Lifted([r EXCEPT !.unexited = <<>>, !.overflow = FALSE, !.manual = NoManual,
                      !.epoch = @ + 1,
                      !.acknowledged = @ \cup {[spawn |-> e.spawn, inst |-> e.inst, proc |-> e.proc] :
                                                   e \in Entries(r)}])
               ELSE IF probe THEN [r EXCEPT !.last = r.cur, !.circuit = "half_open"] ELSE r
    BY <1>3, <1>4 DEF Shaped
  <2> QED BY <1>1, <1>2, <1>8, <1>10, <2>1, Zenon DEF Claimed
<1>12. /\ Shaped(t) /\ t.circuit = base.circuit /\ t.gen = base.gen /\ t.cur = cur /\ t.last = base.last
       /\ t.total = base.total /\ t.same = base.same /\ t.blocked = base.blocked /\ t.epoch = base.epoch
  BY <1>7, <1>9, <1>10 DEF Shaped
<1>13. Level(t, s) /\ s.epoch = t.epoch
  <2>1. PICK u : u = Push(t, Entry(l, i, 0, {l}))
    OBVIOUS
  <2>2. Shaped(u) /\ Level(t, u) /\ u.epoch = t.epoch
    BY <1>12, <2>1, EntriesLevel, EntriesFacts DEF Alike
  <2>3. Level(u, s) /\ s.epoch = u.epoch
    BY <1>11, <2>1, <2>2, FinishLevel, MarkProtectedFacts DEF Alike
  <2> QED BY <2>2, <2>3, LevelTransitive
<1>14. base.last.id # l
  BY <1>7 DEF Within
<1>15. Tallied(t)
  BY <1>7, <1>9, <1>12, <1>14 DEF Tallied
<1>16. Tallied(s) /\ s.total = base.total /\ s.last = base.last /\ s.epoch = base.epoch
  BY <1>12, <1>13, <1>15, LevelTallies DEF Tallies, Level
<1> QED BY <1>5, <1>7, <1>10, <1>16

\* A rollback counts nothing; it may restore the launch of its token.
LEMMA RolledBackTallies ==
    ASSUME NEW r, Shaped(r), Tallied(r), NEW token \in Tokens, NEW left,
           token.previous.id \in {r.cur.id, r.last.id} => token.previous.id = 0
    PROVE  LET s == RolledBack(r, token, left)
           IN  /\ Tallied(s) /\ s.total <= r.total /\ s.demand.claimed \in {r.demand.claimed, 0}
               /\ Within(s.cur, s.last, r) \/ (s.cur = token.previous /\ s.last = r.last)
<1>1. PICK g, base, never :
        /\ g = r.gen + 1
        /\ base = IF token.probe
                  THEN [r EXCEPT !.blocked = TRUE, !.gen = g, !.cur = NoLaunch, !.circuit = "open"]
                  ELSE [r EXCEPT !.cur = token.previous]
        /\ never = IF left THEN {} ELSE {e \in Entries(r) : e.spawn = token.launch /\ e.proc = 0}
  OBVIOUS
<1>2. PICK u, d : u = Dropping(base, never)
                  /\ d = IF u.demand.claimed = token.launch THEN [claimed |-> 0, fresh |-> FALSE] ELSE u.demand
  OBVIOUS
<1>3. PICK t, s : t = [u EXCEPT !.demand = d] /\ s = RolledBack(r, token, left)
  OBVIOUS
<1>4. token.previous \in LaunchRecords /\ g \in Nat /\ g # 0 /\ r.total <= r.total
  BY <1>1 DEF Tokens, Shaped, Tallied
<1>5. /\ Shaped(base) /\ base.total = r.total /\ base.same = r.same /\ base.last = r.last /\ base.demand = r.demand
      /\ \/ /\ base.cur = token.previous /\ base.circuit = r.circuit /\ base.blocked = r.blocked
            /\ base.gen = r.gen
         \/ base.cur = NoLaunch /\ base.circuit = "open" /\ base.blocked = TRUE /\ base.gen = g
  <2>1. CASE token.probe
    <3>1. base = [r EXCEPT !.blocked = TRUE, !.gen = g, !.cur = NoLaunch, !.circuit = "open"]
      BY <1>1, <2>1
    <3> QED BY <1>4, <3>1, NoneTyped DEF Shaped
  <2>2. CASE ~token.probe
    <3>1. base = [r EXCEPT !.cur = token.previous]
      BY <1>1, <2>2
    <3> QED BY <1>4, <3>1 DEF Shaped
  <2> QED BY <2>1, <2>2
<1>6. Shaped(u) /\ Level(base, u)
  BY <1>2, <1>5, EntriesLevel
<1>7. d \in Demands /\ d.claimed \in {r.demand.claimed, 0}
  <2>1. u.demand = r.demand /\ u.demand \in Demands
    BY <1>5, <1>6 DEF Level, Shaped
  <2>2. CASE d = [claimed |-> 0, fresh |-> FALSE]
    BY <2>2, NoneTyped
  <2> QED BY <1>2, <2>1, <2>2
<1>8. /\ Shaped(t) /\ t.circuit = base.circuit /\ t.gen = base.gen /\ t.cur = base.cur /\ t.last = base.last
      /\ t.total = base.total /\ t.same = base.same /\ t.blocked = base.blocked /\ t.demand = d
  BY <1>3, <1>6, <1>7 DEF Shaped, Level
<1>9. s = r \/ s = Finish(t)
  <2>1. base = IF token.probe
               THEN [r EXCEPT !.blocked = TRUE, !.gen = @ + 1, !.cur = NoLaunch, !.circuit = "open"]
               ELSE [r EXCEPT !.cur = token.previous]
    BY <1>1 DEF Shaped
  <2>2. t = [Dropping(base, never) EXCEPT
               !.demand = IF @.claimed = token.launch THEN [claimed |-> 0, fresh |-> FALSE] ELSE @]
    BY <1>2, <1>3, <1>6 DEF Shaped
  <2> QED BY <1>1, <1>3, <2>1, <2>2, Zenon DEF RolledBack
<1>10. Within(r.cur, r.last, r)
  BY DEF Within, Tallied
<1>11. base.cur = NoLaunch => Within(base.cur, base.last, r)
  <2>1. ~Unfailed(NoLaunch) /\ NoLaunch.id = 0
    BY NoneTyped DEF Unfailed
  <2> QED BY <1>5, <2>1 DEF Within
<1>12. Tallied(t)
  <2>1. base.cur.id = base.last.id => base.cur.id = 0
    BY <1>5, NoneTyped
  <2> QED BY <1>4, <1>5, <1>8, <2>1 DEF Tallied
<1>13. CASE s = r
  BY <1>3, <1>4, <1>10, <1>13
<1>14. CASE s = Finish(t)
  <2>1. Level(t, s)
    BY <1>8, <1>14, FinishLevel
  <2>2. Tallied(s) /\ s.total = r.total /\ s.demand = d /\ s.cur = base.cur /\ s.last = r.last
    BY <1>5, <1>8, <1>12, <2>1, LevelTallies DEF Level, Tallies
  <2>3. Within(s.cur, s.last, r) \/ s.cur = token.previous
    BY <1>5, <1>11, <2>2
  <2> QED BY <1>3, <1>4, <1>7, <2>2, <2>3
<1> QED BY <1>9, <1>13, <1>14

-----------------------------------------------------------------------------
(* What is counted, step by step. *)

Previous(l) == starts[l].token.previous

\* The launches the record and the tokens remember are different ones.
ApartOk ==
    \A l \in Launches :
        /\ Previous(l).id \in {b.cur.id, b.last.id} => Previous(l).id = 0
        /\ \A m \in Launches : l # m /\ Previous(l).id = Previous(m).id => Previous(l).id = 0

\* No more failures are counted than launches that nothing remembers unfailed.
CountedOk ==
    \E C \in SUBSET Known :
        /\ b.total <= Cardinality(C)
        /\ \A x \in Remembered : Unfailed(x) => x.id \notin C

BoundsOk ==
    /\ b.epoch <= Cardinality(Known) /\ b.demand.claimed <= Cardinality(Known)
    /\ Len(outbox) <= MaxFrames

TallyInv == Tallied(b) /\ ApartOk /\ CountedOk /\ BoundsOk

\* The minted launches are finitely many.
LEMMA KnownFinite ==
    ASSUME IInv
    PROVE  /\ IsFiniteSet(Known) /\ Cardinality(Known) \in 0..MaxLaunch
           /\ Known = 1..Cardinality(Known) /\ Cardinality(Known) + 1 \notin Known
           /\ \A C \in SUBSET Known : /\ IsFiniteSet(C) /\ Cardinality(C) \in Nat
                                      /\ Cardinality(C) <= Cardinality(Known)
                                      /\ \A x : x \notin C => Cardinality(C \cup {x}) = Cardinality(C) + 1
<1>1. PICK n \in 0..MaxLaunch : Known = 1..n
  BY DEF IInv, Minted
<1>2. n \in Nat /\ IsFiniteSet(1..n) /\ Cardinality(1..n) = n
  BY BreakerAssumption, FS_Interval
<1>3. IsFiniteSet(Known) /\ Cardinality(Known) = n
  BY <1>1, <1>2
<1>4. ASSUME NEW C \in SUBSET Known
      PROVE  /\ IsFiniteSet(C) /\ Cardinality(C) \in Nat /\ Cardinality(C) <= Cardinality(Known)
             /\ \A x : x \notin C => Cardinality(C \cup {x}) = Cardinality(C) + 1
  <2>1. IsFiniteSet(C) /\ Cardinality(C) <= Cardinality(Known)
    BY <1>3, FS_Subset
  <2> QED BY <2>1, FS_CardinalityType, FS_AddElement
<1> QED BY <1>1, <1>2, <1>3, <1>4

\* A step that mints no launch, remembers none anew and counts at most the
\* failure of the current one.
LEMMA TallyStep ==
    ASSUME IInv, TallyInv, Known' = Known, Tallies(b, b'), b'.epoch \in {0, b.epoch},
           \A l \in Launches : Previous(l)' \in {Previous(l), NoLaunch},
           Len(outbox') <= MaxFrames
    PROVE  TallyInv'
<1>1. PICK r, s, P, Q, K :
        /\ r = b /\ s = b' /\ K = Known
        /\ P = [l \in Launches |-> Previous(l)] /\ Q = [l \in Launches |-> Previous(l)']
  OBVIOUS
<1>2. /\ r.cur.id \in K \cup {0} /\ r.last.id \in K \cup {0}
      /\ K = Known' /\ s.epoch \in {0, r.epoch} /\ Tallied(r) /\ r.demand.claimed \in Int
  <2>1. b.cur.id \in Known \cup {0} /\ b.last.id \in Known \cup {0}
    BY DEF IInv, TokensAgree, Remembered
  <2>2. b.demand.claimed \in Int
    BY NoneTyped DEF IInv, Typed, Shaped, Demands
  <2> QED BY <1>1, <2>1, <2>2 DEF TallyInv
<1>3. \A l \in Launches : Q[l] \in {P[l], NoLaunch}
  BY <1>1
<1>4. \A l \in Launches :
        /\ P[l].id \in {r.cur.id, r.last.id} => P[l].id = 0
        /\ \A m \in Launches : l # m /\ P[l].id = P[m].id => P[l].id = 0
  BY <1>1 DEF TallyInv, ApartOk
<1>5. Tallies(r, s)
  BY <1>1
<1>6. \A l \in Launches :
        /\ Q[l].id \in {s.cur.id, s.last.id} => Q[l].id = 0
        /\ \A m \in Launches : l # m /\ Q[l].id = Q[m].id => Q[l].id = 0
  <2>1. s.cur.id \in {0, r.cur.id, r.last.id} /\ s.last.id \in {0, r.cur.id, r.last.id}
    BY <1>5 DEF Tallies, Within
  <2>2. \A l \in Launches : Q[l] = P[l] \/ Q[l].id = 0
    BY <1>3, NoneTyped
  <2> QED BY <1>4, <2>1, <2>2
<1>7. ApartOk'
  BY <1>1, <1>6 DEF ApartOk
<1>8. PICK C \in SUBSET K :
        /\ r.total <= Cardinality(C)
        /\ \A x \in {r.cur, r.last} : Unfailed(x) => x.id \notin C
        /\ \A l \in Launches : Unfailed(P[l]) => P[l].id \notin C
  <2>1. PICK C \in SUBSET Known :
          b.total <= Cardinality(C) /\ \A x \in Remembered : Unfailed(x) => x.id \notin C
    BY DEF TallyInv, CountedOk
  <2>2. r.cur \in Remembered /\ r.last \in Remembered /\ \A l \in Launches : P[l] \in Remembered
    BY <1>1 DEF Remembered, Previous
  <2> QED BY <1>1, <2>1, <2>2
<1>9. Cardinality(C) \in Nat /\ \A x : x \notin C => Cardinality(C \cup {x}) = Cardinality(C) + 1
  BY <1>1, KnownFinite
<1>10. PICK D \in SUBSET K :
        /\ s.total <= Cardinality(D)
        /\ \A x \in {s.cur, s.last} : Unfailed(x) => x.id \notin D
        /\ \A l \in Launches : Unfailed(Q[l]) => Q[l].id \notin D
  <2>1. CASE s.total <= r.total
    <3>1. s.total <= Cardinality(C)
      BY <1>2, <1>5, <1>8, <1>9, <2>1 DEF Tallies, Tallied
    <3>2. \A x \in {s.cur, s.last} : Unfailed(x) => x.id \notin C
      <4>1. \A x \in {s.cur, s.last} : Unfailed(x) => \E w \in {r.cur, r.last} : w.id = x.id /\ Unfailed(w)
        BY <1>5 DEF Tallies, Within
      <4> QED BY <1>8, <4>1
    <3>3. \A l \in Launches : Unfailed(Q[l]) => Q[l].id \notin C
      BY <1>3, <1>8, NoneTyped DEF Unfailed
    <3> QED BY <3>1, <3>2, <3>3
  <2>2. CASE /\ s.total = r.total + 1 /\ Unfailed(r.cur)
             /\ \A z \in {s.cur, s.last} : z.id = r.cur.id => ~Unfailed(z)
    <3>1. r.cur.id \in K /\ r.cur.id \notin C
      BY <1>2, <1>8, <2>2 DEF Unfailed
    <3>2. PICK D : D = C \cup {r.cur.id}
      OBVIOUS
    <3>3. D \in SUBSET K /\ Cardinality(D) = Cardinality(C) + 1
      BY <1>9, <3>1, <3>2
    <3>4. s.total <= Cardinality(D)
      BY <1>2, <1>8, <1>9, <2>2, <3>3 DEF Tallied
    <3>5. \A x \in {s.cur, s.last} : Unfailed(x) => x.id \notin D
      <4>1. \A x \in {s.cur, s.last} : Unfailed(x) => \E w \in {r.cur, r.last} : w.id = x.id /\ Unfailed(w)
        BY <1>5 DEF Tallies, Within
      <4> QED BY <1>8, <2>2, <3>2, <4>1
    <3>6. \A l \in Launches : Unfailed(Q[l]) => Q[l].id \notin D
      BY <1>3, <1>4, <1>8, <3>2, NoneTyped DEF Unfailed
    <3> QED BY <3>3, <3>4, <3>5, <3>6
  <2> QED BY <1>5, <2>1, <2>2 DEF Tallies
<1>11. CountedOk'
  <2>1. ASSUME NEW x \in Remembered' PROVE Unfailed(x) => x.id \notin D
    <3>1. x \in {s.cur, s.last} \/ \E l \in Launches : x = Q[l]
      BY <1>1, <2>1 DEF Remembered, Previous
    <3> QED BY <1>10, <3>1
  <2>2. D \in SUBSET Known' /\ b'.total <= Cardinality(D)
    BY <1>1, <1>2, <1>10
  <2> QED BY <2>1, <2>2 DEF CountedOk
<1>12. BoundsOk'
  <2>1. /\ r.epoch <= Cardinality(K) /\ r.demand.claimed <= Cardinality(K) /\ Cardinality(K) \in Nat
    BY <1>1, KnownFinite DEF TallyInv, BoundsOk
  <2>2. s.demand.claimed <= Cardinality(K)
    BY <1>2, <1>5, <2>1 DEF Tallies
  <2> QED BY <1>1, <1>2, <2>1, <2>2 DEF BoundsOk
<1> QED BY <1>1, <1>5, <1>7, <1>11, <1>12 DEF Tallies, TallyInv

\* Tokens are spent, never made.
TokensSpent ==
    \A l \in Launches :
        /\ (starts'[l].phase = "none") <=> (starts[l].phase = "none")
        /\ starts'[l].token \in {starts[l].token, NoToken}

\* A step that at most spends tokens.
LEMMA TallyQuiet ==
    ASSUME IInv, TallyInv, TokensSpent, Tallies(b, b'), b'.epoch \in {0, b.epoch}, Len(outbox') <= MaxFrames
    PROVE  TallyInv'
<1>1. Known' = Known
  BY DEF TokensSpent, Known, Launches
<1>2. NoToken.previous = NoLaunch
  BY DEF NoToken
<1>3. \A l \in Launches : Previous(l)' \in {Previous(l), NoLaunch}
  BY <1>2 DEF TokensSpent, Previous
<1> QED BY <1>1, <1>3, TallyStep

\* A step that leaves the starts and the queue alone.
LEMMA TallyRecord ==
    ASSUME IInv, TallyInv, Tallies(b, b'), b'.epoch \in {0, b.epoch}, starts' = starts, outbox' = outbox
    PROVE  TallyInv'
<1>1. TokensSpent
  BY DEF TokensSpent
<1>2. Len(outbox') <= MaxFrames
  BY DEF TallyInv, BoundsOk
<1> QED BY <1>1, <1>2, TallyQuiet

\* A step that leaves the record alone and queues at most one frame.
LEMMA TallyDaemon ==
    ASSUME IInv, TallyInv, TokensSpent, b' = b,
           outbox' = outbox \/ (Room /\ \E f : outbox' = Append(outbox, f))
    PROVE  TallyInv'
<1>1. Tallies(b, b')
  BY LevelTallies DEF TallyInv, Level
<1>2. Len(outbox') <= MaxFrames
  <2>1. CASE outbox' = outbox
    BY <2>1 DEF TallyInv, BoundsOk
  <2>2. ASSUME Room, NEW f, outbox' = Append(outbox, f) PROVE Len(outbox') <= MaxFrames
    <3>0. outbox \in Seq(Frames \cup {f})
      <4>1. outbox \in Seq(Frames)
        BY DEF IInv, Typed
      <4> QED BY <4>1, SeqDef
    <3>1. outbox \in Seq(Frames \cup {f}) /\ Len(outbox) < MaxFrames /\ MaxFrames \in Nat
      BY <2>2, <3>0, BreakerAssumption DEF Room
    <3>2. Len(Append(outbox, f)) = Len(outbox) + 1 /\ Len(outbox) \in Nat
      BY <3>1, AppendProperties, LenProperties
    <3> QED BY <2>2, <3>1, <3>2
  <2> QED BY <2>1, <2>2
<1> QED BY <1>1, <1>2, TallyQuiet

\* Nothing the daemon does is counted.
LEMMA DaemonTally ==
    ASSUME IInv, TallyInv,
           \/ \E l \in Launches, superseded \in SUBSET Launches, p \in Processes : Spawn(l, superseded, p)
           \/ \E l \in Launches, p \in Processes : Rebind(l, p)
           \/ \E l \in Launches, reason \in {"spawn_error", "stale_dispatch", "other"} : RefuseStart(l, reason)
           \/ \E l \in Launches, p \in Processes : Respawn(l, p)
           \/ \E p \in Processes, kind \in {"terminal_failure", "turn_completed"} : EndTurn(p, kind)
           \/ \E p \in Processes : Exit(p)
           \/ Restart \/ Connect
    PROVE  TallyInv'
<1>0. starts \in [Launches -> StartRecords] /\ TokensAgree
  BY DEF IInv, Typed
<1>a. starts' = starts => TokensSpent
  BY DEF TokensSpent
<1>b. TokensKept => TokensSpent
  BY DEF TokensSpent, TokensKept
<1>1. ASSUME NEW l \in Launches, NEW superseded \in SUBSET Launches, NEW p \in Processes,
             Spawn(l, superseded, p)
      PROVE  TallyInv'
  <2>1. superseded \cup {l} \subseteq Out
    BY <1>1 DEF Spawn, Accepts
  <2>2. TokensKept
    BY <1>0, <1>1, <2>1, EndedFacts DEF Spawn
  <2> QED BY <1>b, <1>1, <2>2, TallyDaemon DEF Spawn, Queue
<1>2. ASSUME NEW l \in Launches, NEW p \in Processes, Rebind(l, p)
      PROVE  TallyInv'
  <2>1. {l} \subseteq Out
    BY <1>2 DEF Rebind, Accepts
  <2>2. TokensKept
    BY <1>0, <1>2, <2>1, EndedFacts DEF Rebind
  <2> QED BY <1>b, <1>2, <2>2, TallyDaemon DEF Rebind, Queue
<1>3. ASSUME NEW l \in Launches, NEW reason \in {"spawn_error", "stale_dispatch", "other"},
             RefuseStart(l, reason)
      PROVE  TallyInv'
  <2>1. {l} \subseteq Out
    BY <1>3 DEF RefuseStart
  <2>2. TokensKept
    BY <1>0, <1>3, <2>1, EndedFacts DEF RefuseStart
  <2> QED BY <1>b, <1>3, <2>2, TallyDaemon DEF RefuseStart, Queue
<1>4. ASSUME NEW l \in Launches, NEW p \in Processes, Respawn(l, p)
      PROVE  TallyInv'
  BY <1>a, <1>4, TallyDaemon DEF Respawn, Queue
<1>5. ASSUME NEW p \in Processes, NEW kind \in {"terminal_failure", "turn_completed"}, EndTurn(p, kind)
      PROVE  TallyInv'
  BY <1>a, <1>5, TallyDaemon DEF EndTurn, Queue
<1>6. ASSUME NEW p \in Processes, Exit(p)
      PROVE  TallyInv'
  BY <1>a, <1>6, TallyDaemon DEF Exit, Queue
<1>7. CASE Restart
  BY <1>a, <1>7, TallyDaemon DEF Restart
<1>8. CASE Connect
  BY <1>a, <1>8, TallyDaemon DEF Connect
<1> QED BY <1>1, <1>2, <1>3, <1>4, <1>5, <1>6, <1>7, <1>8

\* The steps of the record alone count nothing.
LEMMA RecordTally ==
    ASSUME IInv, TallyInv,
           \/ \E message, demand \in BOOLEAN : WakeRefused(message, demand)
           \/ \E i \in Instances : ObserveReady(i)
           \/ \E epoch \in 0..MaxLaunch, acked \in BOOLEAN : DeliverMarker(epoch, acked)
           \/ Lift \/ ManualStop \/ LeaseRunsOut \/ BackoffPasses
    PROVE  TallyInv'
<1>0. Shaped(b) /\ Probing(b) /\ Tallied(b)
  BY RecordOf DEF TallyInv
<1>a. Tallies(b, b)
  BY <1>0, LevelTallies DEF Level
<1>1. ASSUME NEW message \in BOOLEAN, NEW demand \in BOOLEAN, WakeRefused(message, demand)
      PROVE  TallyInv'
  <2>1. Tallies(b, b') /\ b'.epoch = b.epoch
    BY <1>0, <1>1, GateTallies, GateEvolves DEF WakeRefused, Evolves
  <2> QED BY <1>1, <2>1, TallyRecord DEF WakeRefused
<1>2. ASSUME NEW i \in Instances, ObserveReady(i)
      PROVE  TallyInv'
  <2>1. Tallies(b, b') /\ b'.epoch = b.epoch
    BY <1>0, <1>2, DaemonReadyTallies, DaemonReadyEvolves DEF ObserveReady, Evolves
  <2> QED BY <1>2, <2>1, TallyRecord DEF ObserveReady
<1>3. ASSUME NEW epoch \in 0..MaxLaunch, NEW acked \in BOOLEAN, DeliverMarker(epoch, acked)
      PROVE  TallyInv'
  <2>1. Tallies(b, b') /\ b'.epoch = b.epoch
    BY <1>0, <1>a, <1>3, EvidenceLostTallies, EvidenceLostEvolves DEF DeliverMarker, OutcomeMarker, Evolves
  <2> QED BY <1>3, <2>1, TallyRecord DEF DeliverMarker
<1>4. CASE Lift
  <2>1. Tallies(b, b') /\ b'.epoch = b.epoch
    BY <1>0, <1>4, LiftedTallies, LiftEvolves DEF Lift, Evolves
  <2> QED BY <1>4, <2>1, TallyRecord DEF Lift
<1>5. CASE ManualStop
  <2>1. Tallies(b, b') /\ b'.epoch = b.epoch
    BY <1>0, <1>5, ManuallyStoppedTallies, ManuallyStoppedEvolves DEF ManualStop, Evolves
  <2> QED BY <1>5, <2>1, TallyRecord DEF ManualStop
<1>6. CASE LeaseRunsOut
  <2>1. PICK r, s, c : r = b /\ s = b' /\ c = [r.cur EXCEPT !.lease = "past"]
    OBVIOUS
  <2>2. s = [r EXCEPT !.cur = c] /\ r.cur \in LaunchRecords
    BY <1>0, <1>6, <2>1 DEF LeaseRunsOut, Shaped
  <2>3. c.id = r.cur.id /\ c.terminal = r.cur.terminal
    BY <2>1, <2>2 DEF LaunchRecords
  <2>4. /\ s.cur = c /\ s.last = r.last /\ s.circuit = r.circuit /\ s.gen = r.gen /\ s.demand = r.demand
        /\ s.total = r.total /\ s.same = r.same /\ s.blocked = r.blocked /\ s.epoch = r.epoch
    BY <1>0, <2>1, <2>2 DEF Shaped
  <2>5. Tallied(r) /\ r.total <= r.total
    BY <1>0, <2>1 DEF Tallied
  <2>6. Tallied(s) /\ Within(s.cur, s.last, r)
    BY <2>3, <2>4, <2>5 DEF Tallied, Within, Unfailed
  <2>7. Tallies(r, s)
    BY <2>4, <2>5, <2>6 DEF Tallies
  <2> QED BY <1>6, <2>1, <2>4, <2>7, TallyRecord DEF LeaseRunsOut
<1>7. CASE BackoffPasses
  <2>1. PICK r, s : r = b /\ s = b' /\ s = [r EXCEPT !.blocked = FALSE]
    BY <1>7 DEF BackoffPasses
  <2>2. /\ s.cur = r.cur /\ s.last = r.last /\ s.circuit = r.circuit /\ s.gen = r.gen /\ s.demand = r.demand
        /\ s.total = r.total /\ s.same = r.same /\ s.blocked = FALSE /\ s.epoch = r.epoch
    BY <1>0, <2>1 DEF Shaped
  <2>3. Tallied(r) /\ r.total <= r.total
    BY <1>0, <2>1 DEF Tallied
  <2>4. Tallied(s) /\ Within(s.cur, s.last, r)
    BY <2>2, <2>3 DEF Tallied, Within
  <2>5. Tallies(r, s)
    BY <2>2, <2>3, <2>4 DEF Tallies
  <2> QED BY <1>7, <2>1, <2>2, <2>5, TallyRecord DEF BackoffPasses
<1> QED BY <1>1, <1>2, <1>3, <1>4, <1>5, <1>6, <1>7

\* A dispatch may settle the obligation and spends the token.
LEMMA DispatchTally ==
    ASSUME IInv, TallyInv, NEW l \in Launches, NEW settles \in BOOLEAN,
           NEW result \in {"sent", "doubt", "failed"}, Dispatch(l, settles, result)
    PROVE  TallyInv'
<1> DEFINE undo == CASE result = "sent" -> "no" [] result = "doubt" -> "left" [] OTHER -> "never"
           x == starts[l]
           token == IF result = "sent" THEN NoToken ELSE x.token
           phase == IF result = "failed" THEN "over" ELSE "out"
           on == IF result = "failed" THEN 0 ELSE conn
           y == [x EXCEPT !.phase = phase, !.on = on, !.token = token, !.undo = undo]
<1>0. Shaped(b) /\ Tallied(b) /\ starts \in [Launches -> StartRecords]
  BY DEF TallyInv, IInv, Typed
<1>1. Tallies(b, b') /\ b'.epoch = b.epoch /\ outbox' = outbox
  <2>1. b' = IF settles THEN [b EXCEPT !.owed = "none"] ELSE b
    BY DEF Dispatch
  <2>2. Level(b, b') /\ b'.epoch = b.epoch
    BY <1>0, <2>1 DEF Level, Shaped
  <2> QED BY <1>0, <2>2, LevelTallies DEF Dispatch
<1>2. /\ token \in {x.token, NoToken} /\ phase # "none" /\ x.phase # "none" /\ x \in StartRecords
  BY <1>0 DEF Dispatch
<1>3. starts' = [starts EXCEPT ![l] = y]
  BY <1>0, <1>2 DEF Dispatch, StartRecords
<1> HIDE DEF undo, token, phase, on
<1>4. y.phase = phase /\ y.token = token
  <2> HIDE DEF x
  <2> QED BY <1>2 DEF StartRecords
<1> HIDE DEF y
<1>5. starts'[l] = y /\ \A m \in Launches \ {l} : starts'[m] = starts[m]
  BY <1>0, <1>3
<1>6. TokensSpent
  BY <1>2, <1>4, <1>5 DEF TokensSpent
<1>7. Len(outbox') <= MaxFrames
  BY <1>1 DEF TallyInv, BoundsOk
<1> QED BY <1>1, <1>6, <1>7, TallyQuiet

\* A fold shortens the queue.
LEMMA FoldFrameTally ==
    ASSUME IInv, TallyInv, NEW k \in 1..MaxFrames, FoldFrame(k)
    PROVE  TallyInv'
<1>0. outbox \in Seq(Frames) /\ k \in 1..Len(outbox) /\ outbox' = RemoveAt(outbox, k) /\ Len(outbox) <= MaxFrames
  BY DEF IInv, Typed, FoldFrame, TallyInv, BoundsOk
<1>1. Len(outbox') <= MaxFrames
  <2> DEFINE u == SubSeq(outbox, 1, k - 1)
             v == SubSeq(outbox, k + 1, Len(outbox))
  <2>1. outbox' = u \o v
    BY <1>0 DEF RemoveAt
  <2>2. u \in Seq(Frames) /\ v \in Seq(Frames) /\ Len(u) = k - 1 /\ Len(v) = Len(outbox) - k
    BY <1>0
  <2> HIDE DEF u, v
  <2>3. Len(outbox') = Len(u) + Len(v)
    BY SMTT(40), <2>1, <2>2
  <2> QED BY <1>0, <2>2, <2>3, BreakerAssumption
<1>2. TokensSpent
  BY DEF TokensSpent, FoldFrame
<1>3. Tallies(b, b') /\ b'.epoch = b.epoch
  BY LevelTallies DEF TallyInv, Level, FoldFrame
<1> QED BY <1>1, <1>2, <1>3, TallyQuiet

\* A delivery counts at most the failure of the current launch.
LEMMA DeliverTally ==
    ASSUME IInv, TallyInv, NEW same \in BOOLEAN, NEW echo \in BOOLEAN, NEW acked \in BOOLEAN,
           Deliver(same, echo, acked)
    PROVE  TallyInv'
<1> DEFINE f == Head(outbox)
           r == IF b.judged THEN b ELSE Judged(b, f, same, echo)
<1>0. /\ Shaped(b) /\ Probing(b) /\ Tallied(b) /\ outbox \in Seq(Frames) /\ outbox # <<>> /\ f \in Frames
  BY RecordOf DEF TallyInv, IInv, Typed, Deliver
<1>1. b' = [r EXCEPT !.judged = ~acked] /\ starts' = starts /\ outbox' = IF acked THEN Tail(outbox) ELSE outbox
  BY DEF Deliver
<1>2. Shaped(r) /\ Tallies(b, r) /\ r.epoch = b.epoch
  <2>1. Tallies(b, b)
    BY <1>0, LevelTallies DEF Level
  <2>2. CASE b.judged
    BY <1>0, <2>1, <2>2
  <2>3. CASE ~b.judged
    BY <1>0, <2>3, JudgedTallies, JudgedFacts
  <2> QED BY <2>2, <2>3
<1> HIDE DEF r
<1>3. Level(r, b') /\ b'.epoch = r.epoch
  BY <1>1, <1>2 DEF Level, Shaped
<1>4. Len(outbox') <= MaxFrames
  <2>1. Len(outbox) <= MaxFrames /\ MaxFrames \in Nat
    BY BreakerAssumption DEF TallyInv, BoundsOk
  <2> QED BY <1>0, <1>1, <2>1
<1>5. TokensSpent
  BY <1>1 DEF TokensSpent
<1> QED BY <1>2, <1>3, <1>4, <1>5, TalliesLevel, TallyQuiet

\* A lost record has nothing counted.
LEMMA RecordUnreadableTally ==
    ASSUME IInv, TallyInv, RecordUnreadable
    PROVE  TallyInv'
<1>1. PICK s : s = b'
  OBVIOUS
<1>2. /\ s.circuit = "closed" /\ s.cur = NoLaunch /\ s.last = NoLaunch /\ s.gen = 1 /\ s.total = 0
      /\ s.same = 0 /\ s.blocked = FALSE /\ s.epoch = 0 /\ s.demand = NoDemand
  <2>1. s = [FreshRecord EXCEPT !.owed = "failure", !.marksLost = TRUE]
    BY <1>1 DEF RecordUnreadable, UnreadableRecord
  <2> QED BY <2>1 DEF FreshRecord
<1>3. Within(NoLaunch, NoLaunch, b)
  BY NoneTyped DEF Within, Unfailed
<1>4. b.total \in Nat
  BY DEF TallyInv, Tallied
<1>5. Tallied(s)
  <2>1. s.total \in Nat /\ s.same \in 0..s.total /\ s.gen # 0
    BY <1>2
  <2> QED BY <1>2, <2>1, NoneTyped DEF Tallied
<1>6. s.total <= b.total /\ s.demand.claimed = -1
  BY <1>2, <1>4, NoneTyped
<1>7. Tallies(b, s)
  BY <1>2, <1>3, <1>5, <1>6 DEF Tallies
<1> QED BY <1>1, <1>2, <1>7, TallyRecord DEF RecordUnreadable

\* A rollback spends its token and may make its previous launch current again.
LEMMA RollbackTally ==
    ASSUME IInv, TallyInv, IInv', NEW l \in Launches, Rollback(l)
    PROVE  TallyInv'
<1> DEFINE x == starts[l]
           y == [x EXCEPT !.undo = "no", !.token = NoToken]
<1>0. /\ Shaped(b) /\ Probing(b) /\ Tallied(b) /\ starts \in [Launches -> StartRecords] /\ x \in StartRecords
  BY RecordOf DEF TallyInv, IInv, Typed
<1>1. x.token \in Tokens /\ x.token.launch = l
  BY <1>0 DEF StartRecords, IInv, TokensAgree, Rollback
<1>2. /\ b' = RolledBack(b, x.token, x.undo = "left") /\ outbox' = outbox
  BY DEF Rollback
<1>3. starts' = [starts EXCEPT ![l] = y]
  BY <1>0 DEF Rollback, StartRecords
<1>4. y.phase = x.phase /\ y.token = NoToken
  <2> HIDE DEF x
  <2> QED BY <1>0 DEF StartRecords
<1> HIDE DEF y
<1>5. /\ starts'[l].phase = starts[l].phase /\ starts'[l].token = NoToken
      /\ \A m \in Launches \ {l} : starts'[m] = starts[m]
  BY <1>0, <1>3, <1>4
<1> HIDE DEF x
<1>6. PICK r, s, P, Q, K, pr :
        /\ r = b /\ s = b' /\ K = Known /\ pr = x.token.previous
        /\ P = [m \in Launches |-> Previous(m)] /\ Q = [m \in Launches |-> Previous(m)']
  OBVIOUS
<1>7. /\ P[l] = pr /\ Q[l] = NoLaunch /\ \A m \in Launches \ {l} : Q[m] = P[m]
      /\ K = Known'
  BY <1>5, <1>6 DEF Previous, NoToken, x, Known, Launches
<1>8. \A m \in Launches :
        /\ P[m].id \in {r.cur.id, r.last.id} => P[m].id = 0
        /\ \A n \in Launches : m # n /\ P[m].id = P[n].id => P[m].id = 0
  BY <1>6 DEF TallyInv, ApartOk
<1>9. /\ Tallied(s) /\ s.total <= r.total /\ s.demand.claimed \in {r.demand.claimed, 0}
      /\ Within(s.cur, s.last, r) \/ (s.cur = pr /\ s.last = r.last)
  <2>1. pr.id \in {r.cur.id, r.last.id} => pr.id = 0
    BY <1>7, <1>8
  <2> QED BY <1>0, <1>1, <1>2, <1>6, <2>1, RolledBackTallies
<1>10. s.epoch = r.epoch /\ Tallied(r) /\ Tallied(s)
  <2>1. b.cur \in Remembered
    BY DEF Remembered
  <2>2. b.cur.id = x.token.launch => b.cur.probe = x.token.probe
    BY <1>1, <2>1 DEF IInv, TokensAgree, x
  <2>3. b'.epoch = b.epoch
    BY <1>0, <1>1, <1>2, <2>2, RolledBackFacts
  <2> QED BY <1>0, <1>6, <1>9, <2>3
<1>11. ApartOk'
  <2>1. \A m \in Launches :
          /\ Q[m].id \in {s.cur.id, s.last.id} => Q[m].id = 0
          /\ \A n \in Launches : m # n /\ Q[m].id = Q[n].id => Q[m].id = 0
    <3>1. /\ s.cur.id \in {0, pr.id, r.cur.id, r.last.id} /\ s.last.id \in {0, r.cur.id, r.last.id}
      BY <1>9 DEF Within
    <3> QED BY <1>7, <1>8, <3>1, NoneTyped
  <2> QED BY <1>6, <2>1 DEF ApartOk
<1>12. CountedOk'
  <2>1. PICK C \in SUBSET Known :
          b.total <= Cardinality(C) /\ \A z \in Remembered : Unfailed(z) => z.id \notin C
    BY DEF TallyInv, CountedOk
  <2>2. r.cur \in Remembered /\ r.last \in Remembered /\ \A m \in Launches : P[m] \in Remembered
    BY <1>6 DEF Remembered, Previous
  <2>3. Cardinality(C) \in Nat
    BY KnownFinite
  <2>4. s.total <= Cardinality(C)
    BY <1>6, <1>9, <1>10, <2>1, <2>3 DEF Tallied
  <2>5. \A z \in {s.cur, s.last} : Unfailed(z) => z.id \notin C
    BY <1>7, <1>9, <2>1, <2>2 DEF Within
  <2>6. \A m \in Launches : Unfailed(Q[m]) => Q[m].id \notin C
    BY <1>7, <2>1, <2>2, NoneTyped DEF Unfailed
  <2>7. ASSUME NEW z \in Remembered' PROVE Unfailed(z) => z.id \notin C
    <3>1. z \in {s.cur, s.last} \/ \E m \in Launches : z = Q[m]
      BY <1>6, <2>7 DEF Remembered, Previous
    <3> QED BY <2>5, <2>6, <3>1
  <2> QED BY <1>6, <1>7, <2>1, <2>4, <2>7 DEF CountedOk
<1>13. BoundsOk'
  <2>1. /\ r.epoch <= Cardinality(K) /\ r.demand.claimed <= Cardinality(K) /\ Cardinality(K) \in Nat
        /\ Len(outbox) <= MaxFrames
    BY <1>6, KnownFinite DEF TallyInv, BoundsOk
  <2>2. s.demand.claimed <= Cardinality(K)
    BY <1>9, <2>1
  <2> QED BY <1>2, <1>6, <1>7, <1>10, <2>1, <2>2 DEF BoundsOk
<1> QED BY <1>6, <1>9, <1>11, <1>12, <1>13 DEF TallyInv

\* A claim counts nothing and mints the launch it makes current; the launch
\* it replaces moves to its token.
LEMMA ClaimTally ==
    ASSUME IInv, TallyInv, IInv', NEW i \in Instances, NEW human \in BOOLEAN, NEW demand \in BOOLEAN,
           Claim(i, human, demand)
    PROVE  TallyInv'
<1> DEFINE l == Cardinality(Known) + 1
           token == TokenOf(b, l, human)
           new == [phase |-> "claimed", human |-> human, on |-> 0, epoch |-> b'.epoch,
                   undo |-> "no", token |-> token]
<1>0. Shaped(b) /\ Probing(b) /\ Tallied(b) /\ starts \in [Launches -> StartRecords]
  BY RecordOf DEF TallyInv, IInv, Typed
<1>1. l \in Nat /\ l # 0 /\ l \notin Known /\ Cardinality(Known) \in Nat
  BY KnownFinite
<1>2. /\ l \in Launches /\ b' = Claimed(b, l, i, human, demand)
      /\ starts' = [starts EXCEPT ![l] = new]
      /\ human \/ Refusal(Normalize(b)).refusal = "none"
      /\ outbox' = outbox
  BY Zenon DEF Claim
<1>a. PICK k : k = l
  OBVIOUS
<1>b. Cardinality(Known) = k - 1 /\ k \in Nat /\ k # 0 /\ k \notin Known /\ k \in Launches
  BY <1>1, <1>2, <1>a
<1>3. /\ b'.cur.id = k /\ b'.demand.claimed \in {-1, k}
  <2>1. /\ b'.cur.id = l
        /\ b'.demand = IF b.demand = NoDemand /\ (human \/ ~demand) THEN NoDemand
                       ELSE [claimed |-> l, fresh |-> FALSE]
    BY <1>0, <1>1, <1>2, ClaimedFacts
  <2>2. PICK d : d = b'.demand
    OBVIOUS
  <2>3. d = NoDemand \/ d = [claimed |-> k, fresh |-> FALSE]
    BY <1>a, <2>1, <2>2
  <2>4. d.claimed \in {-1, k}
    BY <2>3, NoneTyped
  <2> QED BY <1>a, <2>1, <2>2, <2>4
<1>4. b.cur.id \in Known \cup {0} /\ b.last.id \in Known \cup {0}
  BY DEF IInv, TokensAgree, Remembered
<1>5. /\ Tallied(b') /\ b'.total <= b.total /\ b'.epoch <= b.epoch + 1 /\ Within(token.previous, b'.last, b)
  <2>1. l \notin {b.cur.id, b.last.id}
    BY <1>1, <1>4
  <2> QED BY <1>0, <1>1, <1>2, <2>1, ClaimedTallies
<1> HIDE DEF l, token
<1>6. /\ starts'[k] = new /\ \A m \in Launches \ {k} : starts'[m] = starts[m]
  BY <1>0, <1>2, <1>a
<1>7. new.phase = "claimed" /\ new.token = token
  OBVIOUS
<1> HIDE DEF new
<1>8. PICK r, s, P, Q, pr :
        /\ r = b /\ s = b' /\ pr = token.previous
        /\ P = [m \in Launches |-> Previous(m)] /\ Q = [m \in Launches |-> Previous(m)']
  OBVIOUS
<1>9. Q[k] = pr /\ \A m \in Launches \ {k} : Q[m] = P[m]
  BY <1>b, <1>6, <1>7, <1>8 DEF Previous
<1>10. Known' = Known \cup {k} /\ Cardinality(Known') = k
  <2>1. Known' = Known \cup {k}
    BY <1>b, <1>6, <1>7 DEF Known, Launches
  <2>2. Cardinality(Known \cup {k}) = Cardinality(Known) + 1
    BY <1>b, KnownFinite
  <2> QED BY <1>b, <2>1, <2>2
<1>11. \A m \in Launches :
        /\ P[m].id \in {r.cur.id, r.last.id} => P[m].id = 0
        /\ \A n \in Launches : m # n /\ P[m].id = P[n].id => P[m].id = 0
        /\ P[m].id \in Known \cup {0}
  BY <1>8 DEF TallyInv, ApartOk, IInv, TokensAgree, Remembered, Previous
<1>12. /\ pr.id \in {0, r.cur.id, r.last.id} /\ s.last.id \in {0, r.cur.id, r.last.id}
       /\ pr.id = s.last.id => pr.id = 0
       /\ \A z \in {pr, s.last} : Unfailed(z) => \E w \in {r.cur, r.last} : w.id = z.id /\ Unfailed(w)
  BY <1>5, <1>8 DEF Within
<1>13. ApartOk'
  <2>1. s.cur.id = k /\ k \notin {r.cur.id, r.last.id, 0}
    BY <1>b, <1>3, <1>4, <1>8
  <2>2. \A m \in Launches : k # P[m].id
    BY <1>b, <1>11
  <2>3. \A m \in Launches :
          /\ Q[m].id \in {s.cur.id, s.last.id} => Q[m].id = 0
          /\ \A n \in Launches : m # n /\ Q[m].id = Q[n].id => Q[m].id = 0
    BY <1>9, <1>11, <1>12, <2>1, <2>2
  <2> QED BY <1>8, <2>3 DEF ApartOk
<1>14. CountedOk'
  <2>1. PICK C \in SUBSET Known :
          b.total <= Cardinality(C) /\ \A z \in Remembered : Unfailed(z) => z.id \notin C
    BY DEF TallyInv, CountedOk
  <2>2. r.cur \in Remembered /\ r.last \in Remembered /\ \A m \in Launches : P[m] \in Remembered
    BY <1>8 DEF Remembered, Previous
  <2>3. Cardinality(C) \in Nat
    BY KnownFinite
  <2>4. s.total <= Cardinality(C)
    BY <1>0, <1>5, <1>8, <2>1, <2>3 DEF Tallied
  <2>5. \A z \in {s.cur, s.last, pr} : Unfailed(z) => z.id \notin C
    BY <1>b, <1>3, <1>8, <1>12, <2>1, <2>2
  <2>6. \A m \in Launches : Unfailed(Q[m]) => Q[m].id \notin C
    BY <1>9, <2>1, <2>2, <2>5
  <2>7. ASSUME NEW z \in Remembered' PROVE Unfailed(z) => z.id \notin C
    <3>1. z \in {s.cur, s.last} \/ \E m \in Launches : z = Q[m]
      BY <1>8, <2>7 DEF Remembered, Previous
    <3> QED BY <2>5, <2>6, <3>1
  <2>8. C \in SUBSET Known' /\ b'.total <= Cardinality(C)
    BY <1>8, <1>10, <2>1, <2>4
  <2> QED BY <2>7, <2>8 DEF CountedOk
<1>15. BoundsOk'
  <2>1. /\ b.epoch <= k - 1 /\ b.epoch \in Nat /\ Len(outbox) <= MaxFrames
    BY <1>0, <1>b DEF TallyInv, BoundsOk, Shaped
  <2>2. b'.epoch <= k
    <3>1. b'.epoch \in Nat
      BY DEF IInv, Typed, Shaped
    <3> QED BY <1>b, <1>5, <2>1, <3>1
  <2>3. b'.demand.claimed <= k
    BY <1>b, <1>3
  <2> QED BY <1>2, <1>10, <2>1, <2>2, <2>3 DEF BoundsOk
<1> QED BY <1>5, <1>13, <1>14, <1>15 DEF TallyInv

\* Initially nothing is counted.
LEMMA InitTally == ASSUME Init PROVE TallyInv
<1>1. PICK r : r = FreshRecord
  OBVIOUS
<1>2. /\ r.circuit = "closed" /\ r.cur = NoLaunch /\ r.last = NoLaunch /\ r.gen = 1 /\ r.total = 0
      /\ r.same = 0 /\ r.blocked = FALSE /\ r.epoch = 0 /\ r.demand = NoDemand /\ b = r
  BY <1>1 DEF FreshRecord, Init
<1>3. Tallied(b)
  <2>1. r.total \in Nat /\ r.same \in 0..r.total /\ r.gen # 0
    BY <1>2
  <2> QED BY <1>2, <2>1, NoneTyped DEF Tallied
<1>4. /\ \A l \in Launches : Previous(l) = NoLaunch
      /\ Known = {} /\ outbox = <<>>
  BY DEF Init, Previous, NoStart, NoToken, Known
<1>5. ApartOk
  BY <1>4, NoneTyped DEF ApartOk
<1>6. Cardinality({}) = 0
  BY FS_EmptySet
<1>7. CountedOk
  <2>1. {} \in SUBSET Known /\ b.total <= Cardinality({})
    BY <1>2, <1>6
  <2>2. \A x \in Remembered : Unfailed(x) => x.id \notin {}
    OBVIOUS
  <2> QED BY <2>1, <2>2 DEF CountedOk
<1>8. BoundsOk
  <2>1. b.demand.claimed = -1 /\ Cardinality(Known) = 0 /\ Len(outbox) = 0 /\ MaxFrames \in Nat
    BY <1>2, <1>4, <1>6, NoneTyped, BreakerAssumption
  <2> QED BY <1>2, <2>1 DEF BoundsOk
<1> QED BY <1>3, <1>5, <1>7, <1>8 DEF TallyInv

\* Every step keeps the counts.
LEMMA NextTally ==
    ASSUME IInv, TallyInv, IInv', [Next]_vars
    PROVE  TallyInv'
<1>1. CASE UNCHANGED vars
  <2>1. Tallies(b, b')
    BY <1>1, LevelTallies DEF TallyInv, Level, vars
  <2> QED BY <1>1, <2>1, TallyRecord DEF vars
<1>2. ASSUME NEW message \in BOOLEAN, NEW demand \in BOOLEAN, WakeRefused(message, demand)
      PROVE  TallyInv'
  BY <1>2, RecordTally
<1>3. ASSUME NEW i \in Instances, NEW human \in BOOLEAN, NEW demand \in BOOLEAN, Claim(i, human, demand)
      PROVE  TallyInv'
  BY <1>3, ClaimTally
<1>4. ASSUME NEW l \in Launches, NEW settles \in BOOLEAN, NEW result \in {"sent", "doubt", "failed"},
             Dispatch(l, settles, result)
      PROVE  TallyInv'
  BY <1>4, DispatchTally
<1>5. ASSUME NEW l \in Launches, Rollback(l)
      PROVE  TallyInv'
  BY <1>5, RollbackTally
<1>6. ASSUME NEW same \in BOOLEAN, NEW echo \in BOOLEAN, NEW acked \in BOOLEAN, Deliver(same, echo, acked)
      PROVE  TallyInv'
  BY <1>6, DeliverTally
<1>7. ASSUME NEW k \in 1..MaxFrames, FoldFrame(k)
      PROVE  TallyInv'
  BY <1>7, FoldFrameTally
<1>8. ASSUME RecordUnreadable
      PROVE  TallyInv'
  BY <1>8, RecordUnreadableTally
<1> QED BY <1>1, <1>2, <1>3, <1>4, <1>5, <1>6, <1>7, <1>8, DaemonTally, RecordTally DEF Next

\* Fewer counted failures than minted launches.
LEMMA CountedFew ==
    ASSUME IInv, TallyInv
    PROVE  /\ b.total \in 0..MaxLaunch /\ b.same \in 0..b.total
           /\ b.epoch \in 0..MaxLaunch /\ b.demand.claimed \in -1..MaxLaunch
           /\ b.gen \in Nat \ {0} /\ (b.circuit = "closed" => ~b.blocked)
           /\ b.circuit \in {"closed", "open", "half_open"}
           /\ Len(outbox) <= MaxFrames /\ heard \in 0..2
<1>1. Cardinality(Known) \in 0..MaxLaunch /\ MaxLaunch \in Nat
  BY KnownFinite, BreakerAssumption
<1>2. Tallied(b) /\ Shaped(b)
  BY DEF TallyInv, IInv, Typed
<1>3. PICK C \in SUBSET Known : b.total <= Cardinality(C)
  BY DEF TallyInv, CountedOk
<1>4. Cardinality(C) \in Nat /\ Cardinality(C) <= Cardinality(Known)
  BY KnownFinite
<1>5. b.total \in 0..MaxLaunch /\ b.same \in 0..b.total
  BY <1>1, <1>2, <1>3, <1>4 DEF Tallied
<1>6. b.epoch \in 0..MaxLaunch
  BY <1>1, <1>2 DEF Shaped, TallyInv, BoundsOk
<1>7. b.demand.claimed \in -1..MaxLaunch
  <2>1. b.demand.claimed \in Nat \cup {-1}
    <3>1. PICK d : d = b.demand /\ d \in Demands
      BY <1>2 DEF Shaped
    <3>2. d = NoDemand \/ d.claimed \in Nat
      BY <3>1 DEF Demands
    <3> QED BY <3>1, <3>2, NoneTyped
  <2>2. b.demand.claimed <= Cardinality(Known)
    BY DEF TallyInv, BoundsOk
  <2> QED BY <1>1, <2>1, <2>2
<1>8. heard \in 0..2 /\ Len(outbox) <= MaxFrames
  BY DEF IInv, Typed, TallyInv, BoundsOk
<1> QED BY <1>2, <1>5, <1>6, <1>7, <1>8 DEF Tallied, Shaped

\* The record keeps its types, no process is listed twice among those without
\* an exit, the failures counted are failures of different launches, and the
\* list and the queue stay within their limits, for any number of launches,
\* instances, processes, faults, frames and entries.
THEOREM BreakerTypeCorrect == Spec => []BreakerTypeOK
<1> DEFINE Inv == IInv /\ DaemonInv /\ ListInv /\ TallyInv
<1>1. Init => Inv
  BY InitIInv, InitDaemon, InitList, InitTally
<1>2. Inv /\ [Next]_vars => Inv'
  <2> SUFFICES ASSUME Inv, [Next]_vars PROVE Inv'
    OBVIOUS
  <2>1. IInv' /\ DaemonInv' /\ ListInv'
    BY NextIInv, NextDaemon, NextList
  <2> QED BY <2>1, NextTally
<1>3. Inv => BreakerTypeOK
  <2> SUFFICES ASSUME Inv PROVE BreakerTypeOK
    OBVIOUS
  <2>1. /\ Len(b.unexited) <= UnexitedMax
        /\ \A j, k \in DOMAIN b.unexited : j # k => Triple(b.unexited[j]) # Triple(b.unexited[k])
    BY DEF ListInv, ListOk, Listed
  <2>2. ASSUME NEW x, NEW y, Triple(x) # Triple(y)
        PROVE  Key(x) # Key(y) \/ x.proc # y.proc
    <3>1. PICK d, e : d = Key(x) /\ e = Key(y)
      OBVIOUS
    <3>2. d[1] = x.spawn /\ d[2] = x.inst /\ e[1] = y.spawn /\ e[2] = y.inst
      BY <3>1 DEF Key
    <3> QED BY <2>2, <3>1, <3>2 DEF Triple
  <2>3. \A j, k \in DOMAIN b.unexited : j # k =>
          \/ Key(b.unexited[j]) # Key(b.unexited[k])
          \/ b.unexited[j].proc # b.unexited[k].proc
    BY <2>1, <2>2
  <2>4. /\ b.total \in 0..MaxLaunch /\ b.same \in 0..b.total
        /\ b.epoch \in 0..MaxLaunch /\ b.demand.claimed \in -1..MaxLaunch
        /\ b.gen \in Nat \ {0} /\ (b.circuit = "closed" => ~b.blocked)
        /\ b.circuit \in {"closed", "open", "half_open"}
        /\ Len(outbox) <= MaxFrames /\ heard \in 0..2
    BY CountedFew
  <2> QED BY <2>1, <2>3, <2>4 DEF BreakerTypeOK
<1> QED BY <1>1, <1>2, <1>3, PTL DEF Spec
=============================================================================
