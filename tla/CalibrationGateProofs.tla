------------------------ MODULE CalibrationGateProofs ------------------------
(***************************************************************************)
(* What CalibrationGate's run checks on a small instance, proved for every *)
(* value of the constants that GateAssumption admits.                      *)
(***************************************************************************)
EXTENDS CalibrationGate, FiniteSetTheorems, SequenceTheorems, TLAPS

(***************************************************************************)
(* The inductive invariant.                                                *)
(***************************************************************************)
GateStates == [samples : [Keys -> Seq(Samples)], seen : [Keys -> SUBSET Episodes],
               status : [Keys -> Statuses]]

\* The samples counted are those of the episodes seen, one each.
Counts(g) ==
    \A k \in Keys : /\ g.seen[k] = EpisodesOf(g, k)
                    /\ IsFiniteSet(g.seen[k])
                    /\ Len(g.samples[k]) = Cardinality(g.seen[k])

\* The time a status was first observed is that of the first sample, so a gate is no
\* older than its samples.
Ages(g, t) ==
    \A k \in Keys :
        /\ g.status[k].first # 0 =>
             Len(g.samples[k]) > 0 /\ g.status[k].first = g.samples[k][1].at
        /\ g.status[k].unlocked =>
             Len(g.samples[k]) >= MinCycles /\ t - g.samples[k][1].at >= MinAge

GateOK(g, t) == g \in GateStates /\ Counts(g) /\ Ages(g, t)

Extends(g, h) == \A k \in Keys : IsPrefix(g.samples[k], h.samples[k])

\* An open episode is of the pair it is filed under, and the only one of its market.
Episodic(f) ==
    /\ f \in [DOMAIN f -> Episodes] /\ DOMAIN f \in SUBSET Pairs
    /\ \A p \in DOMAIN f : f[p].market = p[1] /\ f[p].direction = p[2]
    /\ \A p, q \in DOMAIN f : p[1] = q[1] => p = q

CycleType ==
    /\ now \in Times /\ cycleNow \in Times /\ cycleNow <= now
    /\ pc \in {"idle", "scanning"} /\ todo \in SUBSET Markets
    /\ sequence \in 0 .. MaxEpisodes
    /\ logged \in SUBSET Samples
    /\ crashes \in 0 .. MaxCrashes

IInv ==
    /\ CycleType
    /\ Episodic(active)
    /\ GateOK(gates, cycleNow) /\ GateOK(disk, cycleNow)
    /\ Extends(disk, gates)

-----------------------------------------------------------------------------
(* Sequences of samples that grow.                                         *)

\* A prefix agrees with the sequence wherever it is defined.
LEMMA PrefixMeaning ==
  ASSUME NEW V, NEW s \in Seq(V), NEW t \in Seq(V)
  PROVE  IsPrefix(s, t) <=> Len(s) <= Len(t) /\ \A i \in 1 .. Len(s) : s[i] = t[i]
<1>1. Len(s) \in Nat /\ Len(t) \in Nat /\ Len(s) <= Len(s)
  OBVIOUS
<1>2. SubSeq(s, 1, Len(s)) = [i \in 1 .. Len(s) |-> s[i]]
  BY <1>1, SubSeqRestrict DEF Restrict
<1>3. ASSUME Len(s) <= Len(t)
      PROVE  SubSeq(t, 1, Len(s)) = [i \in 1 .. Len(s) |-> t[i]]
  BY <1>1, <1>3, SubSeqRestrict DEF Restrict
<1> QED BY <1>1, <1>2, <1>3 DEF IsPrefix

\* Every sequence is a prefix of itself, and stays one of what is appended to it.
LEMMA ExtendsItself ==
  ASSUME NEW g \in GateStates
  PROVE  Extends(g, g)
BY PrefixMeaning DEF Extends, GateStates

\* Extending is transitive.
LEMMA ExtendsTransitive ==
  ASSUME NEW f \in GateStates, NEW g \in GateStates, NEW h \in GateStates,
         Extends(f, g), Extends(g, h)
  PROVE  Extends(f, h)
<1> SUFFICES ASSUME NEW k \in Keys PROVE IsPrefix(f.samples[k], h.samples[k])
  BY DEF Extends
<1> DEFINE s == f.samples[k]
           t == g.samples[k]
           u == h.samples[k]
<1>1. s \in Seq(Samples) /\ t \in Seq(Samples) /\ u \in Seq(Samples)
  BY DEF GateStates
<1>2. IsPrefix(s, t) /\ IsPrefix(t, u)
  BY DEF Extends
<1> HIDE DEF s, t, u
<1>3. IsPrefix(s, u)
  BY <1>1, <1>2, PrefixMeaning
<1> QED BY <1>3 DEF s, u

-----------------------------------------------------------------------------
(* What the operations of GateState keep.                                  *)

\* A relock touches no sample and leaves every time of observation.
LEMMA RelockKeeps ==
  ASSUME NEW g, NEW t, GateOK(g, t), NEW K \in SUBSET Keys, NEW reason \in Reasons
  PROVE  GateOK(Relock(g, K, reason), t) /\ Extends(g, Relock(g, K, reason))
<1> DEFINE h == Relock(g, K, reason)
<1>1. g \in GateStates /\ Counts(g) /\ Ages(g, t)
  BY DEF GateOK
<1>2. \A k \in Keys : StatusOf(g, k) \in Statuses
                      /\ (StatusOf(g, k).first # 0 => StatusOf(g, k).first = g.status[k].first)
  BY <1>1 DEF StatusOf, GateStates, Statuses, NoStatus, DefaultStatus, Reasons
<1> DEFINE st == [k \in Keys |->
                    IF k \in K THEN [StatusOf(g, k) EXCEPT !.unlocked = FALSE, !.reason = reason]
                    ELSE g.status[k]]
<1>3. h = [g EXCEPT !.status = st]
  BY DEF Relock
<1>4. \A k \in Keys : /\ st[k] \in Statuses
                      /\ st[k].first # 0 => st[k].first = g.status[k].first
                      /\ st[k].unlocked => st[k] = g.status[k]
  <2> SUFFICES ASSUME NEW k \in Keys
               PROVE  /\ st[k] \in Statuses
                      /\ st[k].first # 0 => st[k].first = g.status[k].first
                      /\ st[k].unlocked => st[k] = g.status[k]
    OBVIOUS
  <2>1. StatusOf(g, k) \in Statuses /\ g.status[k] \in Statuses
    BY <1>1, <1>2 DEF GateStates
  <2>2. CASE k \in K
    <3>1. st[k] = [StatusOf(g, k) EXCEPT !.unlocked = FALSE, !.reason = reason]
      BY <2>2
    <3> QED BY <1>2, <2>1, <3>1 DEF Statuses
  <2>3. CASE k \notin K
    BY <2>1, <2>3
  <2> QED BY <2>2, <2>3
<1>5. st = [k \in Keys |-> st[k]]
  OBVIOUS
<1> HIDE DEF st, h
<1>6. /\ h \in GateStates /\ h.samples = g.samples /\ h.seen = g.seen /\ h.status = st
  BY <1>1, <1>3, <1>4, <1>5 DEF GateStates
<1>7. Counts(h)
  BY <1>1, <1>6 DEF Counts, EpisodesOf
<1>8. Ages(h, t)
  BY <1>1, <1>4, <1>6 DEF Ages, GateStates
<1>9. Extends(g, h)
  BY <1>1, <1>6, ExtendsItself DEF Extends
<1> QED BY <1>6, <1>7, <1>8, <1>9 DEF GateOK, h

\* A sample counts once: record takes it and its episode, or leaves all as it is.
LEMMA RecordKeeps ==
  ASSUME NEW g, NEW t, GateOK(g, t), NEW k \in Keys, NEW s \in Samples
  PROVE  /\ GateOK(Record(g, k, s), t) /\ Extends(g, Record(g, k, s))
         /\ Len(Record(g, k, s).samples[k]) > 0
<1> DEFINE h == Record(g, k, s)
           q == g.samples[k]
<1>1. g \in GateStates /\ Counts(g) /\ Ages(g, t)
  BY DEF GateOK
<1>2. q \in Seq(Samples) /\ Len(q) \in Nat /\ s.episode \in Episodes
  <2>1. q \in Seq(Samples)
    BY <1>1 DEF GateStates
  <2>2. s.episode \in Episodes
    BY DEF Samples
  <2> QED BY <2>1, <2>2
<1>3. CASE ~IsNewSample(g, k, s)
  <2>1. h = g
    BY <1>3 DEF Record
  <2>2. s.episode \in {x.episode : x \in Range(q)}
    BY <1>1, <1>3 DEF IsNewSample, Counts, EpisodesOf
  <2>3. Len(q) > 0
    BY <1>2, <2>2 DEF Range
  <2> QED BY <1>1, <2>1, <2>3, ExtendsItself
<1>4. CASE IsNewSample(g, k, s)
  <2> DEFINE a == Append(q, s)
             S == g.seen[k]
  <2>1. h = [g EXCEPT !.seen[k] = S \union {s.episode}, !.samples[k] = a]
    BY <1>4 DEF Record
  <2>2. /\ a \in Seq(Samples) /\ Len(a) = Len(q) + 1
        /\ \A i \in 1 .. Len(q) : a[i] = q[i]
        /\ a[Len(q) + 1] = s
    BY <1>2, AppendProperties
  <2>3. s.episode \notin S /\ S \in SUBSET Episodes
    BY <1>1, <1>4 DEF IsNewSample, GateStates
  <2>4. /\ S = EpisodesOf(g, k) /\ IsFiniteSet(S) /\ Len(q) = Cardinality(S)
    BY <1>1 DEF Counts
  <2>5. {x.episode : x \in Range(a)} = {x.episode : x \in Range(q)} \union {s.episode}
    <3>1. DOMAIN a = 1 .. (Len(q) + 1) /\ DOMAIN q = 1 .. Len(q)
      BY <1>2, <2>2
    <3> HIDE DEF a, q
    <3>2. Range(a) = Range(q) \union {s}
      BY <1>2, <2>2, <3>1 DEF Range
    <3> QED BY <3>2
  <2> HIDE DEF a, S, h
  <2>6. /\ h \in GateStates /\ h.status = g.status
        /\ h.samples[k] = a /\ h.seen[k] = S \union {s.episode}
        /\ \A j \in Keys : j # k => h.samples[j] = g.samples[j] /\ h.seen[j] = g.seen[j]
    BY <1>1, <1>2, <2>1, <2>2, <2>3 DEF GateStates
  <2>7. Counts(h)
    <3>1. IsFiniteSet(S \union {s.episode}) /\ Cardinality(S \union {s.episode}) = Cardinality(S) + 1
      BY <2>3, <2>4, FS_AddElement
    <3>2. EpisodesOf(h, k) = S \union {s.episode}
      BY <2>4, <2>5, <2>6 DEF EpisodesOf
    <3>3. \A j \in Keys : j # k => EpisodesOf(h, j) = EpisodesOf(g, j)
      BY <2>6 DEF EpisodesOf
    <3> QED BY <1>1, <2>2, <2>4, <2>6, <3>1, <3>2, <3>3 DEF Counts
  <2>8. Ages(h, t)
    <3>1. \A j \in Keys : Len(g.samples[j]) > 0 =>
            Len(h.samples[j]) > 0 /\ h.samples[j][1] = g.samples[j][1]
      BY <1>2, <2>2, <2>6
    <3>2. \A j \in Keys : Len(h.samples[j]) >= Len(g.samples[j]) /\ Len(g.samples[j]) \in Nat
                          /\ Len(h.samples[j]) \in Nat
      BY <1>1, <1>2, <2>2, <2>6 DEF GateStates
    <3>3. MinCycles \in Nat \ {0}
      BY GateAssumption
    <3> QED BY <1>1, <2>6, <3>1, <3>2, <3>3 DEF Ages
  <2>9. Extends(g, h)
    <3> SUFFICES ASSUME NEW j \in Keys PROVE IsPrefix(g.samples[j], h.samples[j])
      BY DEF Extends
    <3>1. g.samples[j] \in Seq(Samples) /\ h.samples[j] \in Seq(Samples)
      BY <1>1, <2>6 DEF GateStates
    <3>2. Len(g.samples[j]) <= Len(h.samples[j])
          /\ \A i \in 1 .. Len(g.samples[j]) : g.samples[j][i] = h.samples[j][i]
      BY <1>2, <2>2, <2>6, <3>1
    <3> QED BY <3>1, <3>2, PrefixMeaning
  <2> QED BY <1>2, <2>2, <2>6, <2>7, <2>8, <2>9 DEF GateOK, h
<1> QED BY <1>3, <1>4

\* An evaluation opens a gate on nothing but its samples, and takes the time of the
\* first one for the time it was first observed.
LEMMA EvaluateKeeps ==
  ASSUME NEW g, NEW t \in Times, GateOK(g, t), NEW k \in Keys, Len(g.samples[k]) > 0
  PROVE  GateOK(Evaluate(g, k, t), t) /\ Extends(g, Evaluate(g, k, t))
<1> DEFINE h == Evaluate(g, k, t)
           q == g.samples[k]
           first == FirstObserved(StatusOf(g, k), q, t)
           reason == RelockReason(q)
           open == /\ reason = "none"
                   /\ t - first >= MinAge
                   /\ Len(q) >= MinCycles
                   /\ \A i \in DOMAIN q : q[i].valid
                   /\ SumFunction(ProfitsOf(q)) > 0
                   /\ TwiceMedian(ProfitsOf(q)) > 0
           status == [unlocked |-> open, first |-> first, cycles |-> Len(q), reason |-> reason]
<1>1. g \in GateStates /\ Counts(g) /\ Ages(g, t)
  BY DEF GateOK
<1>2. q \in Seq(Samples) /\ Len(q) \in Nat /\ q # <<>> /\ q[1] \in Samples
  BY <1>1 DEF GateStates
<1>3. first = q[1].at /\ first \in Times
  <2>1. q[1].at \in Times
    BY <1>2 DEF Samples
  <2>2. StatusOf(g, k).first # 0 => StatusOf(g, k).first = q[1].at
    BY <1>1 DEF StatusOf, Ages, DefaultStatus, NoStatus
  <2> QED BY <1>2, <2>1, <2>2 DEF FirstObserved
<1>4. reason \in Reasons
  BY DEF RelockReason, Reasons
<1>5. h = [g EXCEPT !.status[k] = status]
  BY DEF Evaluate
<1>6. status \in Statuses
  <2>1. open \in BOOLEAN
    OBVIOUS
  <2> HIDE DEF open, first, reason, q
  <2> QED BY <1>2, <1>3, <1>4, <2>1 DEF Statuses
<1>7. status.unlocked => Len(q) >= MinCycles /\ t - q[1].at >= MinAge
  BY <1>3
<1>8. status.first = q[1].at
  BY <1>3
<1> HIDE DEF status, h
<1>9. /\ h \in GateStates /\ h.samples = g.samples /\ h.seen = g.seen /\ h.status[k] = status
      /\ \A j \in Keys : j # k => h.status[j] = g.status[j]
  BY <1>1, <1>5, <1>6 DEF GateStates
<1>10. Counts(h)
  BY <1>1, <1>9 DEF Counts, EpisodesOf
<1>11. Ages(h, t)
  <2> SUFFICES ASSUME NEW j \in Keys
               PROVE  /\ h.status[j].first # 0 =>
                           Len(h.samples[j]) > 0 /\ h.status[j].first = h.samples[j][1].at
                      /\ h.status[j].unlocked =>
                           Len(h.samples[j]) >= MinCycles /\ t - h.samples[j][1].at >= MinAge
    BY DEF Ages
  <2>1. CASE j = k
    BY <1>7, <1>8, <1>9, <2>1
  <2>2. CASE j # k
    BY <1>1, <1>9, <2>2 DEF Ages
  <2> QED BY <2>1, <2>2
<1>12. Extends(g, h)
  BY <1>1, <1>9, ExtendsItself DEF Extends
<1> QED BY <1>9, <1>10, <1>11, <1>12 DEF GateOK, h

\* Gates never get younger.
LEMMA GatesAge ==
  ASSUME NEW g, NEW t \in Times, NEW u \in Times, t <= u, GateOK(g, t)
  PROVE  GateOK(g, u)
<1>1. g \in GateStates /\ Counts(g) /\ Ages(g, t) /\ MinAge \in Nat /\ MinCycles \in Nat \ {0}
  BY GateAssumption DEF GateOK
<1>2. \A k \in Keys : Len(g.samples[k]) > 0 => g.samples[k][1].at \in Int
  <2> TAKE k \in Keys
  <2>1. g.samples[k] \in Seq(Samples)
    BY <1>1 DEF GateStates
  <2>2. Len(g.samples[k]) > 0 => g.samples[k][1] \in Samples
    BY <2>1
  <2> QED BY <2>2 DEF Samples, Times
<1>3. Ages(g, u)
  <2>1. \A k \in Keys : Len(g.samples[k]) \in Nat
    BY <1>1 DEF GateStates
  <2> QED BY <1>1, <1>2, <2>1 DEF Ages, Times
<1> QED BY <1>1, <1>3 DEF GateOK

-----------------------------------------------------------------------------
(* The episodes.                                                           *)

\* Closing episodes leaves the rest filed as they were.
LEMMA ClosingKeeps ==
  ASSUME NEW f, Episodic(f), NEW S \in SUBSET DOMAIN f
  PROVE  Episodic(Restrict(f, S)) /\ DOMAIN Restrict(f, S) = S
BY DEF Episodic, Restrict

\* An episode opened after the other directions of its market are closed is the
\* only one of its market.
LEMMA OpeningKeeps ==
  ASSUME NEW f, Episodic(f), NEW m \in Markets, NEW d \in Directions,
         \A p \in DOMAIN f : p[1] = m => p[2] = d,
         NEW e \in Episodes, e.market = m, e.direction = d
  PROVE  Episodic([p \in DOMAIN f \union {<<m, d>>} |-> IF p = <<m, d>> THEN e ELSE f[p]])
<1> DEFINE h == [p \in DOMAIN f \union {<<m, d>>} |-> IF p = <<m, d>> THEN e ELSE f[p]]
<1>1. DOMAIN h \in SUBSET Pairs
  BY DEF Episodic, Pairs
<1>2. \A p \in DOMAIN h : /\ h[p] \in Episodes
                          /\ h[p].market = p[1] /\ h[p].direction = p[2]
  BY DEF Episodic
<1>3. ASSUME NEW p \in DOMAIN h, NEW q \in DOMAIN h, p[1] = q[1] PROVE p = q
  <2>1. p \in Pairs /\ q \in Pairs
    BY <1>1
  <2>2. CASE p[1] = m
    <3>1. \A r \in DOMAIN f \union {<<m, d>>} : r[1] = m => r[2] = d
      OBVIOUS
    <3>2. p[2] = d /\ q[2] = d
      BY <1>3, <2>2, <3>1
    <3> QED BY <1>3, <2>1, <3>2 DEF Pairs
  <2>3. CASE p[1] # m
    <3>1. p \in DOMAIN f /\ q \in DOMAIN f
      BY <1>3, <2>3
    <3> QED BY <1>3, <3>1 DEF Episodic
  <2> QED BY <2>2, <2>3
<1> QED BY <1>1, <1>2, <1>3 DEF Episodic

\* The tracker is empty after a start.
LEMMA NoEpisodes == Episodic([p \in {} |-> {}])
BY DEF Episodic

-----------------------------------------------------------------------------
(* The invariant is inductive.                                             *)

\* Gates without samples are locked.
LEMMA InitIInv == Init => IInv
<1> SUFFICES ASSUME Init PROVE IInv
  OBVIOUS
<1>1. CycleType
  BY GateAssumption DEF Init, CycleType, Times
<1>2. Episodic(active)
  BY NoEpisodes DEF Init
<1>3. EmptyGates \in GateStates
  <2>1. NoStatus \in Statuses
    BY DEF NoStatus, Statuses, Reasons
  <2> QED BY <2>1 DEF EmptyGates, GateStates
<1>4. Counts(EmptyGates)
  BY FS_EmptySet DEF Counts, EmptyGates, EpisodesOf, Range
<1>5. \A t : Ages(EmptyGates, t)
  BY DEF Ages, EmptyGates, NoStatus
<1>6. gates = EmptyGates /\ disk = EmptyGates
  BY DEF Init
<1> QED BY <1>1, <1>2, <1>3, <1>4, <1>5, <1>6, ExtendsItself DEF IInv, GateOK

\* A step of the evaluation of a market that the gates survive.
LEMMA EvaluatingKeeps ==
  ASSUME IInv, NEW m \in todo, Evaluating(m), sequence' \in 0 .. MaxEpisodes,
         logged' \in SUBSET Samples, Episodic(active'),
         GateOK(gates', cycleNow), Extends(gates, gates')
  PROVE  IInv'
<1>1. UNCHANGED <<now, cycleNow, disk, crashes>> /\ CycleType'
  BY DEF IInv, CycleType, Evaluating
<1>2. GateOK(disk, cycleNow) /\ Extends(disk, gates) /\ GateOK(gates, cycleNow)
  BY DEF IInv
<1>3. Extends(disk, gates')
  BY <1>2, ExtendsTransitive DEF GateOK
<1> QED BY <1>1, <1>2, <1>3 DEF IInv

\* Relocking the bucket of a market.
LEMMA KeysOfMarket == \A m \in Markets : KeysOf(m) \in SUBSET Keys
BY DEF KeysOf, Keys, Buckets

\* Closing a market's episodes.
LEMMA CloseMarketKeeps ==
  ASSUME Episodic(active), NEW m
  PROVE  Episodic(CloseMarket(m))
<1>1. {p \in DOMAIN active : p[1] # m} \in SUBSET DOMAIN active
  OBVIOUS
<1> QED BY <1>1, ClosingKeeps DEF CloseMarket

\* Whatever the books show and whatever fails, an opportunity records at most one
\* sample, of the one episode its market then has open.
LEMMA OpportunityKeeps ==
  ASSUME IInv, NEW m \in todo, NEW d \in Directions, NEW profit \in Profits,
         NEW failure \in Failures, Opportunity(m, d, profit, failure)
  PROVE  IInv'
<1>1. PICK b \in Buckets(EndTime[m] - cycleNow) :
         LET key == [direction |-> d, bucket |-> b]
             others == CloseOthers(m, d)
             isNew == <<m, d>> \notin DOMAIN others
             episode == IF isNew THEN NewEpisode(m, d) ELSE others[<<m, d>>]
             sample == [episode |-> episode, at |-> cycleNow, valid |-> TRUE,
                        orphan |-> FALSE, profit |-> profit]
             recorded == Record(gates, key, sample)
             appends == IsNewSample(gates, key, sample)
             evaluated == Evaluate(recorded, key, cycleNow)
         IN /\ isNew => sequence + crashes < MaxEpisodes
            /\ failure = "append" => appends /\ WritesFail
            /\ failure = "later" => WritesFail \/ evaluated.status[key].unlocked
            /\ sequence' = IF isNew THEN sequence + 1 ELSE sequence
            /\ logged' = IF appends /\ failure # "append" THEN logged \union {sample} ELSE logged
            /\ IF failure # "none"
               THEN /\ active' = CloseMarket(m)
                    /\ gates' = Relock(IF failure = "append" THEN recorded ELSE evaluated,
                                       KeysOf(m), "invalid_data")
               ELSE /\ active' = [p \in DOMAIN others \union {<<m, d>>} |->
                                    IF p = <<m, d>> THEN episode ELSE others[p]]
                    /\ gates' = evaluated
  BY DEF Opportunity
<1> DEFINE key == [direction |-> d, bucket |-> b]
           others == CloseOthers(m, d)
           isNew == <<m, d>> \notin DOMAIN others
           episode == IF isNew THEN NewEpisode(m, d) ELSE others[<<m, d>>]
           sample == [episode |-> episode, at |-> cycleNow, valid |-> TRUE,
                      orphan |-> FALSE, profit |-> profit]
           recorded == Record(gates, key, sample)
           evaluated == Evaluate(recorded, key, cycleNow)
           opened == [p \in DOMAIN others \union {<<m, d>>} |->
                        IF p = <<m, d>> THEN episode ELSE others[p]]
<1>2. /\ isNew => sequence + crashes < MaxEpisodes
      /\ sequence' = IF isNew THEN sequence + 1 ELSE sequence
      /\ logged' \in {logged, logged \union {sample}}
      /\ active' \in {CloseMarket(m), opened}
      /\ gates' \in {evaluated, Relock(recorded, KeysOf(m), "invalid_data"),
                     Relock(evaluated, KeysOf(m), "invalid_data")}
  BY <1>1
<1>3. /\ Evaluating(m) /\ m \in Markets /\ cycleNow \in Times
      /\ sequence \in Nat /\ sequence <= MaxEpisodes /\ crashes \in Nat /\ MaxEpisodes \in Nat
      /\ logged \in SUBSET Samples
      /\ Episodic(active) /\ GateOK(gates, cycleNow)
  <2>1. CycleType /\ Episodic(active) /\ GateOK(gates, cycleNow) /\ Evaluating(m)
    BY DEF Opportunity, IInv
  <2> QED BY <2>1, GateAssumption DEF CycleType
<1>4. /\ Episodic(others) /\ \A p \in DOMAIN others : p[1] = m => p[2] = d
  <2> DEFINE S == {p \in DOMAIN active : p[1] # m \/ p[2] = d}
  <2>1. S \in SUBSET DOMAIN active /\ others = Restrict(active, S)
    BY DEF CloseOthers
  <2> HIDE DEF S, others
  <2>2. Episodic(others) /\ DOMAIN others = S
    BY <1>3, <2>1, ClosingKeeps, Zenon
  <2> QED BY <2>2 DEF S
<1> HIDE DEF others
<1>5. episode \in Episodes /\ episode.market = m /\ episode.direction = d
  <2>1. CASE isNew
    BY <1>2, <1>3, <2>1 DEF NewEpisode, Episodes
  <2>2. CASE ~isNew
    BY <1>4, <2>2 DEF Episodic
  <2> QED BY <2>1, <2>2
<1> HIDE DEF isNew, episode
<1>6. sequence' \in 0 .. MaxEpisodes
  <2>1. isNew => sequence + crashes < MaxEpisodes
    BY <1>2
  <2>2. (sequence' = sequence + 1 /\ isNew) \/ sequence' = sequence
    BY <1>2
  <2> QED BY <1>3, <2>1, <2>2
<1>7. Episodic(active')
  <2>1. Episodic(opened)
    BY <1>3, <1>4, <1>5, OpeningKeeps
  <2>2. Episodic(CloseMarket(m))
    BY <1>3, CloseMarketKeeps
  <2> QED BY <1>2, <2>1, <2>2
<1>8. key \in Keys /\ sample \in Samples
  <2>1. key \in Keys
    BY DEF Keys, Buckets
  <2>2. sample \in Samples
    BY <1>3, <1>5 DEF Samples
  <2> QED BY <2>1, <2>2
<1>9. logged' \in SUBSET Samples
  BY <1>2, <1>3, <1>8
<1> HIDE DEF key, sample, opened
<1>10. /\ GateOK(recorded, cycleNow) /\ Extends(gates, recorded)
       /\ Len(recorded.samples[key]) > 0
  BY <1>3, <1>8, RecordKeeps
<1> HIDE DEF recorded
<1>11. GateOK(evaluated, cycleNow) /\ Extends(recorded, evaluated)
  BY <1>3, <1>8, <1>10, EvaluateKeeps
<1> HIDE DEF evaluated
<1>12. \A g : GateOK(g, cycleNow) =>
         /\ GateOK(Relock(g, KeysOf(m), "invalid_data"), cycleNow)
         /\ Extends(g, Relock(g, KeysOf(m), "invalid_data"))
  BY <1>3, KeysOfMarket, RelockKeeps DEF Reasons
<1>13. \A f, g, h : /\ GateOK(f, cycleNow) /\ GateOK(g, cycleNow) /\ GateOK(h, cycleNow)
                    /\ Extends(f, g) /\ Extends(g, h)
                    => Extends(f, h)
  BY ExtendsTransitive DEF GateOK
<1>14. GateOK(gates', cycleNow) /\ Extends(gates, gates')
  BY <1>2, <1>3, <1>10, <1>11, <1>12, <1>13
<1> QED BY <1>3, <1>6, <1>7, <1>9, <1>14, EvaluatingKeeps

\* Whatever follows which: time, the cycle, its failures, saves and restarts.
LEMMA NextIInv == IInv /\ [Next]_vars => IInv'
<1> SUFFICES ASSUME IInv, [Next]_vars PROVE IInv'
  OBVIOUS
<1>1. /\ CycleType /\ Episodic(active)
      /\ GateOK(gates, cycleNow) /\ GateOK(disk, cycleNow) /\ Extends(disk, gates)
  BY DEF IInv
<1>2. gates \in GateStates /\ disk \in GateStates
  BY <1>1 DEF GateOK
<1>3. CASE Tick
  <2>1. CycleType'
    BY <1>1, <1>3, GateAssumption DEF Tick, CycleType, Times
  <2> QED BY <1>1, <1>3, <2>1 DEF Tick, IInv
<1>4. CASE StartCycle
  <2>1. CycleType' /\ cycleNow <= cycleNow' /\ {cycleNow, cycleNow'} \subseteq Times
    BY <1>1, <1>4 DEF StartCycle, CycleType, Times
  <2>2. GateOK(gates', cycleNow) /\ Extends(gates, gates')
    <3> DEFINE K == {k \in Keys : gates.status[k] # NoStatus}
    <3>1. K \in SUBSET Keys /\ "daily_loss_limit" \in Reasons
      BY DEF Reasons
    <3> HIDE DEF K
    <3>2. /\ GateOK(Relock(gates, K, "daily_loss_limit"), cycleNow)
          /\ Extends(gates, Relock(gates, K, "daily_loss_limit"))
      BY <1>1, <3>1, RelockKeeps
    <3>3. gates' = gates \/ gates' = Relock(gates, K, "daily_loss_limit")
      BY <1>4 DEF StartCycle, RelockAll, K
    <3> QED BY <1>1, <1>2, <3>2, <3>3, ExtendsItself
  <2>3. GateOK(gates', cycleNow') /\ GateOK(disk, cycleNow')
    BY <1>1, <2>1, <2>2, GatesAge
  <2>4. Extends(disk, gates')
    BY <1>1, <1>2, <2>2, ExtendsTransitive DEF GateOK
  <2> QED BY <1>1, <1>4, <2>1, <2>3, <2>4 DEF StartCycle, IInv
<1>5. ASSUME NEW m \in todo, NotSubscribable(m) \/ NoOpportunity(m) \/ InvalidData(m)
      PROVE  IInv'
  <2>1. m \in Markets /\ Evaluating(m)
    BY <1>1, <1>5 DEF CycleType, NotSubscribable, NoOpportunity, InvalidData
  <2>2. Episodic(active')
    BY <1>1, <1>5, CloseMarketKeeps DEF NotSubscribable, NoOpportunity, InvalidData
  <2>3. /\ GateOK(Relock(gates, KeysOf(m), "invalid_data"), cycleNow)
        /\ Extends(gates, Relock(gates, KeysOf(m), "invalid_data"))
    BY <1>1, <2>1, KeysOfMarket, RelockKeeps DEF Reasons
  <2>4. gates' = gates \/ gates' = Relock(gates, KeysOf(m), "invalid_data")
    BY <1>5 DEF NotSubscribable, NoOpportunity, InvalidData
  <2>5. GateOK(gates', cycleNow) /\ Extends(gates, gates')
    BY <1>1, <1>2, <2>3, <2>4, ExtendsItself
  <2>6. sequence' = sequence /\ logged' = logged
    BY <1>5 DEF NotSubscribable, NoOpportunity, InvalidData
  <2>7. sequence' \in 0 .. MaxEpisodes /\ logged' \in SUBSET Samples
    BY <1>1, <2>6 DEF CycleType
  <2> QED BY <2>1, <2>2, <2>5, <2>7, EvaluatingKeeps
<1>6. CASE CycleAborts
  BY <1>1, <1>6 DEF CycleAborts, IInv, CycleType
<1>7. CASE EndCycle
  <2>1. CycleType' /\ Extends(gates, gates)
    BY <1>1, <1>2, <1>7, ExtendsItself DEF EndCycle, CycleType
  <2> QED BY <1>1, <1>7, <2>1 DEF EndCycle, IInv
<1>8. ASSUME Restart, disk' = disk \/ disk' = gates PROVE IInv'
  <2>1. CycleType'
    BY <1>1, <1>8, GateAssumption DEF Restart, CycleType
  <2>2. Episodic(active')
    BY <1>8, NoEpisodes DEF Restart
  <2>3. gates' = disk' /\ cycleNow' = cycleNow
    BY <1>8 DEF Restart
  <2> QED BY <1>1, <1>2, <1>8, <2>1, <2>2, <2>3, ExtendsItself DEF IInv
<1>9. CASE UNCHANGED vars
  BY <1>1, <1>9 DEF vars, IInv, CycleType
<1> QED
  BY <1>3, <1>4, <1>5, <1>6, <1>7, <1>8, <1>9, OpportunityKeeps DEF Next, Crash, Shutdown

\* The invariant holds in every state.
LEMMA Invariant == Spec => []IInv
BY InitIInv, NextIInv, PTL DEF Spec

-----------------------------------------------------------------------------

\* Every variable of the calibration has its type.
THEOREM TypeCorrect == Spec => []TypeOK
<1>1. IInv => TypeOK
  <2> SUFFICES ASSUME IInv PROVE TypeOK
    OBVIOUS
  <2>1. CycleType /\ Episodic(active) /\ gates \in GateStates /\ disk \in GateStates
    BY DEF IInv, GateOK
  <2>2. Range(active) \subseteq Episodes /\ DOMAIN active \in SUBSET Pairs
    BY <2>1 DEF Episodic, Range
  <2> QED BY <2>1, <2>2 DEF TypeOK, CycleType, GateStates
<1> QED BY Invariant, <1>1, PTL

(***************************************************************************)
(* The samples of a gate are of different episodes, and they are the       *)
(* episodes it has seen: whatever failed, crashed or was restarted, each   *)
(* episode counts once (record, gate.rs).                                  *)
(***************************************************************************)
THEOREM EpisodesCountOnce == Spec => []EpisodesCounted
<1>1. IInv => EpisodesCounted
  BY DEF IInv, GateOK, Counts, EpisodesCounted
<1> QED BY Invariant, <1>1, PTL

\* A market has one open episode, and no two markets share one (EpisodeTracker,
\* service.rs).
THEOREM OneEpisodePerMarket == Spec => []OneOpenEpisode
<1>1. IInv => OneOpenEpisode
  <2> SUFFICES ASSUME IInv, NEW p \in DOMAIN active, NEW q \in DOMAIN active
               PROVE  /\ p[1] = q[1] => p = q
                      /\ active[p] = active[q] => p = q
    BY DEF OneOpenEpisode
  <2> QED BY DEF IInv, Episodic
<1> QED BY Invariant, <1>1, PTL

(***************************************************************************)
(* An open gate, in memory or in the file, has minimum_cycles samples and  *)
(* its first is minimum_age old (evaluate, gate.rs).                       *)
(***************************************************************************)
THEOREM OpenGatesAreMature == Spec => []OpenGateIsMature
<1>1. IInv => OpenGateIsMature
  BY DEF IInv, GateOK, Ages, OpenGateIsMature
<1> QED BY Invariant, <1>1, PTL

(***************************************************************************)
(* No save, crash or restart takes a saved sample out of the file or       *)
(* changes its place: what is saved is always an extension of what was.    *)
(***************************************************************************)
THEOREM SavedSamplesStay == Spec => SavedOnlyGrows
<1>1. IInv /\ [Next]_vars => \A k \in Keys : IsPrefix(disk.samples[k], disk'.samples[k])
  <2> SUFFICES ASSUME IInv, [Next]_vars
               PROVE  \A k \in Keys : IsPrefix(disk.samples[k], disk'.samples[k])
    OBVIOUS
  <2>1. disk \in GateStates /\ Extends(disk, gates)
    BY DEF IInv, GateOK
  <2>2. disk' = disk \/ disk' = gates
    <3>1. \A m : Evaluating(m) => disk' = disk
      BY DEF Evaluating
    <3>2. \A m, d, profit, failure : Opportunity(m, d, profit, failure) => disk' = disk
      BY <3>1 DEF Opportunity
    <3>3. \A m : NotSubscribable(m) \/ NoOpportunity(m) \/ InvalidData(m) => disk' = disk
      BY <3>1 DEF NotSubscribable, NoOpportunity, InvalidData
    <3> QED BY <3>2, <3>3 DEF vars, Next, Tick, StartCycle, CycleAborts, EndCycle, Crash, Shutdown
  <2> QED BY <2>1, <2>2, ExtendsItself DEF Extends
<1> QED BY Invariant, <1>1, PTL DEF Spec, SavedOnlyGrows
=============================================================================
