-------------------------- MODULE DecisionLogProofs --------------------------
(***************************************************************************)
(* What DecisionLog's run checks on a small instance, proved for every     *)
(* value of the constants that LogAssumption admits.                       *)
(***************************************************************************)
EXTENDS DecisionLog, SequenceTheorems, TLAPS

(***************************************************************************)
(* The inductive invariant: a heartbeat stands for the market's last       *)
(* rejection in the table, unless its row was not written; a market        *)
(* without such a heartbeat has no rejection of its present life.          *)
(***************************************************************************)
Beats == [reason : Rejections, at : Times]

CycleType ==
    /\ now \in Times /\ pc \in {"idle", "scanning"} /\ todo \in SUBSET Markets
    /\ retry \in Markets \union {Nobody}
    /\ restarts \in 0 .. MaxRestarts

LogType ==
    /\ DOMAIN heartbeats \in SUBSET Markets
    /\ heartbeats \in [DOMAIN heartbeats -> Beats]
    /\ decisions \in Seq(Decisions)
    /\ life \in [Markets -> Nat]
    /\ unwritten \in SUBSET DOMAIN heartbeats

\* Rows are in the order of time, and a life begins before its rows.
RowsInOrder ==
    /\ \A i \in 1 .. Len(decisions) : decisions[i].at <= now /\ decisions[i].life < i
    /\ \A i, j \in 1 .. Len(decisions) : i <= j => decisions[i].at <= decisions[j].at
    /\ \A m \in Markets : life[m] <= Len(decisions)

IsRejection(i, m) == decisions[i].market = m /\ decisions[i].reason \in Rejections

StandsFor(m, i) ==
    /\ IsRejection(i, m)
    /\ decisions[i].reason = heartbeats[m].reason /\ decisions[i].at = heartbeats[m].at
    /\ decisions[i].life = life[m]
    /\ \A j \in 1 .. Len(decisions) : IsRejection(j, m) => j <= i

Remembered ==
    \A m \in Markets :
        IF m \in DOMAIN heartbeats \ unwritten
        THEN \E i \in 1 .. Len(decisions) : StandsFor(m, i)
        ELSE \A i \in 1 .. Len(decisions) : IsRejection(i, m) => decisions[i].life < life[m]

\* RepeatsAreSpaced of one pair of rows.
Spaced(i, j) ==
    (/\ IsRejection(i, decisions[j].market)
     /\ decisions[i].reason = decisions[j].reason /\ decisions[i].life = decisions[j].life
     /\ \A k \in 1 .. Len(decisions) :
          i < k /\ k < j /\ IsRejection(k, decisions[j].market)
             => decisions[k].reason = decisions[i].reason)
    => decisions[j].at - decisions[i].at >= Heartbeat

AllSpaced == \A i, j \in 1 .. Len(decisions) : i < j => Spaced(i, j)

LogInv == LogType /\ RowsInOrder /\ Remembered /\ AllSpaced

IInv == CycleType /\ LogInv

\* Nothing is logged yet.
LEMMA InitIInv == Init => IInv
<1> SUFFICES ASSUME Init PROVE IInv
  OBVIOUS
<1>1. CycleType
  BY LogAssumption DEF Init, CycleType, Times
<1>2. decisions = <<>> /\ Len(decisions) = 0 /\ 1 .. Len(decisions) = {}
  BY DEF Init
<1>3. LogType /\ RowsInOrder /\ Remembered /\ AllSpaced
  BY <1>2 DEF Init, LogType, RowsInOrder, Remembered, AllSpaced
<1> QED BY <1>1, <1>3 DEF IInv, LogInv

\* What the log holds does not depend on the time that passes.
LEMMA TimeKeeps ==
  ASSUME LogInv, now \in Times, now' \in Times, now <= now', UNCHANGED logVars
  PROVE  LogInv'
<1>1. LogType' /\ Remembered' /\ AllSpaced'
  BY DEF LogInv, logVars, LogType, Remembered, AllSpaced, StandsFor, Spaced, IsRejection
<1>2. RowsInOrder'
  <2>1. \A i \in 1 .. Len(decisions) : decisions[i] \in Decisions
    BY DEF LogInv, LogType
  <2>2. \A i \in 1 .. Len(decisions) : decisions[i].at \in Int
    BY <2>1 DEF Decisions, Times
  <2> QED BY <2>2 DEF LogInv, logVars, RowsInOrder, Times
<1> QED BY <1>1, <1>2 DEF LogInv

\* Forgotten heartbeats begin a new life, which has no rows yet.
LEMMA ForgetKeeps ==
  ASSUME LogInv, NEW S, Forget(S), now' = now
  PROVE  LogInv'
<1>1. /\ decisions' = decisions /\ Len(decisions) \in Nat
      /\ DOMAIN heartbeats' = DOMAIN heartbeats \intersect S
      /\ \A m \in DOMAIN heartbeats' : heartbeats'[m] = heartbeats[m]
      /\ unwritten' = unwritten \intersect S
      /\ life' = [m \in Markets |-> IF m \in DOMAIN heartbeats \ S THEN Len(decisions) ELSE life[m]]
  BY DEF Forget, Restrict, LogInv, LogType
<1>2. LogType'
  <2>1. heartbeats' = [m \in DOMAIN heartbeats' |-> heartbeats[m]]
    BY DEF Forget, Restrict
  <2> QED BY <1>1, <2>1 DEF LogInv, LogType
<1>3. RowsInOrder'
  BY <1>1 DEF LogInv, RowsInOrder, LogType
<1>4. AllSpaced'
  BY <1>1 DEF LogInv, AllSpaced, Spaced, IsRejection
<1>5. Remembered'
  <2> SUFFICES ASSUME NEW m \in Markets
               PROVE  IF m \in DOMAIN heartbeats' \ unwritten'
                      THEN \E i \in 1 .. Len(decisions) : StandsFor(m, i)'
                      ELSE \A i \in 1 .. Len(decisions) :
                             IsRejection(i, m)' => decisions'[i].life < life'[m]
    BY <1>1 DEF Remembered
  <2>1. \A i : IsRejection(i, m)' <=> IsRejection(i, m)
    BY <1>1 DEF IsRejection
  <2>2. CASE m \in DOMAIN heartbeats' \ unwritten'
    <3>1. m \in DOMAIN heartbeats \ unwritten /\ life'[m] = life[m] /\ heartbeats'[m] = heartbeats[m]
      BY <1>1, <2>2
    <3>2. PICK i \in 1 .. Len(decisions) : StandsFor(m, i)
      BY <3>1 DEF LogInv, Remembered
    <3>3. StandsFor(m, i)'
      BY <1>1, <2>1, <3>1, <3>2 DEF StandsFor
    <3> QED BY <2>2, <3>3
  <2>3. CASE m \in DOMAIN heartbeats \ S
    <3>1. life'[m] = Len(decisions) /\ m \notin DOMAIN heartbeats'
      BY <1>1, <2>3
    <3>2. \A i \in 1 .. Len(decisions) : decisions[i].life < i /\ decisions[i].life \in Nat
      <4>1. \A i \in 1 .. Len(decisions) : decisions[i] \in Decisions
        BY DEF LogInv, LogType
      <4> QED BY <4>1 DEF LogInv, RowsInOrder, Decisions
    <3>3. \A i \in 1 .. Len(decisions) : decisions'[i].life < life'[m]
      BY <1>1, <3>1, <3>2
    <3> QED BY <3>1, <3>3
  <2>4. CASE m \notin DOMAIN heartbeats' \ unwritten' /\ m \notin DOMAIN heartbeats \ S
    <3>1. m \notin DOMAIN heartbeats \ unwritten /\ life'[m] = life[m]
      BY <1>1, <2>4
    <3> QED BY <1>1, <2>1, <2>4, <3>1 DEF LogInv, Remembered
  <2> QED BY <2>2, <2>3, <2>4
<1> QED BY <1>2, <1>3, <1>4, <1>5 DEF LogInv

\* The row that is appended is the last, and later than what is there.
LEMMA RowAppended ==
  ASSUME LogInv, now \in Times, NEW m \in Markets, NEW reason \in Reasons,
         AppendRow(m, reason, now)
  PROVE  /\ Len(decisions) \in Nat /\ Len(decisions') = Len(decisions) + 1
         /\ \A i \in 1 .. Len(decisions) : decisions'[i] = decisions[i]
         /\ decisions'[Len(decisions) + 1] =
              [market |-> m, reason |-> reason, at |-> now, life |-> life[m]]
         /\ decisions' \in Seq(Decisions)
<1> DEFINE row == [market |-> m, reason |-> reason, at |-> now, life |-> life[m]]
<1>1. decisions \in Seq(Decisions) /\ life[m] \in Nat
  BY DEF LogInv, LogType
<1>2. row \in Decisions
  BY <1>1 DEF Decisions
<1>3. decisions' = Append(decisions, row)
  BY DEF AppendRow
<1> HIDE DEF row
<1>4. /\ Append(decisions, row) \in Seq(Decisions)
      /\ Len(Append(decisions, row)) = Len(decisions) + 1
      /\ \A i \in 1 .. Len(decisions) : Append(decisions, row)[i] = decisions[i]
      /\ Append(decisions, row)[Len(decisions) + 1] = row
  BY <1>1, <1>2, AppendProperties
<1>5. Len(decisions) \in Nat
  BY <1>1
<1> QED BY <1>3, <1>4, <1>5 DEF row

\* A heartbeat that is set or renewed is the market's alone.
LEMMA BeatSets ==
  ASSUME LogInv, now \in Times, NEW m \in Markets, NEW reason \in Rejections,
         Beat(m, reason, now)
  PROVE  /\ DOMAIN heartbeats' = DOMAIN heartbeats \union {m}
         /\ heartbeats'[m] = [reason |-> reason, at |-> now]
         /\ \A n \in DOMAIN heartbeats : n # m => heartbeats'[n] = heartbeats[n]
         /\ DOMAIN heartbeats' \in SUBSET Markets
         /\ heartbeats' \in [DOMAIN heartbeats' -> Beats]
BY DEF Beat, LogInv, LogType, Beats

\* A decision that is written: a rejection only a heartbeat after the one its market's
\* heartbeat stands for.
LEMMA LoggedKeeps ==
  ASSUME LogInv, now \in Times, now' = now, NEW m \in Markets, NEW reason \in Reasons,
         Logged(m, reason)
  PROVE  LogInv'
<1> DEFINE rejects == reason \in Rejections
<1>n. PICK n \in Nat : n = Len(decisions)
  BY DEF LogInv, LogType
<1>1. /\ n \in Nat /\ Len(decisions') = n + 1
      /\ \A i \in 1 .. n : decisions'[i] = decisions[i]
      /\ decisions'[n + 1] = [market |-> m, reason |-> reason, at |-> now, life |-> life[m]]
      /\ decisions' \in Seq(Decisions)
  BY <1>n, RowAppended DEF Logged
<1>2. /\ life' = life
      /\ rejects => /\ Due(m, reason, now) /\ Beat(m, reason, now)
                    /\ unwritten' = unwritten \ {m}
      /\ ~rejects => heartbeats' = heartbeats /\ unwritten' = unwritten
  BY DEF Logged
<1>3. /\ \A i \in 1 .. n : /\ decisions[i].at <= now /\ decisions[i].at \in Int
                           /\ decisions[i].life < i /\ decisions[i].life \in Nat
      /\ \A i, j \in 1 .. n : i <= j => decisions[i].at <= decisions[j].at
      /\ \A p \in Markets : life[p] <= n /\ life[p] \in Nat
      /\ now \in Nat /\ Heartbeat \in Nat
  <2>1. \A i \in 1 .. n : decisions[i] \in Decisions
    BY <1>n DEF LogInv, LogType
  <2>2. \A i \in 1 .. n : decisions[i].at \in Int /\ decisions[i].life \in Nat
    BY <2>1 DEF Decisions, Times
  <2>3. life \in [Markets -> Nat] /\ RowsInOrder
    BY DEF LogInv, LogType
  <2> QED BY <1>n, <2>2, <2>3, LogAssumption DEF RowsInOrder, Times
<1>4. rejects => /\ DOMAIN heartbeats' = DOMAIN heartbeats \union {m}
                 /\ heartbeats'[m] = [reason |-> reason, at |-> now]
                 /\ \A p \in DOMAIN heartbeats : p # m => heartbeats'[p] = heartbeats[p]
                 /\ DOMAIN heartbeats' \in SUBSET Markets
                 /\ heartbeats' \in [DOMAIN heartbeats' -> Beats]
  BY <1>2, BeatSets
<1>5. LogType'
  BY <1>1, <1>2, <1>4 DEF LogInv, LogType
<1>6. \A i \in 1 .. (n + 1) : i \in 1 .. n \/ i = n + 1
  BY <1>1
<1>7. RowsInOrder'
  <2>1. \A i \in 1 .. (n + 1) : decisions'[i].at <= now /\ decisions'[i].life < i
    BY <1>1, <1>3, <1>6
  <2>2. \A i, j \in 1 .. (n + 1) : i <= j => decisions'[i].at <= decisions'[j].at
    <3> SUFFICES ASSUME NEW i \in 1 .. (n + 1), NEW j \in 1 .. (n + 1), i <= j
                 PROVE  decisions'[i].at <= decisions'[j].at
      OBVIOUS
    <3>1. CASE j \in 1 .. n
      <4>1. i \in 1 .. n
        BY <3>1
      <4> QED BY <1>1, <1>3, <3>1, <4>1
    <3>2. CASE j = n + 1
      BY <1>1, <1>3, <1>6, <3>2
    <3> QED BY <1>6, <3>1, <3>2
  <2>3. \A p \in Markets : life'[p] <= n + 1
    BY <1>2, <1>3
  <2> QED BY <1>1, <2>1, <2>2, <2>3 DEF RowsInOrder
<1>8. /\ \A i \in 1 .. n, p \in Markets : IsRejection(i, p)' <=> IsRejection(i, p)
      /\ \A p \in Markets : IsRejection(n + 1, p)' <=> p = m /\ rejects
  BY <1>1 DEF IsRejection
<1>9. Remembered'
  <2> SUFFICES ASSUME NEW p \in Markets
               PROVE  IF p \in DOMAIN heartbeats' \ unwritten'
                      THEN \E i \in 1 .. (n + 1) : StandsFor(p, i)'
                      ELSE \A i \in 1 .. (n + 1) :
                             IsRejection(i, p)' => decisions'[i].life < life'[p]
    BY <1>1 DEF Remembered
  <2>1. CASE p = m /\ rejects
    <3>1. StandsFor(m, n + 1)'
      BY <1>1, <1>2, <1>4, <1>6, <1>8, <2>1 DEF StandsFor
    <3>2. m \in DOMAIN heartbeats' \ unwritten' /\ n + 1 \in 1 .. (n + 1)
      BY <1>1, <1>2, <1>4, <2>1
    <3> QED BY <2>1, <3>1, <3>2
  <2>2. CASE p # m \/ ~rejects
    <3>1. /\ (p \in DOMAIN heartbeats' \ unwritten') <=> (p \in DOMAIN heartbeats \ unwritten)
          /\ p \in DOMAIN heartbeats => heartbeats'[p] = heartbeats[p]
          /\ ~IsRejection(n + 1, p)'
      BY <1>2, <1>4, <1>8, <2>2
    <3>2. IF p \in DOMAIN heartbeats \ unwritten
          THEN \E i \in 1 .. n : StandsFor(p, i)
          ELSE \A i \in 1 .. n : IsRejection(i, p) => decisions[i].life < life[p]
      BY <1>n DEF LogInv, Remembered
    <3>3. CASE p \in DOMAIN heartbeats \ unwritten
      <4>1. PICK i \in 1 .. n : StandsFor(p, i)
        BY <3>2, <3>3
      <4>2. \A j \in 1 .. n : IsRejection(j, p) => j <= i
        BY <1>n, <4>1 DEF StandsFor
      <4>3. \A j \in 1 .. (n + 1) : IsRejection(j, p)' => j <= i
        BY <1>6, <1>8, <3>1, <4>2
      <4>4. StandsFor(p, i)'
        BY <1>1, <1>2, <1>8, <3>1, <3>3, <4>1, <4>3 DEF StandsFor
      <4> QED BY <1>1, <3>1, <3>3, <4>4
    <3>4. CASE p \notin DOMAIN heartbeats \ unwritten
      BY <1>1, <1>2, <1>6, <1>8, <3>1, <3>2, <3>4
    <3> QED BY <3>3, <3>4
  <2> QED BY <2>1, <2>2
<1>10. AllSpaced'
  <2> SUFFICES ASSUME NEW i \in 1 .. (n + 1), NEW j \in 1 .. (n + 1), i < j
               PROVE  Spaced(i, j)'
    BY <1>1 DEF AllSpaced
  <2>1. i \in 1 .. n
    BY <1>1
  <2>2. CASE j \in 1 .. n
    <3>1. Spaced(i, j)
      BY <1>n, <2>1, <2>2 DEF LogInv, AllSpaced
    <3>2. decisions'[i] = decisions[i] /\ decisions'[j] = decisions[j]
      BY <1>1, <2>1, <2>2
    <3>3. \A k \in 1 .. n : IsRejection(k, decisions[j].market)' <=> IsRejection(k, decisions[j].market)
      BY <1>1, <3>2 DEF IsRejection
    <3>4. \A k \in 1 .. n : k \in 1 .. (n + 1)
      BY <1>1
    <3> QED BY <1>n, <1>1, <2>1, <2>2, <3>1, <3>2, <3>3, <3>4 DEF Spaced
  <2>3. CASE j = n + 1
    <3> SUFFICES ASSUME IsRejection(i, m)', decisions'[i].reason = reason,
                        decisions'[i].life = life[m],
                        \A k \in 1 .. (n + 1) : i < k /\ k < n + 1 /\ IsRejection(k, m)'
                           => decisions'[k].reason = reason
                 PROVE  now - decisions'[i].at >= Heartbeat
      BY <1>1, <2>1, <2>3 DEF Spaced
    <3>1. /\ rejects /\ IsRejection(i, m) /\ decisions[i].reason = reason
          /\ decisions[i].life = life[m] /\ decisions'[i] = decisions[i]
      BY <1>1, <1>8, <2>1 DEF IsRejection
    <3>2. m \in DOMAIN heartbeats \ unwritten
      BY <1>n, <1>3, <2>1, <3>1 DEF LogInv, Remembered
    <3>3. PICK l \in 1 .. n : StandsFor(m, l)
      BY <1>n, <3>2 DEF LogInv, Remembered
    <3>4. i <= l /\ IsRejection(l, m)
      BY <1>n, <2>1, <3>1, <3>3 DEF StandsFor
    <3>5. decisions[l].reason = reason
      <4>1. CASE i = l
        BY <3>1, <4>1
      <4>2. CASE i # l
        <5>1. i < l /\ l < n + 1 /\ l \in 1 .. (n + 1) /\ IsRejection(l, m)'
          BY <1>1, <1>8, <2>1, <3>3, <3>4, <4>2
        <5> QED BY <1>1, <5>1, <3>3
      <4> QED BY <4>1, <4>2
    <3>6. now - decisions[l].at >= Heartbeat
      BY <1>2, <3>1, <3>2, <3>3, <3>5 DEF Due, StandsFor
    <3>7. decisions[i].at <= decisions[l].at /\ decisions[i].at \in Int /\ decisions[l].at \in Int
      BY <1>3, <2>1, <3>3, <3>4
    <3> QED BY <1>3, <3>1, <3>6, <3>7
  <2> QED BY <1>6, <2>2, <2>3
<1> QED BY <1>5, <1>7, <1>9, <1>10 DEF LogInv

\* A rejection whose append fails: its heartbeat, which is set, stands for no row.
LEMMA FailsKeeps ==
  ASSUME LogInv, now \in Times, now' = now, NEW m \in Markets, NEW reason \in Reasons,
         LogFails(m, reason)
  PROVE  LogInv'
<1>1. CASE reason \notin Rejections
  <2>1. UNCHANGED logVars
    BY <1>1 DEF LogFails, logVars
  <2>2. now <= now' /\ now' \in Times
    BY DEF Times
  <2> QED BY <2>1, <2>2, TimeKeeps
<1>2. CASE reason \in Rejections
  <2>n. PICK n \in Nat : n = Len(decisions)
    BY DEF LogInv, LogType
  <2>1. /\ decisions' = decisions /\ Beat(m, reason, now)
        /\ unwritten' = unwritten \union {m} /\ life' = [life EXCEPT ![m] = n]
    BY <1>2, <2>n DEF LogFails
  <2>2. /\ DOMAIN heartbeats' = DOMAIN heartbeats \union {m}
        /\ \A p \in DOMAIN heartbeats : p # m => heartbeats'[p] = heartbeats[p]
        /\ DOMAIN heartbeats' \in SUBSET Markets
        /\ heartbeats' \in [DOMAIN heartbeats' -> Beats]
    BY <1>2, <2>1, BeatSets
  <2>3. life \in [Markets -> Nat] /\ life' \in [Markets -> Nat]
        /\ life'[m] = n /\ \A p \in Markets : p # m => life'[p] = life[p]
    BY <2>n, <2>1 DEF LogInv, LogType
  <2>4. LogType'
    BY <2>1, <2>2, <2>3 DEF LogInv, LogType
  <2>5. RowsInOrder'
    BY <2>n, <2>1, <2>3 DEF LogInv, RowsInOrder
  <2>6. AllSpaced'
    BY <2>1 DEF LogInv, AllSpaced, Spaced, IsRejection
  <2>7. Remembered'
    <3> SUFFICES ASSUME NEW p \in Markets
                 PROVE  IF p \in DOMAIN heartbeats' \ unwritten'
                        THEN \E i \in 1 .. n : StandsFor(p, i)'
                        ELSE \A i \in 1 .. n : IsRejection(i, p)' => decisions'[i].life < life'[p]
      BY <2>n, <2>1 DEF Remembered
    <3>1. \A i : IsRejection(i, p)' <=> IsRejection(i, p)
      BY <2>1 DEF IsRejection
    <3>2. CASE p = m
      <4>1. \A i \in 1 .. n : decisions[i].life < i /\ decisions[i].life \in Nat
        <5>1. \A i \in 1 .. n : decisions[i] \in Decisions
          BY <2>n DEF LogInv, LogType
        <5> QED BY <5>1, <2>n DEF LogInv, RowsInOrder, Decisions
      <4>2. \A i \in 1 .. n : decisions'[i].life < life'[p]
        BY <2>1, <2>3, <3>2, <4>1
      <4> QED BY <2>1, <3>2, <4>2
    <3>3. CASE p # m
      <4>1. /\ (p \in DOMAIN heartbeats' \ unwritten') <=> (p \in DOMAIN heartbeats \ unwritten)
            /\ p \in DOMAIN heartbeats => heartbeats'[p] = heartbeats[p]
            /\ life'[p] = life[p]
        BY <2>1, <2>2, <2>3, <3>3
      <4>2. IF p \in DOMAIN heartbeats \ unwritten
            THEN \E i \in 1 .. n : StandsFor(p, i)
            ELSE \A i \in 1 .. n : IsRejection(i, p) => decisions[i].life < life[p]
        BY <2>n DEF LogInv, Remembered
      <4>3. \A i \in 1 .. n : p \in DOMAIN heartbeats \ unwritten /\ StandsFor(p, i) => StandsFor(p, i)'
        BY <2>1, <3>1, <4>1 DEF StandsFor
      <4> QED BY <2>1, <3>1, <4>1, <4>2, <4>3
    <3> QED BY <3>2, <3>3
  <2> QED BY <2>4, <2>5, <2>6, <2>7 DEF LogInv
<1> QED BY <1>1, <1>2

\* Every step keeps the invariant.
LEMMA NextIInv == IInv /\ [Next]_vars => IInv'
<1> SUFFICES ASSUME IInv, [Next]_vars PROVE IInv'
  OBVIOUS
<1>0. /\ LogInv /\ CycleType /\ now \in Times /\ now \in Int
      /\ "rejected" \in Reasons
  BY LogAssumption DEF IInv, CycleType, Times, Reasons
<1>1. CASE UNCHANGED vars
  <2>1. CycleType'
    BY <1>0, <1>1 DEF vars, CycleType
  <2>2. LogInv'
    BY <1>0, <1>1, TimeKeeps DEF vars
  <2> QED BY <2>1, <2>2 DEF IInv
<1>2. CASE Tick
  <2>1. CycleType'
    BY <1>0, <1>2, LogAssumption DEF Tick, CycleType, Times
  <2>2. now' \in Times /\ now <= now' /\ UNCHANGED logVars
    BY <1>0, <1>2, LogAssumption DEF Tick, Times, logVars
  <2>3. LogInv'
    BY <1>0, <2>2, TimeKeeps
  <2> QED BY <2>1, <2>3 DEF IInv
<1>3. CASE StartCycle
  <2>1. PICK S \in SUBSET Markets : todo' = S /\ Forget(S)
    BY <1>3 DEF StartCycle
  <2>2. CycleType'
    BY <1>0, <1>3, <2>1 DEF StartCycle, CycleType
  <2>3. LogInv'
    BY <1>0, <1>3, <2>1, ForgetKeeps DEF StartCycle
  <2> QED BY <2>2, <2>3 DEF IInv
<1>4. ASSUME NEW m \in todo, NEW reason \in Reasons, Decide(m, reason)
      PROVE  IInv'
  <2>1. m \in Markets /\ CycleType' /\ now' = now
    BY <1>0, <1>4 DEF Decide, CycleType
  <2>2. CASE Suppressed(m, reason)
    <3>1. LogInv'
      BY <1>0, <2>1, <2>2, TimeKeeps DEF Suppressed
    <3> QED BY <2>1, <3>1 DEF IInv
  <2>3. CASE Logged(m, reason)
    <3>1. LogInv'
      BY <1>0, <2>1, <2>3, LoggedKeeps
    <3> QED BY <2>1, <3>1 DEF IInv
  <2> QED BY <1>4, <2>2, <2>3 DEF Decide
<1>5. ASSUME NEW m \in todo, NEW reason \in Reasons, DecideFails(m, reason)
      PROVE  IInv'
  <2>1. m \in Markets /\ now' = now /\ LogFails(m, reason)
    BY <1>0, <1>5 DEF DecideFails, CycleType
  <2>2. CycleType'
    BY <1>0, <1>5, <2>1 DEF DecideFails, CycleType
  <2>3. LogInv'
    BY <1>0, <2>1, FailsKeeps
  <2> QED BY <2>2, <2>3 DEF IInv
<1>6. CASE LogError
  <2>1. retry \in Markets /\ now' = now /\ CycleType'
    BY <1>0, <1>6 DEF LogError, CycleType
  <2>2. CASE Logged(retry, "rejected")
    <3>1. LogInv'
      BY <1>0, <2>1, <2>2, LoggedKeeps
    <3> QED BY <2>1, <3>1 DEF IInv
  <2>3. CASE LogFails(retry, "rejected")
    <3>1. LogInv'
      BY <1>0, <2>1, <2>3, FailsKeeps
    <3> QED BY <2>1, <3>1 DEF IInv
  <2> QED BY <1>6, <2>2, <2>3 DEF LogError
<1>7. CASE EndCycle
  <2>1. CycleType'
    BY <1>0, <1>7 DEF EndCycle, CycleType
  <2>2. LogInv'
    BY <1>0, <1>7, TimeKeeps DEF EndCycle
  <2> QED BY <2>1, <2>2 DEF IInv
<1>8. CASE Restart
  <2>1. CycleType' /\ Forget({}) /\ now' = now
    BY <1>0, <1>8, LogAssumption DEF Restart, CycleType
  <2>2. LogInv'
    BY <1>0, <2>1, ForgetKeeps
  <2> QED BY <2>1, <2>2 DEF IInv
<1> QED BY <1>1, <1>2, <1>3, <1>4, <1>5, <1>6, <1>7, <1>8 DEF Next

\* The heartbeats stand for the last rejections in every reachable state.
LEMMA Invariant == Spec => []IInv
BY InitIInv, NextIInv, PTL DEF Spec

-----------------------------------------------------------------------------
(* What the log promises.                                                  *)

\* Every variable of the decision log has its type.
THEOREM TypeCorrect == Spec => []TypeOK
<1>1. IInv => TypeOK
  BY DEF IInv, CycleType, LogType, LogInv, TypeOK, Range, Beats
<1> QED BY <1>1, Invariant, PTL

\* log_decision records a rejection that repeats a market's last one only a heartbeat
\* after it, as long as the heartbeat is not forgotten or moved by a failed append.
THEOREM RepeatsHold == Spec => []RepeatsAreSpaced
<1>1. IInv => RepeatsAreSpaced
  <2> SUFFICES ASSUME IInv, NEW m \in Markets, NEW i \in RowsOf(m), NEW j \in RowsOf(m),
                      i < j,
                      decisions[i].reason \in Rejections,
                      decisions[i].reason = decisions[j].reason,
                      decisions[i].life = decisions[j].life,
                      \A k \in RowsOf(m) : i < k /\ k < j /\ decisions[k].reason \in Rejections
                         => decisions[k].reason = decisions[i].reason
               PROVE  decisions[j].at - decisions[i].at >= Heartbeat
    BY DEF RepeatsAreSpaced
  <2>1. DOMAIN decisions = 1 .. Len(decisions)
    BY DEF IInv, LogInv, LogType
  <2>2. /\ i \in 1 .. Len(decisions) /\ j \in 1 .. Len(decisions)
        /\ decisions[i].market = m /\ decisions[j].market = m
    BY <2>1 DEF RowsOf
  <2>3. Spaced(i, j)
    BY <2>2 DEF IInv, LogInv, AllSpaced
  <2>4. \A k \in 1 .. Len(decisions) :
           i < k /\ k < j /\ IsRejection(k, m) => decisions[k].reason = decisions[i].reason
    BY <2>1 DEF RowsOf, IsRejection
  <2> QED BY <2>2, <2>3, <2>4 DEF Spaced, IsRejection
<1> QED BY <1>1, Invariant, PTL

\* A rejection that log_decision passes over repeats the market's last rejection in
\* the table, which is of this service and less than a heartbeat old.
THEOREM SilenceHolds == Spec => SilenceIsExplained
<1> DEFINE Explained(m, reason) ==
             /\ LastRejection(m) # 0
             /\ decisions[LastRejection(m)].reason = reason
             /\ decisions[LastRejection(m)].life = life[m]
             /\ now - decisions[LastRejection(m)].at < Heartbeat
           Silence == \A m \in Markets \ unwritten, reason \in Rejections :
                        Decide(m, reason) /\ decisions' = decisions => Explained(m, reason)
<1>1. ASSUME IInv, NEW m \in Markets \ unwritten, NEW reason \in Rejections,
             Decide(m, reason), decisions' = decisions
      PROVE  Explained(m, reason)
  <2>0. PICK n \in Nat : n = Len(decisions) /\ DOMAIN decisions = 1 .. n
    BY <1>1 DEF IInv, LogInv, LogType
  <2>1. ~Logged(m, reason)
    <3>1. decisions \in Seq(Decisions) /\ life[m] \in Nat /\ now \in Times
      BY <1>1 DEF IInv, LogInv, LogType, CycleType
    <3>2. SUFFICES ASSUME Logged(m, reason) PROVE FALSE
      OBVIOUS
    <3>3. Len(decisions') = Len(decisions) + 1
      BY <1>1, <3>1, <3>2, RowAppended DEF Logged, IInv, Reasons
    <3> QED BY <1>1, <2>0, <3>3
  <2>2. m \in DOMAIN heartbeats /\ heartbeats[m].reason = reason
        /\ ~(now - heartbeats[m].at >= Heartbeat)
    BY <1>1, <2>1 DEF Decide, Suppressed, Due
  <2>3. PICK l \in 1 .. n : StandsFor(m, l)
    BY <1>1, <2>0, <2>2 DEF IInv, LogInv, Remembered
  <2>4. LastRejection(m) = l
    <3> DEFINE rows == {i \in RowsOf(m) : decisions[i].reason \in Rejections}
    <3>1. \A i : i \in rows <=> i \in 1 .. n /\ IsRejection(i, m)
      BY <2>0 DEF RowsOf, IsRejection
    <3>2. l \in rows /\ \A i \in rows : i <= l
      BY <2>0, <2>3, <3>1 DEF StandsFor
    <3>3. \A k \in rows : (\A i \in rows : i <= k) => k = l
      BY <3>1, <3>2
    <3> HIDE DEF rows
    <3>4. (CHOOSE k \in rows : \A i \in rows : i <= k) = l
      BY <3>2, <3>3
    <3>5. LastRejection(m) = CHOOSE k \in rows : \A i \in rows : i <= k
      BY <3>2 DEF LastRejection, rows
    <3> QED BY <3>4, <3>5
  <2>5. /\ decisions[l].at = heartbeats[m].at /\ decisions[l].reason = reason
        /\ decisions[l].life = life[m]
    BY <2>2, <2>3 DEF StandsFor
  <2>6. heartbeats[m].at \in Int /\ now \in Int /\ Heartbeat \in Int
    BY <1>1, <2>2, LogAssumption DEF IInv, LogInv, LogType, CycleType, Beats, Times
  <2> QED BY <2>2, <2>4, <2>5, <2>6
<1>2. IInv => Silence
  BY <1>1
<1>3. Silence => (\A m \in Markets \ unwritten, reason \in Rejections :
                    Decide(m, reason) /\ decisions' = decisions =>
                      LET last == LastRejection(m)
                      IN /\ last # 0
                         /\ decisions[last].reason = reason
                         /\ decisions[last].life = life[m]
                         /\ now - decisions[last].at < Heartbeat)
  OBVIOUS
<1> HIDE DEF Silence
<1>4. IInv /\ [Next]_vars => [Silence]_vars
  BY <1>2
<1>5. Spec => [][Silence]_vars
  BY <1>4, Invariant, PTL DEF Spec
<1> QED BY <1>3, <1>5, PTL DEF SilenceIsExplained
=============================================================================
