--------------------------- MODULE MCStoreSummaries ---------------------------
EXTENDS StoreSummaries

\* Offers are a direction and a profit; the second leg's quote offers nothing.
Quote(age, usable, direction, profit) ==
    [age |-> age, usable |-> usable, direction |-> direction, profit |-> profit]
Low == Quote(0, TRUE, "buy_merge", 1)
High == Quote(0, TRUE, "buy_merge", 2)
Sell == Quote(0, TRUE, "split_sell", 1)
Old == Quote(1, TRUE, "buy_merge", 1)
Broken == Quote(0, FALSE, "buy_merge", 1)
MCQuotes == {Low, High, Sell, Old, Broken}

\* The second candidate asks for more profit.
MCBest(c, a, b) ==
    IF a.profit >= c THEN {[direction |-> a.direction, profit |-> a.profit]} ELSE {}

Row(m, t) == [at |-> t, market |-> m]
Snap(m, leg, t, quote) == [token |-> <<m, leg>>, at |-> t, quote |-> quote]
InOrder(snapshots) == SortSeq(snapshots, LAMBDA r, s : r.at < s.at)

\* Few decisions of two markets and of old rows, and any snapshots of one market.
Tables == {[i \in 1 .. 3 |-> Row(ms[i], ts[i])] :
            ms \in {<<1, 1, 1>>, <<1, 2, 1>>, <<2, 1, 1>>, <<1, 1, 2>>, <<0, 1, 1>>, <<1, 0, 1>>,
                    <<0, 0, 1>>},
            ts \in {<<0, 1, 2>>, <<1, 1, 2>>, <<1, 2, 1>>}}
Samplings == <<<<1, 0>>, <<2, 0>>, <<1, 1>>, <<2, 1>>, <<1, 2>>>>
Stores == {LET at == SelectSeq(<<1, 2, 3, 4, 5>>, LAMBDA i : q[i] # 0)
           IN [i \in DOMAIN at |->
                 LET x == Samplings[at[i]]
                 IN Snap(1, x[1], x[2],
                         (IF x[1] = 1 THEN <<Low, Broken>> ELSE <<Low, Old>>)[q[at[i]]])]
              \o <<Snap(2, 1, 2, Low), Snap(2, 2, 2, High)>> :
            q \in [DOMAIN Samplings -> 0 .. 2]}
Matching == {[table |-> t, store |-> s, now |-> 2, changes |-> 0] : t \in Tables, s \in Stores}
Changing ==
    {[table |-> <<Row(1, 0), Row(m, 1), Row(1, 2)>>, now |-> 2, changes |-> 2,
      store |-> <<Snap(1, 1, 0, Low), Snap(1, 2, 0, Low), Snap(1, leg, 1, Low)>>] :
        m \in {0, 1, 2}, leg \in {1, 2}}

\* A market sampled again and again over the parts of the time, and a second one
\* that is hit in the validation part.
Instants == <<0, 1, 5, 6, 7, 8, 9>>
Long ==
    {LET s == SelectSeq(<<1, 2, 3, 4, 5, 6, 7>>, LAMBDA i : q[i] # 0)
     IN [table |-> [i \in DOMAIN Instants |-> Row(1, Instants[i])] \o
                   (IF two THEN <<Row(2, 6), Row(2, 7)>> ELSE <<>>),
         store |-> InOrder(FlattenSeq([i \in DOMAIN s |->
                        <<Snap(1, 1, Instants[s[i]], <<Low, offer>>[q[s[i]]]),
                          Snap(1, 2, Instants[s[i]], Low)>>]) \o
                   <<Snap(2, 1, 6, High), Snap(2, 2, 6, Low),
                     Snap(2, 1, 7, High), Snap(2, 2, 7, Low)>>),
         now |-> 9, changes |-> 0] :
            q \in [DOMAIN Instants -> 0 .. 2], offer \in {High, Sell}, two \in BOOLEAN}

MCWorlds == Matching \union Changing \union Long
OneEpisode == [episodes |-> 1, markets |-> 1]
=============================================================================
