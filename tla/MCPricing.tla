------------------------------ MODULE MCPricing ------------------------------
EXTENDS Pricing

\* Ladders of up to two levels, as asks and as bids.
Level(p, s) == [price |-> p, size |-> s]
Ladders(P, S, Better(_, _)) ==
    {<<Level(p, s)>> : p \in P, s \in S} \union
    {<<Level(pq[1], s), Level(pq[2], t)>> :
        pq \in {x \in P \X P : Better(x[1], x[2])}, s \in S, t \in S}

AskBooks == {[bids |-> <<>>, asks |-> l] : l \in Ladders({2, 4, 5}, {2, 4}, <)}
BidBooks == {[bids |-> l, asks |-> <<>>] : l \in Ladders({5, 6, 8}, {2, 4}, >)}
TwoSidedBooks ==
    {[bids |-> b, asks |-> a] : b \in {<<>>, <<Level(3, 2)>>, <<Level(7, 2)>>},
                                a \in {<<>>, <<Level(5, 2)>>}}
AllBooks == AskBooks \union BidBooks \union TwoSidedBooks
=============================================================================
