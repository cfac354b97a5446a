------------------------------- MODULE MCQuote ------------------------------
(* Instance of Quote for TLC. *)
EXTENDS Quote, TLC

CONSTANTS r1, r2, r3, t1, t2

Requests == {r1, r2, r3}
Transfers == {t1, t2}
Symmetry == Permutations(Requests) \cup Permutations(Transfers)

Terms(source, target, amount) == [source |-> source, target |-> target, amount |-> amount]

\* A good quote, another amount, one that rounds to nothing, a pair of one
\* currency and a pair without a rate.
AllTerms == { Terms("USD", "EUR", 2), Terms("USD", "EUR", 3), Terms("EUR", "USD", 1),
              Terms("USD", "USD", 1), Terms("EUR", "GBP", 1) }

\* Nine tenths, and a rate that needs more than one unit to buy one.
Rates == (<<"USD", "EUR">> :> [num |-> 9, den |-> 10]) @@ (<<"EUR", "USD">> :> [num |-> 1, den |-> 3])

Clients == {"alice", "bob"}
=============================================================================
