------------------------------ MODULE MCLedger ------------------------------
(* Instances of Ledger for TLC. *)
EXTENDS Ledger, TLC

CONSTANTS r1, r2, r3

Requests == {r1, r2, r3}
Symmetry == Permutations(Requests)

Fund(ref, a, amount) ==
  [kind |-> "FUNDING", ref |-> ref, account |-> a, amount |-> amount, currency |-> "USD"]
Transfer(ref, from, to, amount) ==
  [kind |-> "TRANSFER", ref |-> ref, src |-> "USD", tgt |-> "USD",
   srcAmount |-> amount, tgtAmount |-> amount, quote |-> FALSE,
   entries |-> << Entry(from, "DEBIT", amount, "USD"),
                  Entry(to, "CREDIT", amount, "USD") >>]
FxTransfer(ref, amount, target, quote) ==
  [kind |-> "FX_TRANSFER", ref |-> ref, src |-> "USD", tgt |-> "EUR",
   srcAmount |-> amount, tgtAmount |-> target, quote |-> quote,
   entries |-> << Entry(2, "DEBIT", amount, "USD"), Entry(3, "CREDIT", target, "EUR") >>]
Reversal(ref, original) == [kind |-> "REVERSAL", ref |-> ref, original |-> original]

\* Two dollar wallets, a euro wallet and both clearing accounts, one of which
\* sorts before and one between the wallets.
Accounts == 1..5
Customers == {2, 3, 5}
Currencies == [a \in Accounts |-> IF a \in {1, 3} THEN "EUR" ELSE "USD"]

\* Funding, a domestic and an FX transfer that want the same money, the domestic
\* one's reference used again for a posting with both entries on one account,
\* unbalanced legs, and two reversals of the first posting.
Commands ==
  { Fund("f", 2, 2), FxTransfer("x", 2, 1, TRUE), Transfer("y", 2, 5, 1),
    Transfer("y", 2, 2, 1), [FxTransfer("c", 2, 1, TRUE) EXCEPT !.tgtAmount = 2],
    Reversal("u", 1), Reversal("v", 1) }

\* Two wallets and one clearing account, for progress.
DomesticAccounts == {2, 4, 5}
DomesticCustomers == {2, 5}
DomesticCommands == { Fund("f", 2, 1), Transfer("x", 2, 5, 1) }
=============================================================================
