------------------------------ MODULE MCAccount -----------------------------
(* Instance of Account for TLC. *)
EXTENDS Account, TLC

CONSTANTS r1, r2, r3, u1

Three == {r1, r2, r3}
OneUser == {u1}
Symmetry3 == Permutations(Three)

Create(user, key, currency, label) ==
  [op |-> "create", user |-> user, key |-> key, currency |-> currency, label |-> label]
ReconcileWallet(user, currency) == [op |-> "reconcile", user |-> user, currency |-> currency]
Validate(user, currency) == [op |-> "validate", user |-> user, currency |-> currency]
List(user) == [op |-> "list", user |-> user]
Balance(user, currency) == [op |-> "balance", user |-> user, currency |-> currency]

Currencies == {"USD", "EUR"}

\* One key, the key with another label, another key for the same wallet, the
\* key for another currency, and an operator's reconciliation.
WalletCommands ==
  { Create(u1, "k", "USD", "l"), Create(u1, "k", "USD", "m"), Create(u1, "n", "USD", "l"),
    Create(u1, "k", "EUR", "l"), ReconcileWallet(u1, "USD") }

\* Also the three queries, and a creation without a key.
Commands ==
  WalletCommands \cup { List(u1), Balance(u1, "USD"), Validate(u1, "USD"), Create(u1, "", "USD", "l") }
=============================================================================
