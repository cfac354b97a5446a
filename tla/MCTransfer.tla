----------------------------- MODULE MCTransfer -----------------------------
(* Instances of Transfer for TLC. *)
EXTENDS Transfer, TLC

CONSTANTS r1, r2, w1

One == {r1}
Two == {r1, r2}
OneReconciler == {w1}
Symmetry == Permutations(Two)

Body(key, type, payload, quote, valid) ==
  [key |-> key, type |-> type, payload |-> payload, quote |-> quote, valid |-> valid]

\* A domestic transfer, an international one, and an international one that
\* reuses the key of the first, wants the quote of the second and names wallets
\* that do not match it; and one of zero.
Commands ==
  { Body("k", "DOMESTIC", "a", "none", TRUE), Body("m", "INTERNATIONAL", "a", "q", TRUE),
    Body("k", "INTERNATIONAL", "b", "q", FALSE), Body("k", "INTERNATIONAL", "zero", "q", TRUE) }

\* One transfer, sent repeatedly.
OneCommand == { Body("k", "DOMESTIC", "a", "none", TRUE) }

\* One of each kind, one without a key and one to the sender's own wallet.
MixedCommands ==
  { Body("k", "DOMESTIC", "a", "none", TRUE), Body("m", "INTERNATIONAL", "a", "q", TRUE),
    Body("", "DOMESTIC", "a", "none", TRUE), Body("k", "DOMESTIC", "malformed", "none", TRUE) }
=============================================================================
