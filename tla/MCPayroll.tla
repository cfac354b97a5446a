----------------------------- MODULE MCPayroll ------------------------------
(* Instances of Payroll for TLC. *)
EXTENDS Payroll, TLC

CONSTANTS r1, r2, w1, w2

One == {r1}
Two == {r1, r2}
TwoWorkers == {w1, w2}
Nobody == {}
SecondItem == {2}
Symmetry == Permutations(Two) \cup Permutations(TwoWorkers)
WorkerSymmetry == Permutations(TwoWorkers)

Body(key, payload) == [employer |-> "e", key |-> key, payload |-> payload]

\* One submission.
OneCommand == {Body("k", "a")}

\* A submission, the key with another payload and with one of zero, a second
\* job of the employer, one without a key and one that names an item twice.
Submissions ==
  {Body("k", "a"), Body("k", "b"), Body("k", "zero"), Body("m", "a"), Body("", "a"),
   Body("k", "malformed")}

\* The end of a replay window is the matter of PayrollWorkers and PayrollProgress.
WindowsLast == expired = {}

\* The keys of the items of a job end independently of each other: that of the first.
FirstItemExpires == \A j \in Request : <<j, 2>> \notin expired
=============================================================================
