----------------------------- MODULE Lifecycle ------------------------------
(***************************************************************************)
(* What the Transaction service promises about its transfers, without the  *)
(* handlers, calls and retries that bring it about: a transfer is claimed  *)
(* with its command and idempotency record, processed and settled once; it *)
(* keeps its command; its record settles with it; the Ledger posts only    *)
(* for a transfer that was put into processing, and only a posted transfer *)
(* is completed.  The triggers of the database refuse any other update.    *)
(***************************************************************************)
CONSTANTS Transfer, Command, NoCommand
VARIABLES status, command, record, posted

vars == <<status, command, record, posted>>

Init == /\ status = [t \in Transfer |-> "NONE"]
        /\ command = [t \in Transfer |-> NoCommand]
        /\ record = [t \in Transfer |-> "NONE"]
        /\ posted = {}

Claim(t, c) == /\ status[t] = "NONE" /\ record[t] = "NONE"
               /\ status' = [status EXCEPT ![t] = "PENDING"]
               /\ command' = [command EXCEPT ![t] = c]
               /\ record' = [record EXCEPT ![t] = "PROCESSING"]
               /\ UNCHANGED posted

Move(t, from, to) == /\ status[t] \in from
                     /\ status' = [status EXCEPT ![t] = to]
                     /\ UNCHANGED <<command, posted>>

\* The record is settled in the same step, and once.
Settle(t, from, to) == /\ Move(t, from, to)
                       /\ record[t] = "PROCESSING"
                       /\ record' = [record EXCEPT ![t] = to]

Start(t) == Move(t, {"PENDING"}, "PROCESSING") /\ UNCHANGED record
Fail(t) == Settle(t, {"PENDING", "PROCESSING"}, "FAILED")
Complete(t) == t \in posted /\ Settle(t, {"PROCESSING"}, "COMPLETED")

\* The Ledger commits the posting, which a refused transfer may still have in
\* flight.
Post(t) == /\ status[t] \notin {"NONE", "PENDING"}
           /\ posted' = posted \cup {t}
           /\ UNCHANGED <<status, command, record>>

Next ==
  \/ \E t \in Transfer, c \in Command : Claim(t, c)
  \/ \E t \in Transfer : Start(t) \/ Fail(t) \/ Complete(t) \/ Post(t)

Spec == Init /\ [][Next]_vars
=============================================================================
