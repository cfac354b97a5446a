--------------------------- MODULE TransferProofs ---------------------------
(***************************************************************************)
(* Theorems about the transfer orchestration, for any requests,            *)
(* reconcilers, commands and number of faults.                             *)
(*                                                                         *)
(* The inductive invariant has two halves.  TransferOK says what the rows  *)
(* of a transfer, the Ledger and FX tell of each other.  ProcessOK says    *)
(* what a request or reconciler may rely on although others have moved on  *)
(* since it read the transfer: only facts that, once true of a transfer,   *)
(* stay true, which is what Grows states of every step.                    *)
(***************************************************************************)
EXTENDS Transfer, TLAPS

Codes == {"409", "422", "503"}
Calls == {"none", "consume", "lookup", "post", "ok", "refused"} \cup Codes
Records == [state : {"NONE", "PROCESSING"} \cup Terminal, http : {"none", "201"} \cup Codes]
Bodies == Command \cup {NoCommand}
SeenRows == [status : Statuses, version : Nat, record : Records]

Types ==
  /\ TypeOK
  /\ command \in [Request -> Bodies]
  /\ record \in [Request -> Records]
  /\ consumer \in [Quote -> Request \cup {NoTransfer}]
  /\ late \subseteq {"ledger", "fx", "consume"} \X Request
  /\ cmd \in [Process -> Bodies]
  /\ seen \in [Process -> SeenRows]
  /\ call \in [Process -> Calls]
  /\ DOMAIN reply = Request

Exists(t) == t \in Request /\ status[t] # "NONE"

\* A transfer that was put into processing, across currencies under its quote.
Started(t) ==
  /\ Exists(t) /\ status[t] # "PENDING"
  /\ International(t) => consumer[command[t].quote] = t

TransferOK(t) ==
  /\ (status[t] = "NONE") = (record[t] = NoRecord)
  /\ status[t] # "NONE" =>
       /\ command[t] \in Command /\ command[t].payload # "zero"
       /\ IF status[t] \in Terminal THEN record[t].state = status[t]
          ELSE record[t].state = "PROCESSING"
       /\ (record[t].http = "none") = (record[t].state = "PROCESSING")
       /\ \/ history[t] = status[t]
          \/ history[t] = "NONE" /\ International(t) /\ status[t] \in {"PENDING", "FAILED"}
  /\ status[t] \in {"PROCESSING", "COMPLETED"} => Started(t)
  /\ t \in posted \/ <<"ledger", t>> \in late => Started(t)
  /\ status[t] = "COMPLETED" => t \in posted
  /\ <<"fx", t>> \in late \/ <<"consume", t>> \in late => Exists(t) /\ International(t)

\* Where a process works on a transfer that it has read or created.
Working == Labels \ {"idle", "find", "claim", "done"}

ProcessOK(p) ==
  /\ pc[p] \in {"find", "claim", "existing"} => p \in Request /\ cmd[p] \in Command
  /\ pc[p] \in Working => Exists(target[p])
  /\ p \in Request /\ pc[p] \in Working \ {"existing"} => command[target[p]] = cmd[p]
  /\ pc[p] = "existing" =>
       seen[p].record.state = "PROCESSING" \/ seen[p].record = record[target[p]]
  /\ pc[p] \in {"prepare", "prepared", "reread"} => International(target[p])
  /\ pc[p] = "prepare" => seen[p].status = "PENDING" /\ call[p] \in {"none", "consume"}
  /\ pc[p] = "prepared" => consumer[command[target[p]].quote] = target[p]
  /\ pc[p] = "transition" => ~International(target[p])
  /\ pc[p] \in {"validate", "posting"} => Started(target[p])
  /\ pc[p] = "posting" => call[p] \in {"lookup", "post", "ok", "refused"}
  /\ pc[p] = "complete" \/ (pc[p] = "posting" /\ call[p] = "ok") => target[p] \in posted
  /\ pc[p] = "fail" => call[p] \in Codes
  /\ pc[p] \notin {"prepare", "posting", "fail"} => call[p] = "none"

\* A request creates its own transfer, and is answered once.
RequestOK(r) ==
  /\ pc[r] \in {"idle", "find", "claim"} => status[r] = "NONE"
  /\ pc[r] # "done" => reply[r] = NoReply
  /\ reply[r].status \in Terminal =>
       /\ Exists(reply[r].transfer)
       /\ command[reply[r].transfer] = cmd[r]
       /\ status[reply[r].transfer] = reply[r].status

IInv ==
  /\ Types
  /\ \A t \in Request : TransferOK(t)
  /\ \A p \in Process : ProcessOK(p)
  /\ \A r \in Request : RequestOK(r)
  /\ ClaimsAreUnique

-----------------------------------------------------------------------------
\* There is no transfer, and nobody has started.
LEMMA InitInv == Init => IInv
  <1> SUFFICES ASSUME Init PROVE IInv
    OBVIOUS
  <1>1. NoRecord \in Records /\ NothingSeen \in SeenRows
    BY DEF NoRecord, Records, NothingSeen, Statuses, SeenRows
  <1>2. Types
    BY <1>1, FaultsAssumption DEF Init, Types, TypeOK, Bodies, Calls, Labels, Statuses
  <1>3. \A t \in Request : TransferOK(t)
    BY DEF Init, TransferOK, Started, Exists
  <1>4. \A p \in Process : ProcessOK(p)
    BY DEF Init, ProcessOK, Working
  <1>5. \A r \in Request : RequestOK(r)
    BY DEF Init, RequestOK, NoReply, Process, Terminal
  <1>6. ClaimsAreUnique
    BY DEF Init, ClaimsAreUnique, Created
  <1> QED
    BY <1>2, <1>3, <1>4, <1>5, <1>6 DEF IInv

-----------------------------------------------------------------------------
(* What no step takes back *)

\* A transfer that exists keeps its command; it does not go back to an earlier
\* status; a terminal one and its stored response are final.
GrowsTransfer(t) ==
  status[t] # "NONE" =>
    /\ status'[t] # "NONE" /\ command'[t] = command[t]
    /\ status[t] # "PENDING" => status'[t] # "PENDING"
    /\ status[t] \in Terminal => status'[t] = status[t] /\ record'[t] = record[t]

\* No quote is released and no posting undone.
Grows ==
  /\ \A t \in Request : GrowsTransfer(t)
  /\ \A q \in Quote : consumer[q] # NoTransfer => consumer'[q] = consumer[q]
  /\ posted \subseteq posted'

\* The quote that belongs to an international transfer.
LEMMA QuoteOfTransfer ==
  ASSUME IInv, NEW t, Exists(t), International(t)
  PROVE  command[t].quote \in Quote
  BY CommandAssumption DEF IInv, TransferOK, Exists, International, Quote, ValidCommand

\* Hence what was started stays started.
LEMMA StartedStays ==
  ASSUME IInv, Grows, NEW t, Started(t)
  PROVE  Started(t)'
  <1>1. t \in Request /\ status[t] # "NONE" /\ status[t] # "PENDING"
    BY DEF Started, Exists
  <1>2. status'[t] # "NONE" /\ status'[t] # "PENDING" /\ command'[t] = command[t]
    BY <1>1 DEF Grows, GrowsTransfer
  <1>3. CASE International(t)
    <2>1. command[t].quote \in Quote /\ consumer[command[t].quote] = t
      BY <1>3, QuoteOfTransfer DEF Started
    <2>2. t # NoTransfer
      BY <1>1, ProcessAssumption
    <2> QED
      BY <1>1, <1>2, <2>1, <2>2 DEF Started, Exists, Grows
  <1> QED
    BY <1>1, <1>2, <1>3 DEF Started, Exists, International

\* A process that does not move keeps what it relies on.
LEMMA OthersKeep ==
  ASSUME IInv, Grows, NEW p \in Process,
         pc'[p] = pc[p], cmd'[p] = cmd[p], target'[p] = target[p],
         seen'[p] = seen[p], call'[p] = call[p]
  PROVE  ProcessOK(p)'
  <1> DEFINE t == target[p]
  <1>1. ProcessOK(p)
    BY DEF IInv
  <1>2. CASE pc[p] \notin Working
    BY <1>1, <1>2 DEF ProcessOK, Working, Labels
  <1>3. CASE pc[p] \in Working
    <2>1. Exists(t) /\ t \in Request /\ status[t] # "NONE"
      BY <1>1, <1>3 DEF ProcessOK, Exists
    <2>2. Exists(t)' /\ command'[t] = command[t]
      BY <2>1 DEF Grows, GrowsTransfer, Exists
    <2>3. International(t)' = International(t)
      BY <2>2 DEF International
    <2>4. Started(t) => Started(t)'
      BY StartedStays
    <2>5. t \in posted => t \in posted'
      BY DEF Grows
    <2>6. pc[p] = "prepared" => consumer'[command[t].quote] = t
      BY <1>1, <2>1, QuoteOfTransfer, ProcessAssumption DEF ProcessOK, Grows
    <2>7. pc[p] = "existing" =>
            seen[p].record.state = "PROCESSING" \/ seen[p].record = record'[t]
      <3> SUFFICES ASSUME pc[p] = "existing", seen[p].record.state # "PROCESSING"
                   PROVE  seen[p].record = record'[t]
        OBVIOUS
      <3>1. seen[p].record = record[t]
        BY <1>1 DEF ProcessOK
      <3>2. TransferOK(t)
        BY <2>1 DEF IInv
      <3>3. status[t] \in Terminal
        BY <2>1, <3>1, <3>2 DEF TransferOK
      <3>4. record'[t] = record[t]
        BY <2>1, <3>3 DEF Grows, GrowsTransfer
      <3> QED
        BY <3>1, <3>4
    <2> QED
      BY <1>1, <1>3, <2>2, <2>3, <2>4, <2>5, <2>6, <2>7 DEF ProcessOK
  <1> QED
    BY <1>2, <1>3

\* So does a request that was answered.
LEMMA AnsweredKeep ==
  ASSUME IInv, Grows, NEW r \in Request, reply'[r] = reply[r],
         pc'[r] = pc[r], cmd'[r] = cmd[r],
         pc[r] \in {"idle", "find", "claim"} => status'[r] = status[r]
  PROVE  RequestOK(r)'
  BY DEF IInv, RequestOK, Grows, GrowsTransfer, Exists

\* And so do the rows of a transfer that a step does not write.
LEMMA TransferKeeps ==
  ASSUME IInv, Grows, NEW t \in Request,
         status'[t] = status[t], command'[t] = command[t],
         record'[t] = record[t], history'[t] = history[t],
         t \in posted' => t \in posted,
         \A kind : <<kind, t>> \in late' => <<kind, t>> \in late
  PROVE  TransferOK(t)'
  <1>1. TransferOK(t)
    BY DEF IInv
  <1>2. Started(t) => Started(t)'
    BY StartedStays
  <1>3. Exists(t)' = Exists(t) /\ International(t)' = International(t)
    BY DEF Exists, International
  <1>4. t \in posted => t \in posted'
    BY DEF Grows
  <1> QED
    BY <1>1, <1>2, <1>3, <1>4 DEF TransferOK

-----------------------------------------------------------------------------
(* The frame of a step *)

\* No other process than p moves.
OnlyMoves(p) ==
  /\ \A o \in Process \ {p} : /\ pc'[o] = pc[o] /\ cmd'[o] = cmd[o] /\ target'[o] = target[o]
                              /\ seen'[o] = seen[o] /\ call'[o] = call[o]
  /\ \A o \in Request \ {p} : reply'[o] = reply[o]

\* A step of p keeps the invariant if it keeps the tables in order and leaves p
\* with what it relies on.
LEMMA ProcessStep ==
  ASSUME IInv, Grows, NEW p \in Process, OnlyMoves(p), Types',
         \A t \in Request : TransferOK(t)', ClaimsAreUnique',
         \A r \in Request \ {p} : pc[r] \in {"idle", "find", "claim"} => status'[r] = status[r],
         ProcessOK(p)', p \in Request => RequestOK(p)'
  PROVE  IInv'
  <1>1. \A o \in Process \ {p} : ProcessOK(o)'
    BY OthersKeep DEF OnlyMoves
  <1>2. \A r \in Request \ {p} : RequestOK(r)'
    <2> TAKE r \in Request \ {p}
    <2>1. r \in Process \ {p}
      BY DEF Process
    <2> QED
      BY <2>1, AnsweredKeep DEF OnlyMoves
  <1> QED
    BY <1>1, <1>2 DEF IInv

\* The types of what the processes hold.
LocalTypes ==
  /\ pc \in [Process -> Labels] /\ cmd \in [Process -> Bodies]
  /\ target \in [Process -> Request \cup {NoTransfer}]
  /\ seen \in [Process -> SeenRows]
  /\ call \in [Process -> Calls] /\ DOMAIN reply = Request /\ faults \in 0..MaxFaults

\* The same for a step of p that leaves the tables and the other services alone.
LEMMA LocalStep ==
  ASSUME IInv, NEW p \in Process, OnlyMoves(p), UNCHANGED <<store, world>>, LocalTypes',
         ProcessOK(p)', p \in Request => RequestOK(p)'
  PROVE  IInv'
  <1> USE DEF store, world
  <1>1. Grows
    BY DEF Grows, GrowsTransfer
  <1>2. \A t \in Request : TransferOK(t)'
    BY <1>1, TransferKeeps
  <1>3. ClaimsAreUnique'
    BY DEF IInv, ClaimsAreUnique, Created
  <1>4. Types'
    BY DEF IInv, Types, TypeOK, LocalTypes
  <1> QED
    BY <1>1, <1>2, <1>3, <1>4, ProcessStep

\* What Go does to the process that takes the step and to the others.
LEMMA GoFacts ==
  ASSUME Types, NEW p \in Process, NEW label \in Labels, Go(p, label)
  PROVE  /\ pc' \in [Process -> Labels] /\ pc'[p] = label
         /\ \A o \in Process \ {p} : pc'[o] = pc[o]
  BY DEF Types, TypeOK, Go

\* What Answer does: a request is over, a reconciler is idle.
LEMMA AnswerFacts ==
  ASSUME Types, NEW p \in Process, NEW http, NEW st, Answer(p, http, st)
  PROVE  /\ pc' \in [Process -> Labels]
         /\ pc'[p] = IF p \in Request THEN "done" ELSE "idle"
         /\ \A o \in Process \ {p} : pc'[o] = pc[o]
         /\ DOMAIN reply' = Request
         /\ p \in Request => reply'[p].status = st /\ reply'[p].transfer = target[p]
         /\ \A o \in Request \ {p} : reply'[o] = reply[o]
  BY DEF Types, TypeOK, Answer, Go, Labels

\* A process that answers is left with what it relies on, if the outcome that it
\* tells, if any, is the transfer's.
LEMMA Answering ==
  ASSUME Types, NEW p \in Process, NEW http, NEW st, Answer(p, http, st),
         call'[p] = "none",
         st \in Terminal /\ p \in Request =>
           Exists(target[p])' /\ command'[target[p]] = cmd'[p] /\ status'[target[p]] = st,
         target'[p] = target[p]
  PROVE  ProcessOK(p)' /\ (p \in Request => RequestOK(p)')
  <1>1. pc'[p] \in {"idle", "done"} /\ (p \in Request => pc'[p] = "done")
    BY AnswerFacts
  <1>2. ProcessOK(p)'
    BY <1>1 DEF ProcessOK, Working, Labels
  <1>3. p \in Request => RequestOK(p)'
    BY <1>1, AnswerFacts DEF RequestOK, Exists
  <1> QED
    BY <1>2, <1>3

\* A request that goes on has not been answered.
LEMMA Going ==
  ASSUME IInv, NEW p \in Request, pc[p] # "done", reply'[p] = reply[p],
         pc'[p] # "done", pc'[p] \in {"idle", "find", "claim"} => status'[p] = "NONE"
  PROVE  RequestOK(p)'
  BY DEF IInv, RequestOK, NoReply, Terminal

\* What a read of a transfer returns.
LEMMA RowType ==
  ASSUME Types, NEW t \in Request
  PROVE  Row(t) \in SeenRows
  BY DEF Types, TypeOK, Row, SeenRows

-----------------------------------------------------------------------------
(* Steps that only read *)

\* The invariant's parts as the proofs of the local steps use them.
LEMMA Parts ==
  ASSUME IInv, NEW p \in Process
  PROVE  /\ Types /\ LocalTypes /\ ProcessOK(p)
         /\ p \in Request => RequestOK(p)
         /\ \A t \in Request : TransferOK(t)
  BY DEF IInv, Types, TypeOK, LocalTypes

\* A command that is taken up is well formed.
LEMMA ReceiveInv ==
  ASSUME IInv, NEW p \in Request, NEW c \in Command, Receive(p, c)
  PROVE  IInv'
  <1>1. p \in Process /\ pc[p] = "idle" /\ status[p] = "NONE" /\ call[p] = "none"
    BY DEF Process, Receive, IInv, RequestOK, ProcessOK
  <1>2. Types /\ LocalTypes
    BY <1>1, Parts
  <1>3. /\ cmd' \in [Process -> Bodies] /\ cmd'[p] = c
        /\ \A o \in Process \ {p} : cmd'[o] = cmd[o]
    BY <1>1, <1>2 DEF Receive, LocalTypes, Bodies
  <1>4. CASE Go(p, "find") /\ UNCHANGED reply
    <2>1. /\ pc' \in [Process -> Labels] /\ pc'[p] = "find"
          /\ \A o \in Process \ {p} : pc'[o] = pc[o]
      BY <1>1, <1>2, <1>4, GoFacts DEF Labels
    <2>2. LocalTypes' /\ OnlyMoves(p)
      BY <1>2, <1>3, <1>4, <2>1 DEF LocalTypes, OnlyMoves, Receive
    <2>3. ProcessOK(p)'
      BY <1>1, <1>3, <2>1 DEF ProcessOK, Working, Receive
    <2>4. RequestOK(p)'
      BY <1>1, <1>4, <2>1, Going DEF Receive, store
    <2> QED
      BY <1>1, <2>2, <2>3, <2>4, LocalStep DEF Receive
  <1>5. CASE Answer(p, "400", "NONE")
    <2>1. LocalTypes' /\ OnlyMoves(p)
      BY <1>1, <1>2, <1>3, <1>5, AnswerFacts DEF LocalTypes, OnlyMoves, Receive
    <2>2. ProcessOK(p)' /\ RequestOK(p)'
      BY <1>1, <1>2, <1>5, Answering DEF Receive, Terminal
    <2> QED
      BY <1>1, <2>1, <2>2, LocalStep DEF Receive
  <1> QED
    BY <1>4, <1>5 DEF Receive

\* A local step that goes on: what is left to show is what p then relies on.
LEMMA LocalGo ==
  ASSUME IInv, NEW p \in Process, NEW label \in Labels \ {"idle", "find", "done"},
         Go(p, label), UNCHANGED <<store, world, cmd, reply>>, pc[p] # "done",
         UNCHANGED target \/ \E t \in Request : target' = [target EXCEPT ![p] = t],
         UNCHANGED seen \/ \E row \in SeenRows : seen' = [seen EXCEPT ![p] = row],
         UNCHANGED call \/ \E k \in Calls : call' = [call EXCEPT ![p] = k],
         faults' \in 0..MaxFaults,
         label = "claim" /\ p \in Request => status[p] = "NONE",
         ProcessOK(p)'
  PROVE  IInv'
  <1>1. Types /\ LocalTypes
    BY Parts
  <1>2. /\ pc' \in [Process -> Labels] /\ pc'[p] = label
        /\ \A o \in Process \ {p} : pc'[o] = pc[o]
    BY <1>1, GoFacts
  <1>3. /\ target' \in [Process -> Request \cup {NoTransfer}]
        /\ \A o \in Process \ {p} : target'[o] = target[o]
    BY <1>1 DEF LocalTypes
  <1>4. /\ seen' \in [Process -> SeenRows]
        /\ \A o \in Process \ {p} : seen'[o] = seen[o]
    BY <1>1 DEF LocalTypes
  <1>5. /\ call' \in [Process -> Calls]
        /\ \A o \in Process \ {p} : call'[o] = call[o]
    BY <1>1 DEF LocalTypes
  <1>6. LocalTypes' /\ OnlyMoves(p)
    BY <1>1, <1>2, <1>3, <1>4, <1>5 DEF LocalTypes, OnlyMoves
  <1>7. p \in Request => RequestOK(p)'
    BY <1>2, Going DEF store
  <1> QED
    BY <1>6, <1>7, LocalStep

\* A local step that answers: what is left to show is that the outcome it tells,
\* if any, is the transfer's.
LEMMA LocalAnswer ==
  ASSUME IInv, NEW p \in Process, NEW http, NEW st, Answer(p, http, st),
         UNCHANGED <<store, world, cmd, target, call, faults>>, call[p] = "none",
         UNCHANGED seen \/ \E row \in SeenRows : seen' = [seen EXCEPT ![p] = row],
         st \in Terminal /\ p \in Request =>
           Exists(target[p]) /\ command[target[p]] = cmd[p] /\ status[target[p]] = st
  PROVE  IInv'
  <1>1. Types /\ LocalTypes
    BY Parts
  <1>2. /\ seen' \in [Process -> SeenRows]
        /\ \A o \in Process \ {p} : seen'[o] = seen[o]
    BY <1>1 DEF LocalTypes
  <1>3. LocalTypes' /\ OnlyMoves(p)
    BY <1>1, <1>2, AnswerFacts DEF LocalTypes, OnlyMoves
  <1>4. st \in Terminal /\ p \in Request =>
          Exists(target[p])' /\ command'[target[p]] = cmd'[p] /\ status'[target[p]] = st
    BY DEF store, Exists
  <1>5. ProcessOK(p)' /\ (p \in Request => RequestOK(p)')
    BY <1>1, <1>4, Answering
  <1> QED
    BY <1>3, <1>5, LocalStep

\* Adopting the transfer that a key belongs to.
LEMMA AdoptInv ==
  ASSUME IInv, NEW p \in Process, NEW t \in Created, Adopt(p, t),
         pc[p] \in {"find", "claim"}, UNCHANGED <<store, world, cmd, call, reply, faults>>
  PROVE  IInv'
  <1>1. /\ Types /\ LocalTypes /\ ProcessOK(p)
        /\ t \in Request /\ status[t] # "NONE"
    BY Parts DEF Created
  <1>2. Row(t) \in SeenRows
    BY <1>1, RowType
  <1>3. target'[p] = t /\ seen'[p] = Row(t) /\ pc'[p] = "existing"
    BY <1>1 DEF Adopt, Go, LocalTypes
  <1>4. ProcessOK(p)'
    BY <1>1, <1>3 DEF ProcessOK, Working, Exists, store, Row
  <1> QED
    BY <1>1, <1>2, <1>4, LocalGo DEF Adopt, LocalTypes, Labels

\* The transfer of a key that was read exists.
LEMMA FindByKeyInv ==
  ASSUME IInv, NEW p \in Process, FindByKey(p)
  PROVE  IInv'
  <1>1. LocalTypes /\ ProcessOK(p) /\ (p \in Request => RequestOK(p))
    BY Parts
  <1>2. CASE \E t \in WithKey(cmd[p]) : Adopt(p, t)
    BY <1>2, AdoptInv DEF FindByKey, WithKey
  <1>3. CASE Go(p, "claim") /\ UNCHANGED <<target, seen>>
    <2>1. pc'[p] = "claim"
      BY <1>1, <1>3 DEF Go, LocalTypes
    <2>2. ProcessOK(p)'
      BY <1>1, <2>1 DEF ProcessOK, Working, FindByKey
    <2> QED
      BY <1>1, <1>3, <2>2, LocalGo DEF FindByKey, RequestOK, LocalTypes, Labels
  <1> QED
    BY <1>2, <1>3 DEF FindByKey

\* A request that lost the race for its key looks again.
LEMMA ClaimLostInv ==
  ASSUME IInv, NEW p \in Process, ClaimLost(p)
  PROVE  IInv'
  <1>1. call[p] = "none"
    BY Parts DEF ProcessOK, ClaimLost
  <1>2. CASE \E t \in WithKey(cmd[p]) : Adopt(p, t) /\ UNCHANGED reply
    BY <1>2, AdoptInv DEF ClaimLost, WithKey
  <1>3. CASE Answer(p, "409", "NONE") /\ UNCHANGED <<target, seen>>
    BY <1>1, <1>3, LocalAnswer DEF ClaimLost, Terminal
  <1> QED
    BY <1>2, <1>3 DEF ClaimLost

\* A claim that the database refuses leaves no transfer behind.
LEMMA ClaimRefusedInv ==
  ASSUME IInv, NEW p \in Process, ClaimRefused(p)
  PROVE  IInv'
  <1>1. call[p] = "none"
    BY Parts DEF ProcessOK, ClaimRefused
  <1> QED
    BY <1>1, LocalAnswer DEF ClaimRefused, Terminal

\* A replay answers with the transfer as it is, or goes on with it.
LEMMA HandleExistingInv ==
  ASSUME IInv, NEW p \in Process, HandleExisting(p)
  PROVE  IInv'
  <1> DEFINE t == target[p]
  <1>1. /\ LocalTypes /\ ProcessOK(p) /\ pc[p] = "existing" /\ call[p] = "none"
        /\ t \in Request /\ status[t] # "NONE" /\ Exists(t)
    BY Parts DEF HandleExisting, ProcessOK, Working, Labels, Exists
  <1>2. TransferOK(t)
    BY <1>1, Parts
  <1>3. CASE Answer(p, "409", "NONE")
    BY <1>1, <1>3, LocalAnswer DEF HandleExisting, Terminal
  <1>4. CASE /\ command[t] = cmd[p] /\ seen[p].record.state # "PROCESSING"
             /\ Answer(p, seen[p].record.http, seen[p].record.state)
    <2>1. seen[p].record = record[t]
      BY <1>1, <1>4 DEF ProcessOK
    <2>2. status[t] = seen[p].record.state
      BY <1>1, <1>2, <1>4, <2>1 DEF TransferOK
    <2> QED
      BY <1>1, <1>4, <2>2, LocalAnswer DEF HandleExisting
  <1>5. CASE command[t] = cmd[p] /\ Go(p, "reconcile") /\ UNCHANGED reply
    <2>1. pc'[p] = "reconcile"
      BY <1>1, <1>5 DEF Go, LocalTypes
    <2>2. ProcessOK(p)'
      BY <1>1, <1>5, <2>1 DEF HandleExisting, ProcessOK, Working, Labels, Exists, store
    <2> QED
      BY <1>1, <1>5, <2>2, LocalGo DEF HandleExisting, LocalTypes, Labels
  <1> QED
    BY <1>3, <1>4, <1>5 DEF HandleExisting

\* A reconciler takes up a transfer that exists.
LEMMA StartReconcileInv ==
  ASSUME IInv, NEW w \in Reconciler, NEW t \in Request, StartReconcile(w, t)
  PROVE  IInv'
  <1>1. w \in Process /\ w \notin Request
    BY ProcessAssumption DEF Process
  <1>2. LocalTypes /\ ProcessOK(w) /\ call[w] = "none"
    BY <1>1, Parts DEF StartReconcile, ProcessOK
  <1>3. pc'[w] = "reconcile" /\ target'[w] = t
    BY <1>1, <1>2 DEF StartReconcile, Go, LocalTypes
  <1>4. status[t] # "NONE"
    BY DEF StartReconcile, FindStale
  <1>5. ProcessOK(w)'
    BY <1>1, <1>2, <1>3, <1>4 DEF StartReconcile, ProcessOK, Working, Labels, Exists, store
  <1> QED
    BY <1>1, <1>2, <1>5, LocalGo DEF StartReconcile, LocalTypes, Labels

\* The transfer that a process works on, which a request also sent.
LEMMA WorksOn ==
  ASSUME IInv, NEW p \in Process, pc[p] \in Working \ {"existing"}
  PROVE  /\ LocalTypes /\ ProcessOK(p) /\ Row(target[p]) \in SeenRows
         /\ target[p] \in Request /\ status[target[p]] # "NONE" /\ Exists(target[p])
         /\ TransferOK(target[p])
         /\ p \in Request => command[target[p]] = cmd[p]
  <1>1. target[p] \in Request /\ status[target[p]] # "NONE" /\ Exists(target[p])
    BY Parts DEF ProcessOK, Exists
  <1> QED
    BY <1>1, Parts, RowType DEF ProcessOK

\* It reads the transfer and decides where to go on.
LEMMA ReconcileInv ==
  ASSUME IInv, NEW p \in Process, Reconcile(p)
  PROVE  IInv'
  <1> DEFINE t == target[p]
  <1>1. pc[p] = "reconcile" /\ pc[p] \in Working \ {"existing"}
    BY DEF Reconcile, Working, Labels
  <1>2. /\ LocalTypes /\ ProcessOK(p) /\ Row(t) \in SeenRows /\ t \in Request
        /\ status[t] # "NONE" /\ Exists(t) /\ (p \in Request => command[t] = cmd[p])
    BY <1>1, WorksOn
  <1>3. call[p] = "none"
    BY <1>1, <1>2 DEF ProcessOK
  <1>4. CASE status[t] = "PENDING" /\ International(t) /\ Go(p, "reread") /\ UNCHANGED reply
    <2>1. pc'[p] = "reread"
      BY <1>2, <1>4 DEF Go, LocalTypes
    <2>2. ProcessOK(p)'
      BY <1>2, <1>3, <1>4, <2>1
      DEF Reconcile, ProcessOK, Working, Labels, Exists, store, International
    <2> QED
      BY <1>1, <1>2, <1>4, <2>2, LocalGo DEF Reconcile, LocalTypes, Labels
  <1>5. CASE Go(p, "byReference") /\ UNCHANGED reply
    <2>1. pc'[p] = "byReference"
      BY <1>2, <1>5 DEF Go, LocalTypes
    <2>2. ProcessOK(p)'
      BY <1>2, <1>3, <1>5, <2>1 DEF Reconcile, ProcessOK, Working, Labels, Exists, store
    <2> QED
      BY <1>1, <1>2, <1>5, <2>2, LocalGo DEF Reconcile, LocalTypes, Labels
  <1>6. CASE AnswerWith(p, status[t])
    BY <1>2, <1>3, <1>6, LocalAnswer DEF Reconcile, AnswerWith
  <1> QED
    BY <1>4, <1>5, <1>6 DEF Reconcile

\* A transfer that was read again has only moved on.
LEMMA RereadInv ==
  ASSUME IInv, NEW p \in Process, Reread(p)
  PROVE  IInv'
  <1> DEFINE t == target[p]
  <1>1. pc[p] = "reread" /\ pc[p] \in Working \ {"existing"}
    BY DEF Reread, Working, Labels
  <1>2. /\ LocalTypes /\ ProcessOK(p) /\ Row(t) \in SeenRows /\ t \in Request
        /\ status[t] # "NONE" /\ Exists(t) /\ (p \in Request => command[t] = cmd[p])
    BY <1>1, WorksOn
  <1>3. call[p] = "none" /\ International(t)
    BY <1>1, <1>2 DEF ProcessOK
  <1>4. CASE status[t] = "PENDING" /\ Go(p, "prepare") /\ UNCHANGED reply
    <2>1. pc'[p] = "prepare" /\ seen'[p] = Row(t)
      BY <1>2, <1>4 DEF Go, LocalTypes, Reread
    <2>2. seen'[p].status = "PENDING"
      BY <1>4, <2>1 DEF Row
    <2>3. ProcessOK(p)'
      BY <1>2, <1>3, <2>1, <2>2
      DEF Reread, ProcessOK, Working, Labels, Exists, store, International
    <2> QED
      BY <1>1, <1>2, <1>4, <2>3, LocalGo DEF Reread, LocalTypes, Labels
  <1>5. CASE AnswerWith(p, status[t])
    BY <1>2, <1>3, <1>5, LocalAnswer DEF Reread, AnswerWith
  <1> QED
    BY <1>4, <1>5 DEF Reread

\* What the Ledger has under a reference was posted for that transfer.
LEMMA ByReferenceInv ==
  ASSUME IInv, NEW p \in Process, ByReference(p)
  PROVE  IInv'
  <1> DEFINE t == target[p]
  <1>1. pc[p] = "byReference" /\ pc[p] \in Working \ {"existing"}
    BY DEF ByReference, Working, Labels
  <1>2. /\ LocalTypes /\ ProcessOK(p) /\ Exists(t) /\ (p \in Request => command[t] = cmd[p])
    BY <1>1, WorksOn
  <1>3. call[p] = "none"
    BY <1>1, <1>2 DEF ProcessOK
  <1>4. CASE t \in posted /\ Go(p, "complete") /\ UNCHANGED reply
    <2>1. pc'[p] = "complete"
      BY <1>2, <1>4 DEF Go, LocalTypes
    <2>2. ProcessOK(p)'
      BY <1>2, <1>3, <1>4, <2>1
      DEF ByReference, ProcessOK, Working, Labels, Exists, store, world
    <2> QED
      BY <1>1, <1>2, <1>4, <2>2, LocalGo DEF ByReference, LocalTypes, Labels
  <1>5. CASE Go(p, "retry") /\ UNCHANGED reply
    <2>1. pc'[p] = "retry"
      BY <1>2, <1>5 DEF Go, LocalTypes
    <2>2. ProcessOK(p)'
      BY <1>2, <1>3, <1>5, <2>1 DEF ByReference, ProcessOK, Working, Labels, Exists, store
    <2> QED
      BY <1>1, <1>2, <1>5, <2>2, LocalGo DEF ByReference, LocalTypes, Labels
  <1>6. CASE AnswerWith(p, "PROCESSING")
    BY <1>2, <1>3, <1>6, LocalAnswer DEF ByReference, AnswerWith, Terminal
  <1> QED
    BY <1>4, <1>5, <1>6 DEF ByReference

\* The failure that a process goes on to record.
LEMMA GoFailInv ==
  ASSUME IInv, NEW p \in Process, NEW http \in Codes, GoFail(p, http),
         pc[p] \in Working \ {"existing"},
         UNCHANGED <<store, world, cmd, target, seen, reply>>, faults' \in 0..MaxFaults
  PROVE  IInv'
  <1>1. /\ LocalTypes /\ Exists(target[p])
        /\ (p \in Request => command[target[p]] = cmd[p])
    BY WorksOn
  <1>2. pc'[p] = "fail" /\ call'[p] = http
    BY <1>1 DEF GoFail, Go, LocalTypes
  <1>3. ProcessOK(p)'
    BY <1>1, <1>2 DEF ProcessOK, Working, Labels, Exists, store
  <1> QED
    BY <1>3, LocalGo DEF GoFail, Working, Labels, Calls

\* The quote is bound before anything is posted.
LEMMA PrepareInternationalInv ==
  ASSUME IInv, NEW p \in Process, PrepareInternational(p)
  PROVE  IInv'
  <1> DEFINE t == target[p]
  <1>1. pc[p] = "prepare" /\ call[p] = "none" /\ pc[p] \in Working \ {"existing"}
    BY DEF PrepareInternational, Working, Labels
  <1>2. /\ LocalTypes /\ ProcessOK(p) /\ Exists(t) /\ (p \in Request => command[t] = cmd[p])
    BY <1>1, WorksOn
  <1>3. International(t) /\ seen[p].status = "PENDING"
    BY <1>1, <1>2 DEF ProcessOK
  <1>4. CASE consumer[command[t].quote] = t /\ Go(p, "prepared") /\ UNCHANGED call
    <2>1. pc'[p] = "prepared"
      BY <1>2, <1>4 DEF Go, LocalTypes
    <2>2. ProcessOK(p)'
      BY <1>1, <1>2, <1>3, <1>4, <2>1
      DEF PrepareInternational, ProcessOK, Working, Labels, Exists, store, world, International
    <2> QED
      BY <1>1, <1>2, <1>4, <2>2, LocalGo DEF PrepareInternational, LocalTypes, Labels
  <1>5. CASE call' = [call EXCEPT ![p] = "consume"] /\ UNCHANGED pc
    <2>1. pc'[p] = "prepare" /\ call'[p] = "consume" /\ Go(p, "prepare")
      BY <1>1, <1>2, <1>5 DEF Go, LocalTypes
    <2>2. ProcessOK(p)'
      BY <1>1, <1>2, <1>3, <1>5, <2>1
      DEF PrepareInternational, ProcessOK, Working, Labels, Exists, store, world, International
    <2> QED
      BY <1>1, <1>2, <1>5, <2>1, <2>2, LocalGo
      DEF PrepareInternational, LocalTypes, Labels, Calls
  <1>6. CASE GoFail(p, "409")
    BY <1>1, <1>2, <1>6, GoFailInv DEF PrepareInternational, Codes, LocalTypes
  <1> QED
    BY <1>4, <1>5, <1>6 DEF PrepareInternational

\* The transfer that process reads exists.
LEMMA ReadForProcessInv ==
  ASSUME IInv, NEW p \in Process, ReadForProcess(p)
  PROVE  IInv'
  <1> DEFINE t == target[p]
  <1>1. pc[p] = "process" /\ pc[p] \in Working \ {"existing"}
    BY DEF ReadForProcess, Working, Labels
  <1>2. /\ LocalTypes /\ ProcessOK(p) /\ Exists(t) /\ TransferOK(t)
        /\ (p \in Request => command[t] = cmd[p])
    BY <1>1, WorksOn
  <1>3. call[p] = "none"
    BY <1>1, <1>2 DEF ProcessOK
  <1>4. CASE status[t] = "PROCESSING" /\ Go(p, "validate") /\ UNCHANGED reply
    <2>1. pc'[p] = "validate"
      BY <1>2, <1>4 DEF Go, LocalTypes
    <2>2. Started(t)
      BY <1>2, <1>4 DEF TransferOK
    <2>3. ProcessOK(p)'
      BY <1>2, <1>3, <2>1, <2>2
      DEF ReadForProcess, ProcessOK, Working, Labels, Exists, Started, International, store, world
    <2> QED
      BY <1>1, <1>2, <1>4, <2>3, LocalGo DEF ReadForProcess, LocalTypes, Labels
  <1>5. CASE AnswerWith(p, status[t])
    BY <1>2, <1>3, <1>5, LocalAnswer DEF ReadForProcess, AnswerWith
  <1> QED
    BY <1>4, <1>5 DEF ReadForProcess

\* Wallets are checked before the transfer moves on.
LEMMA ValidateWalletsInv ==
  ASSUME IInv, NEW p \in Process, ValidateWallets(p)
  PROVE  IInv'
  <1> DEFINE t == target[p]
  <1>1. pc[p] = "validate" /\ pc[p] \in Working \ {"existing"}
    BY DEF ValidateWallets, Working, Labels
  <1>2. /\ LocalTypes /\ ProcessOK(p) /\ Exists(t) /\ (p \in Request => command[t] = cmd[p])
    BY <1>1, WorksOn
  <1>3. Started(t)
    BY <1>1, <1>2 DEF ProcessOK
  <1>4. CASE Go(p, "posting") /\ call' = [call EXCEPT ![p] = "lookup"]
    <2>1. pc'[p] = "posting" /\ call'[p] = "lookup"
      BY <1>2, <1>4 DEF Go, LocalTypes
    <2>2. ProcessOK(p)'
      BY <1>2, <1>3, <2>1
      DEF ValidateWallets, ProcessOK, Working, Labels, Exists, Started, International, store, world
    <2> QED
      BY <1>1, <1>2, <1>4, <2>2, LocalGo DEF ValidateWallets, LocalTypes, Labels, Calls
  <1>5. CASE GoFail(p, "409")
    BY <1>1, <1>2, <1>5, GoFailInv DEF ValidateWallets, Codes, LocalTypes
  <1> QED
    BY <1>4, <1>5 DEF ValidateWallets

\* A fault that the bound allows.
LEMMA FaultType ==
  ASSUME LocalTypes, Fault
  PROVE  faults' \in 0..MaxFaults
  BY FaultsAssumption DEF LocalTypes, Fault

\* Without an answer of Account the transfer is about to be failed.
LEMMA AccountUnavailableInv ==
  ASSUME IInv, NEW p \in Process, AccountUnavailable(p)
  PROVE  IInv'
  <1>1. pc[p] \in Working \ {"existing"} /\ LocalTypes
    BY Parts DEF AccountUnavailable, Working, Labels
  <1>2. faults' \in 0..MaxFaults
    BY <1>1, FaultType DEF AccountUnavailable
  <1> QED
    BY <1>1, <1>2, GoFailInv DEF AccountUnavailable, Codes

\* A lookup finds a posting only if there is one.
LEMMA LedgerLookupInv ==
  ASSUME IInv, NEW p \in Process, LedgerLookup(p)
  PROVE  IInv'
  <1> DEFINE t == target[p]
  <1>1. pc[p] = "posting" /\ pc[p] \in Working \ {"existing"}
    BY DEF LedgerLookup, Working, Labels
  <1>2. /\ LocalTypes /\ ProcessOK(p) /\ Exists(t) /\ (p \in Request => command[t] = cmd[p])
    BY <1>1, WorksOn
  <1>3. Started(t)
    BY <1>1, <1>2 DEF ProcessOK
  <1>4. /\ pc'[p] = "posting" /\ Go(p, "posting")
        /\ call'[p] = IF t \in posted THEN "ok" ELSE "post"
    BY <1>1, <1>2 DEF Go, LocalTypes, LedgerLookup
  <1>5. ProcessOK(p)'
    BY <1>2, <1>3, <1>4
    DEF LedgerLookup, ProcessOK, Working, Labels, Exists, Started, International, store, world
  <1> QED
    BY <1>1, <1>2, <1>4, <1>5, LocalGo DEF LedgerLookup, LocalTypes, Labels, Calls

\* An answer of the Ledger is followed as it was given.
LEMMA LedgerAnswerInv ==
  ASSUME IInv, NEW p \in Process, LedgerAnswer(p)
  PROVE  IInv'
  <1> DEFINE t == target[p]
  <1>1. pc[p] = "posting" /\ pc[p] \in Working \ {"existing"}
    BY DEF LedgerAnswer, Working, Labels
  <1>2. /\ LocalTypes /\ ProcessOK(p) /\ Exists(t) /\ (p \in Request => command[t] = cmd[p])
    BY <1>1, WorksOn
  <1>3. CASE call[p] = "ok" /\ Go(p, "complete") /\ call' = [call EXCEPT ![p] = "none"]
    <2>1. pc'[p] = "complete" /\ call'[p] = "none" /\ t \in posted
      BY <1>1, <1>2, <1>3 DEF Go, LocalTypes, ProcessOK
    <2>2. ProcessOK(p)'
      BY <1>2, <2>1 DEF LedgerAnswer, ProcessOK, Working, Labels, Exists, store, world
    <2> QED
      BY <1>1, <1>2, <1>3, <2>2, LocalGo DEF LedgerAnswer, LocalTypes, Labels, Calls
  <1>4. CASE GoFail(p, "422")
    BY <1>1, <1>2, <1>4, GoFailInv DEF LedgerAnswer, Codes, LocalTypes
  <1> QED
    BY <1>3, <1>4 DEF LedgerAnswer

-----------------------------------------------------------------------------
(* Steps that write the tables of the service *)

\* No step but Claim creates a transfer, so keys and quotes stay unique.
LEMMA UniqueKeeps ==
  ASSUME IInv, UNCHANGED command, Created' = Created
  PROVE  ClaimsAreUnique'
  BY DEF IInv, ClaimsAreUnique

\* A retry takes the next version of a transfer in process, or answers.
LEMMA ClaimRetryInv ==
  ASSUME IInv, NEW p \in Process, ClaimRetry(p)
  PROVE  IInv'
  <1> DEFINE t == target[p]
  <1>1. pc[p] = "retry" /\ pc[p] \in Working \ {"existing"}
    BY DEF ClaimRetry, Working, Labels
  <1>2. /\ LocalTypes /\ ProcessOK(p) /\ Exists(t) /\ t \in Request
        /\ (p \in Request => command[t] = cmd[p])
    BY <1>1, WorksOn
  <1>3. call[p] = "none" /\ Types
    BY <1>1, <1>2, Parts DEF ProcessOK
  <1>4. Grows
    BY DEF Grows, GrowsTransfer, ClaimRetry, world
  <1>5. \A u \in Request : TransferOK(u)'
    BY <1>4, TransferKeeps DEF ClaimRetry, world
  <1>6. ClaimsAreUnique'
    BY UniqueKeeps DEF ClaimRetry, Created
  <1>7. version' \in [Request -> Nat]
    BY <1>2, <1>3 DEF ClaimRetry, Types, TypeOK
  <1>8. CASE Go(p, "process") /\ UNCHANGED reply
    <2>1. /\ pc' \in [Process -> Labels] /\ pc'[p] = "process"
          /\ \A o \in Process \ {p} : pc'[o] = pc[o]
      BY <1>3, <1>8, GoFacts DEF Labels
    <2>2. Types' /\ OnlyMoves(p)
      BY <1>3, <1>7, <1>8, <2>1 DEF Types, TypeOK, OnlyMoves, ClaimRetry, world
    <2>3. ProcessOK(p)'
      BY <1>2, <1>3, <2>1 DEF ClaimRetry, ProcessOK, Working, Labels, Exists
    <2>4. p \in Request => RequestOK(p)'
      BY <1>1, <1>8, <2>1, Going
    <2> QED
      BY <1>4, <1>5, <1>6, <2>2, <2>3, <2>4, ProcessStep DEF ClaimRetry
  <1>9. CASE AnswerWith(p, status[t])
    <2>1. Types' /\ OnlyMoves(p)
      BY <1>3, <1>7, <1>9, AnswerFacts DEF Types, TypeOK, OnlyMoves, ClaimRetry, world, AnswerWith
    <2>2. ProcessOK(p)' /\ (p \in Request => RequestOK(p)')
      BY <1>2, <1>3, <1>9, Answering DEF ClaimRetry, AnswerWith, Exists
    <2> QED
      BY <1>4, <1>5, <1>6, <2>1, <2>2, ProcessStep DEF ClaimRetry
  <1> QED
    BY <1>8, <1>9 DEF ClaimRetry

\* The transfer t moves on to status st, its history to h and its record to rec.
MovesOn(t, st, h, rec) ==
  /\ status' = [status EXCEPT ![t] = st]
  /\ version' = [version EXCEPT ![t] = @ + 1]
  /\ history' = [history EXCEPT ![t] = h]
  /\ record' = [record EXCEPT ![t] = rec]
  /\ UNCHANGED <<command, world>>

\* What moving on writes.
LEMMA MovesAt ==
  ASSUME Types, NEW t \in Request, NEW st \in Statuses, NEW h \in Statuses, NEW rec \in Records,
         MovesOn(t, st, h, rec)
  PROVE  /\ status' \in [Request -> Statuses] /\ history' \in [Request -> Statuses]
         /\ version' \in [Request -> Nat] /\ record' \in [Request -> Records]
         /\ status'[t] = st /\ history'[t] = h /\ record'[t] = rec
         /\ \A u \in Request \ {t} : /\ status'[u] = status[u] /\ history'[u] = history[u]
                                     /\ record'[u] = record[u]
  BY DEF Types, TypeOK, MovesOn

\* A transfer may move on from PENDING to PROCESSING, and from both to a terminal
\* status, if its own rows agree afterwards.
LEMMA MovesKeep ==
  ASSUME IInv, NEW t \in Request, NEW st \in Statuses \ {"NONE", "PENDING"},
         NEW h \in Statuses, NEW rec \in Records, MovesOn(t, st, h, rec),
         status[t] \in {"PENDING", "PROCESSING"}, TransferOK(t)'
  PROVE  /\ Grows /\ (\A u \in Request : TransferOK(u)') /\ ClaimsAreUnique'
         /\ \A r \in Request : pc[r] \in {"idle", "find", "claim"} => status'[r] = status[r]
  <1> USE DEF world
  <1>1. Types /\ st \in Statuses
    BY DEF IInv
  <1>2. /\ status'[t] = st
        /\ \A u \in Request \ {t} : /\ status'[u] = status[u] /\ history'[u] = history[u]
                                    /\ record'[u] = record[u]
    BY <1>1, MovesAt
  <1>3. Grows
    BY <1>2 DEF Grows, GrowsTransfer, MovesOn, Terminal
  <1>4. \A u \in Request \ {t} : TransferOK(u)'
    BY <1>2, <1>3, TransferKeeps DEF MovesOn
  <1>5. ClaimsAreUnique'
    BY <1>2, UniqueKeeps DEF MovesOn, Created
  <1>6. \A r \in Request : pc[r] \in {"idle", "find", "claim"} => status'[r] = status[r]
    BY <1>2 DEF IInv, RequestOK
  <1> QED
    BY <1>3, <1>4, <1>5, <1>6

\* A transfer that starts: a domestic one, or one that FX has bound its quote to.
LEMMA StartKeeps ==
  ASSUME IInv, NEW t \in Request, status[t] = "PENDING",
         MovesOn(t, "PROCESSING", "PROCESSING", record[t]),
         International(t) => consumer[command[t].quote] = t
  PROVE  TransferOK(t)'
  <1>1. Types /\ TransferOK(t) /\ record[t] \in Records
    BY DEF IInv, Types
  <1>2. status'[t] = "PROCESSING" /\ history'[t] = "PROCESSING" /\ record'[t] = record[t]
    BY <1>1, MovesAt DEF Statuses
  <1>3. Started(t)'
    BY <1>2 DEF Started, Exists, International, MovesOn, world
  <1> QED
    BY <1>1, <1>2, <1>3 DEF TransferOK, MovesOn, world, Terminal, Exists, International

\* A transfer is started once, by a conditional update.
LEMMA TransitionInv ==
  ASSUME IInv, NEW p \in Process, Transition(p)
  PROVE  IInv'
  <1>1. pc[p] = "transition" /\ pc[p] \in Working \ {"existing"}
    BY DEF Transition, Working, Labels
  <1> PICK t \in Request : t = target[p]
    BY <1>1, WorksOn
  <1>2. /\ LocalTypes /\ ProcessOK(p) /\ Exists(t)
        /\ (p \in Request => command[t] = cmd[p])
    BY <1>1, WorksOn
  <1>3. call[p] = "none" /\ ~International(t) /\ Types
    BY <1>1, <1>2, Parts DEF ProcessOK
  <1>4. /\ pc' \in [Process -> Labels] /\ pc'[p] = "process"
        /\ \A o \in Process \ {p} : pc'[o] = pc[o]
    BY <1>3, GoFacts DEF Transition, Labels
  <1>5. p \in Request => RequestOK(p)'
    BY <1>1, <1>4, Going DEF Transition
  <1>6. OnlyMoves(p)
    BY <1>4 DEF OnlyMoves, Transition
  <1>7. CASE status[t] = "PENDING"
    <2>1. MovesOn(t, "PROCESSING", "PROCESSING", record[t]) /\ record[t] \in Records
      BY <1>2, <1>3, <1>7 DEF Transition, MovesOn, Types
    <2>2. TransferOK(t)'
      BY <1>2, <1>3, <1>7, <2>1, StartKeeps
    <2>3. /\ status' \in [Request -> Statuses] /\ history' \in [Request -> Statuses]
          /\ version' \in [Request -> Nat] /\ status'[t] = "PROCESSING"
      BY <1>2, <1>3, <2>1, MovesAt DEF Statuses
    <2>4. Types'
      BY <1>3, <1>4, <2>3 DEF Types, TypeOK, Transition, world
    <2>5. ProcessOK(p)'
      BY <1>2, <1>3, <1>4, <2>3 DEF ProcessOK, Transition, Working, Labels, Exists
    <2>6. /\ Grows /\ (\A u \in Request : TransferOK(u)') /\ ClaimsAreUnique'
          /\ \A r \in Request : pc[r] \in {"idle", "find", "claim"} => status'[r] = status[r]
      BY <1>2, <1>7, <2>1, <2>2, MovesKeep DEF Statuses
    <2> QED
      BY <1>5, <1>6, <2>4, <2>5, <2>6, ProcessStep
  <1>8. CASE status[t] # "PENDING"
    <2>1. UNCHANGED <<store, world>>
      BY <1>8 DEF Transition, store
    <2>2. ProcessOK(p)'
      BY <1>2, <1>3, <1>4, <2>1 DEF ProcessOK, Transition, Working, Labels, Exists, store
    <2>3. LocalTypes'
      BY <1>2, <1>4 DEF LocalTypes, Transition
    <2> QED
      BY <1>5, <1>6, <2>1, <2>2, <2>3, LocalStep
  <1> QED
    BY <1>7, <1>8

\* A prepared quote is stored with the transfer that it is for.
LEMMA PreparedInv ==
  ASSUME IInv, NEW p \in Process, Prepared(p)
  PROVE  IInv'
  <1>1. pc[p] = "prepared" /\ pc[p] \in Working \ {"existing"}
    BY DEF Prepared, Working, Labels
  <1> PICK t \in Request : t = target[p]
    BY <1>1, WorksOn
  <1>2. /\ LocalTypes /\ ProcessOK(p) /\ Exists(t) /\ (p \in Request => command[t] = cmd[p])
    BY <1>1, WorksOn
  <1>3. call[p] = "none" /\ consumer[command[t].quote] = t /\ Types
    BY <1>1, <1>2, Parts DEF ProcessOK
  <1>4. CASE status[t] = "PENDING"
    <2>1. MovesOn(t, "PROCESSING", "PROCESSING", record[t]) /\ record[t] \in Records
      BY <1>2, <1>3, <1>4 DEF Prepared, MovesOn, Types
    <2>2. TransferOK(t)'
      BY <1>2, <1>3, <1>4, <2>1, StartKeeps
    <2>3. /\ status' \in [Request -> Statuses] /\ history' \in [Request -> Statuses]
          /\ version' \in [Request -> Nat] /\ status'[t] = "PROCESSING"
      BY <1>2, <1>3, <2>1, MovesAt DEF Statuses
    <2>4. /\ Grows /\ (\A u \in Request : TransferOK(u)') /\ ClaimsAreUnique'
          /\ \A r \in Request : pc[r] \in {"idle", "find", "claim"} => status'[r] = status[r]
      BY <1>2, <1>4, <2>1, <2>2, MovesKeep DEF Statuses
    <2>5. /\ pc' \in [Process -> Labels] /\ pc'[p] = "process" /\ UNCHANGED reply
          /\ \A o \in Process \ {p} : pc'[o] = pc[o]
      BY <1>3, <1>4, GoFacts DEF Prepared, Labels
    <2>6. Types' /\ OnlyMoves(p)
      BY <1>3, <2>3, <2>5 DEF Types, TypeOK, OnlyMoves, Prepared, world
    <2>7. ProcessOK(p)'
      BY <1>2, <1>3, <2>3, <2>5 DEF ProcessOK, Prepared, Working, Labels, Exists
    <2>8. p \in Request => RequestOK(p)'
      BY <1>1, <2>5, Going
    <2> QED
      BY <2>4, <2>6, <2>7, <2>8, ProcessStep
  <1>5. CASE status[t] # "PENDING"
    <2>1. UNCHANGED store /\ AnswerWith(p, status[t])
      BY <1>5 DEF Prepared, store
    <2> QED
      BY <1>2, <1>3, <2>1, LocalAnswer DEF Prepared, AnswerWith
  <1> QED
    BY <1>4, <1>5

\* A transfer settles with its record.
LEMMA SettleKeeps ==
  ASSUME IInv, NEW t \in Request, status[t] \in {"PENDING", "PROCESSING"},
         NEW st \in Terminal, NEW http \in {"201"} \cup Codes, NEW h \in Statuses,
         MovesOn(t, st, h, [state |-> st, http |-> http]),
         \/ h = st
         \/ h = "NONE" /\ International(t) /\ st = "FAILED",
         st = "COMPLETED" => t \in posted
  PROVE  TransferOK(t)'
  <1>1. Types /\ TransferOK(t) /\ st \in Statuses
    BY DEF IInv, Statuses
  <1>2. [state |-> st, http |-> http] \in Records
    BY DEF Records
  <1>3. status'[t] = st /\ history'[t] = h /\ record'[t] = [state |-> st, http |-> http]
    BY <1>1, <1>2, MovesAt
  <1>4. status'[t] # "NONE" /\ record'[t] # NoRecord /\ st # "PROCESSING" /\ http # "none"
    BY <1>3 DEF NoRecord, Terminal, Codes
  <1>5. status[t] = "PROCESSING" \/ t \in posted => Started(t)
    BY <1>1 DEF TransferOK
  <1>6. Started(t) => Started(t)'
    BY <1>3 DEF Started, Exists, International, MovesOn, world, Terminal
  <1>7. t \in posted \/ <<"ledger", t>> \in late => Started(t)'
    BY <1>1, <1>6 DEF TransferOK
  <1>8. Exists(t)' /\ (International(t)' = International(t))
    BY <1>4 DEF Exists, International, MovesOn
  <1> QED
    BY <1>1, <1>3, <1>4, <1>7, <1>8 DEF TransferOK, MovesOn, world, Terminal

\* A transfer is completed after its posting, with its record.
LEMMA CompleteInv ==
  ASSUME IInv, NEW p \in Process, Complete(p)
  PROVE  IInv'
  <1>1. pc[p] = "complete" /\ pc[p] \in Working \ {"existing"}
    BY DEF Complete, Working, Labels
  <1> PICK t \in Request : t = target[p]
    BY <1>1, WorksOn
  <1>2. /\ LocalTypes /\ ProcessOK(p) /\ Exists(t) /\ (p \in Request => command[t] = cmd[p])
    BY <1>1, WorksOn
  <1>3. call[p] = "none" /\ t \in posted /\ Types
    BY <1>1, <1>2, Parts DEF ProcessOK
  <1>4. CASE status[t] = "PROCESSING"
    <2> DEFINE rec == [state |-> "COMPLETED", http |-> "201"]
    <2>1. MovesOn(t, "COMPLETED", "COMPLETED", rec) /\ rec \in Records
      BY <1>4 DEF Complete, MovesOn, Records, Terminal
    <2>2. TransferOK(t)'
      BY <1>3, <1>4, <2>1, SettleKeeps DEF Statuses, Terminal
    <2>3. /\ status' \in [Request -> Statuses] /\ history' \in [Request -> Statuses]
          /\ version' \in [Request -> Nat] /\ record' \in [Request -> Records]
          /\ status'[t] = "COMPLETED"
      BY <1>3, <2>1, MovesAt DEF Statuses, Terminal
    <2>4. /\ Grows /\ (\A u \in Request : TransferOK(u)') /\ ClaimsAreUnique'
          /\ \A r \in Request : pc[r] \in {"idle", "find", "claim"} => status'[r] = status[r]
      BY <1>4, <2>1, <2>2, MovesKeep DEF Statuses, Terminal
    <2>5. Answer(p, HttpStatus("COMPLETED"), "COMPLETED")
      BY <2>3 DEF Complete, AnswerWith
    <2>6. Types' /\ OnlyMoves(p)
      BY <1>3, <2>3, <2>5, AnswerFacts DEF Types, TypeOK, OnlyMoves, Complete, world
    <2>7. ProcessOK(p)' /\ (p \in Request => RequestOK(p)')
      BY <1>2, <1>3, <2>3, <2>5, Answering DEF Complete, Exists
    <2> QED
      BY <2>4, <2>6, <2>7, ProcessStep
  <1>5. CASE status[t] # "PROCESSING"
    <2>1. UNCHANGED store /\ AnswerWith(p, status[t])
      BY <1>5 DEF Complete, store, AnswerWith
    <2> QED
      BY <1>2, <1>3, <2>1, LocalAnswer DEF Complete, AnswerWith
  <1> QED
    BY <1>4, <1>5

\* A transfer that has not settled is failed, together with its record.
LEMMA FailInv ==
  ASSUME IInv, NEW p \in Process, Fail(p)
  PROVE  IInv'
  <1>1. pc[p] = "fail" /\ pc[p] \in Working \ {"existing"}
    BY DEF Fail, Working, Labels
  <1> PICK t \in Request : t = target[p]
    BY <1>1, WorksOn
  <1>2. /\ LocalTypes /\ ProcessOK(p) /\ Exists(t) /\ TransferOK(t)
        /\ (p \in Request => command[t] = cmd[p])
    BY <1>1, WorksOn
  <1> PICK http \in Codes : http = call[p]
    BY <1>1, <1>2 DEF ProcessOK
  <1>3. Types
    BY Parts
  <1>4. /\ call' \in [Process -> Calls] /\ call'[p] = "none"
        /\ \A o \in Process \ {p} : call'[o] = call[o]
    BY <1>2 DEF Fail, LocalTypes, Calls
  <1>5. CASE status[t] \in {"PENDING", "PROCESSING"}
    <2> DEFINE rec == [state |-> "FAILED", http |-> http]
    <2> PICK h \in Statuses : h = IF history[t] = "NONE" THEN history[t] ELSE "FAILED"
      BY <1>3 DEF Types, TypeOK, Statuses, Terminal
    <2>1. MovesOn(t, "FAILED", h, rec) /\ rec \in Records
      BY <1>5 DEF Fail, MovesOn, Records, Terminal
    <2>2. TransferOK(t)'
      <3>1. h = "FAILED" \/ (h = "NONE" /\ International(t))
        BY <1>2, <1>5 DEF TransferOK, Exists
      <3> QED
        BY <1>5, <2>1, <3>1, SettleKeeps DEF Terminal
    <2>3. /\ status' \in [Request -> Statuses] /\ history' \in [Request -> Statuses]
          /\ version' \in [Request -> Nat] /\ record' \in [Request -> Records]
          /\ status'[t] = "FAILED"
      BY <1>3, <2>1, MovesAt DEF Statuses, Terminal
    <2>4. /\ Grows /\ (\A u \in Request : TransferOK(u)') /\ ClaimsAreUnique'
          /\ \A r \in Request : pc[r] \in {"idle", "find", "claim"} => status'[r] = status[r]
      BY <1>5, <2>1, <2>2, MovesKeep DEF Statuses, Terminal
    <2>5. Answer(p, http, "FAILED")
      BY <1>5 DEF Fail
    <2>6. Types' /\ OnlyMoves(p)
      BY <1>3, <1>4, <2>3, <2>5, AnswerFacts DEF Types, TypeOK, OnlyMoves, Fail, world
    <2>7. ProcessOK(p)' /\ (p \in Request => RequestOK(p)')
      BY <1>2, <1>3, <1>4, <2>3, <2>5, Answering DEF Fail, Exists
    <2> QED
      BY <2>4, <2>6, <2>7, ProcessStep
  <1>6. CASE status[t] \notin {"PENDING", "PROCESSING"}
    <2>1. UNCHANGED <<store, world>> /\ Answer(p, HttpStatus(status[t]), status[t])
      BY <1>6 DEF Fail, store, AnswerWith
    <2>2. LocalTypes' /\ OnlyMoves(p)
      BY <1>2, <1>3, <1>4, <2>1, AnswerFacts DEF LocalTypes, OnlyMoves, Fail
    <2>3. ProcessOK(p)' /\ (p \in Request => RequestOK(p)')
      BY <1>2, <1>3, <1>4, <2>1, Answering DEF Fail, Exists, store
    <2> QED
      BY <2>1, <2>2, <2>3, LocalStep
  <1> QED
    BY <1>5, <1>6

\* Transfer and record are created together, once for a key.
LEMMA ClaimInv ==
  ASSUME IInv, NEW p \in Process, Claim(p)
  PROVE  IInv'
  <1> PICK c \in Command : c = cmd[p]
    BY Parts DEF Claim, ProcessOK
  <1>1. pc[p] = "claim" /\ p \in Request /\ Types /\ ProcessOK(p) /\ RequestOK(p)
    BY Parts DEF Claim, ProcessOK
  <1>2. status[p] = "NONE" /\ call[p] = "none" /\ TransferOK(p)
    BY <1>1, Parts DEF ProcessOK, RequestOK
  <1>3. ValidCommand(c) /\ c.payload # "zero"
    BY CommandAssumption DEF Claim, AmountCheck
  <1>4. /\ status' \in [Request -> Statuses] /\ status'[p] = "PENDING"
        /\ \A u \in Request \ {p} : status'[u] = status[u]
    BY <1>1 DEF Claim, Types, TypeOK, Statuses
  <1>5. /\ command' \in [Request -> Bodies] /\ command'[p] = c
        /\ \A u \in Request \ {p} : command'[u] = command[u]
    BY <1>1 DEF Claim, Types, Bodies
  <1>6. [state |-> "PROCESSING", http |-> "none"] \in Records
    BY DEF Records
  <1>7. /\ record' \in [Request -> Records]
        /\ record'[p] = [state |-> "PROCESSING", http |-> "none"]
        /\ \A u \in Request \ {p} : record'[u] = record[u]
    BY <1>1, <1>6 DEF Claim, Types
  <1>8. /\ history' \in [Request -> Statuses]
        /\ history'[p] = IF c.type = "DOMESTIC" THEN "PENDING" ELSE "NONE"
        /\ \A u \in Request \ {p} : history'[u] = history[u]
    BY <1>1 DEF Claim, Types, TypeOK, Statuses
  <1>9. /\ target' \in [Process -> Request \cup {NoTransfer}] /\ target'[p] = p
        /\ \A o \in Process \ {p} : target'[o] = target[o]
    BY <1>1 DEF Claim, Types, TypeOK
  <1>10. [status |-> "PENDING", version |-> version[p], record |-> record'[p]] \in SeenRows
    BY <1>1, <1>7 DEF SeenRows, Statuses, Types, TypeOK
  <1>11. /\ seen' \in [Process -> SeenRows] /\ seen'[p].status = "PENDING"
         /\ \A o \in Process \ {p} : seen'[o] = seen[o]
    BY <1>1, <1>10 DEF Claim, Types
  <1>12. /\ pc' \in [Process -> Labels]
         /\ pc'[p] = IF c.type = "DOMESTIC" THEN "transition" ELSE "prepare"
         /\ \A o \in Process \ {p} : pc'[o] = pc[o]
    BY <1>1, GoFacts DEF Claim, Labels
  <1>13. Types' /\ OnlyMoves(p)
    BY <1>1, <1>4, <1>5, <1>7, <1>8, <1>9, <1>11, <1>12
    DEF Types, TypeOK, OnlyMoves, Claim, world
  <1>14. Grows
    BY <1>2, <1>4, <1>5, <1>7 DEF Grows, GrowsTransfer, Claim, world
  <1>15. \A u \in Request : TransferOK(u)'
    <2>1. p \notin posted /\ \A kind \in {"ledger", "fx", "consume"} : <<kind, p>> \notin late
      BY <1>2 DEF TransferOK, Started, Exists
    <2>2. record'[p] # NoRecord
      BY <1>7 DEF NoRecord
    <2>3. TransferOK(p)'
      BY <1>1, <1>3, <1>4, <1>5, <1>7, <1>8, <2>1, <2>2
      DEF TransferOK, Claim, world, International, Terminal, ValidCommand
    <2>4. \A u \in Request \ {p} : TransferOK(u)'
      BY <1>4, <1>5, <1>7, <1>8, <1>14, TransferKeeps DEF Claim, world
    <2> QED
      BY <2>3, <2>4
  <1>16. ClaimsAreUnique'
    <2>1. \A u \in Created : /\ command[u].key # c.key
                             /\ command[u].quote # c.quote \/ c.quote = "none"
      BY DEF Claim, WithKey, QuoteTaken
    <2>2. Created' = Created \cup {p} /\ \A u \in Created : command'[u] = command[u]
      BY <1>1, <1>2, <1>4, <1>5 DEF Created
    <2> QED
      BY <1>1, <1>5, <2>1, <2>2 DEF IInv, ClaimsAreUnique
  <1>17. ProcessOK(p)'
    BY <1>1, <1>2, <1>3, <1>4, <1>5, <1>9, <1>11, <1>12
    DEF ProcessOK, Working, Labels, Exists, International, Claim, ValidCommand
  <1>18. RequestOK(p)'
    BY <1>1, <1>12, Going DEF Claim
  <1> QED
    BY <1>4, <1>13, <1>14, <1>15, <1>16, <1>17, <1>18, ProcessStep

-----------------------------------------------------------------------------
(* Steps of the other services *)

\* Steps in which no transfer is claimed or settled.
LEMMA StoreKeeps ==
  ASSUME IInv, UNCHANGED store,
         \A q \in Quote : consumer[q] # NoTransfer => consumer'[q] = consumer[q],
         posted \subseteq posted'
  PROVE  Grows /\ ClaimsAreUnique'
  BY DEF IInv, store, Grows, GrowsTransfer, ClaimsAreUnique, Created

\* FX binds a quote that is open to t; no other transfer loses one.
LEMMA BindKeeps ==
  ASSUME IInv, NEW t, Exists(t), International(t), QuoteOpen(t), consumer' = Consumed(t)
  PROVE  /\ consumer' \in [Quote -> Request \cup {NoTransfer}]
         /\ consumer'[command[t].quote] = t
         /\ \A q \in Quote : consumer[q] # NoTransfer => consumer'[q] = consumer[q]
  <1>1. command[t].quote \in Quote /\ t \in Request
    BY QuoteOfTransfer DEF Exists
  <1> QED
    BY <1>1 DEF IInv, Types, Consumed, QuoteOpen

\* The quote is consumed for one transfer.
LEMMA FxConsumeInv ==
  ASSUME IInv, NEW p \in Process, FxConsume(p)
  PROVE  IInv'
  <1>1. pc[p] = "prepare" /\ pc[p] \in Working \ {"existing"}
    BY DEF FxConsume, Working, Labels
  <1> PICK t \in Request : t = target[p]
    BY <1>1, WorksOn
  <1>2. /\ Types /\ LocalTypes /\ ProcessOK(p) /\ Exists(t) /\ (p \in Request => command[t] = cmd[p])
    BY <1>1, WorksOn, Parts
  <1>3. International(t)
    BY <1>1, <1>2 DEF ProcessOK
  <1>4. CASE /\ QuoteOpen(t) /\ consumer' = Consumed(t)
             /\ Go(p, "prepared") /\ call' = [call EXCEPT ![p] = "none"]
    <2>1. /\ consumer' \in [Quote -> Request \cup {NoTransfer}]
          /\ consumer'[command[t].quote] = t
          /\ \A q \in Quote : consumer[q] # NoTransfer => consumer'[q] = consumer[q]
      BY <1>2, <1>3, <1>4, BindKeeps
    <2>2. Grows /\ ClaimsAreUnique'
      BY <2>1, StoreKeeps DEF FxConsume
    <2>3. \A u \in Request : TransferOK(u)'
      BY <2>2, TransferKeeps DEF FxConsume, store
    <2>4. /\ pc' \in [Process -> Labels] /\ pc'[p] = "prepared"
          /\ \A o \in Process \ {p} : pc'[o] = pc[o]
      BY <1>2, <1>4, GoFacts DEF Labels
    <2>5. /\ call' \in [Process -> Calls] /\ call'[p] = "none"
          /\ \A o \in Process \ {p} : call'[o] = call[o]
      BY <1>2, <1>4 DEF Types, Calls
    <2>6. Types' /\ OnlyMoves(p)
      BY <1>2, <2>1, <2>4, <2>5 DEF Types, TypeOK, OnlyMoves, FxConsume, store
    <2>7. ProcessOK(p)'
      BY <1>2, <1>3, <2>1, <2>4, <2>5
      DEF ProcessOK, Working, Labels, Exists, International, FxConsume, store
    <2>8. p \in Request => RequestOK(p)'
      BY <1>1, <2>4, Going DEF FxConsume
    <2> QED
      BY <2>2, <2>3, <2>6, <2>7, <2>8, ProcessStep DEF FxConsume, store
  <1>5. CASE UNCHANGED consumer /\ GoFail(p, "409")
    BY <1>1, <1>2, <1>5, GoFailInv DEF FxConsume, Codes, LocalTypes, world
  <1> QED
    BY <1>4, <1>5 DEF FxConsume

\* The Ledger posts a transfer that was started; a call that is no longer in
\* flight, or was never, does not matter.
LEMMA PostKeeps ==
  ASSUME IInv, Grows, NEW t \in Request, Started(t), UNCHANGED store,
         posted' = posted \cup {t}, late' \subseteq late
  PROVE  \A u \in Request : TransferOK(u)'
  <1> USE DEF store
  <1>1. TransferOK(t) /\ Started(t)'
    BY StartedStays DEF IInv
  <1>2. Exists(t)' = Exists(t) /\ International(t)' = International(t)
    BY DEF Exists, International
  <1>3. TransferOK(t)'
    BY <1>1, <1>2 DEF TransferOK
  <1>4. \A u \in Request \ {t} : TransferOK(u)'
    BY TransferKeeps
  <1> QED
    BY <1>3, <1>4

\* The Ledger posts a transfer that was started, once.
LEMMA LedgerPostInv ==
  ASSUME IInv, NEW p \in Process, LedgerPost(p)
  PROVE  IInv'
  <1>1. pc[p] = "posting" /\ pc[p] \in Working \ {"existing"}
    BY DEF LedgerPost, Working, Labels
  <1> PICK t \in Request : t = target[p]
    BY <1>1, WorksOn
  <1>2. /\ Types /\ LocalTypes /\ ProcessOK(p) /\ Exists(t) /\ (p \in Request => command[t] = cmd[p])
    BY <1>1, WorksOn, Parts
  <1>3. Started(t)
    BY <1>1, <1>2 DEF ProcessOK
  <1>4. CASE posted' = posted \cup {t} /\ call' = [call EXCEPT ![p] = "ok"]
    <2>1. Grows /\ ClaimsAreUnique'
      BY <1>4, StoreKeeps DEF LedgerPost
    <2>2. \A u \in Request : TransferOK(u)'
      BY <1>3, <1>4, <2>1, PostKeeps DEF LedgerPost
    <2>3. /\ call' \in [Process -> Calls] /\ call'[p] = "ok"
          /\ \A o \in Process \ {p} : call'[o] = call[o]
      BY <1>2, <1>4 DEF Types, Calls
    <2>4. Types' /\ OnlyMoves(p)
      BY <1>2, <1>4, <2>3 DEF Types, TypeOK, OnlyMoves, LedgerPost, store
    <2>5. Started(t)' /\ Exists(t)'
      BY <1>3, <2>1, StartedStays DEF Started
    <2>6. ProcessOK(p)'
      BY <1>1, <1>2, <1>4, <2>3, <2>5 DEF ProcessOK, Working, Labels, LedgerPost, store
    <2>7. p \in Request => RequestOK(p)'
      BY <1>1, Going DEF LedgerPost
    <2> QED
      BY <2>1, <2>2, <2>4, <2>6, <2>7, ProcessStep DEF LedgerPost, store
  <1>5. CASE UNCHANGED posted /\ call' = [call EXCEPT ![p] = "refused"]
    <2>1. /\ pc'[p] = "posting" /\ Go(p, "posting") /\ call'[p] = "refused"
      BY <1>1, <1>2, <1>5 DEF Go, LocalTypes, LedgerPost
    <2>2. ProcessOK(p)'
      BY <1>2, <1>3, <1>5, <2>1
      DEF LedgerPost, ProcessOK, Working, Labels, Exists, Started, International, store
    <2> QED
      BY <1>1, <1>2, <1>5, <2>1, <2>2, LocalGo
      DEF LedgerPost, LocalTypes, Labels, Calls, world
  <1> QED
    BY <1>4, <1>5 DEF LedgerPost

\* A step of no process.
LEMMA WorldStep ==
  ASSUME IInv, Grows, Types', \A t \in Request : TransferOK(t)',
         UNCHANGED <<store, pc, cmd, target, seen, call, reply>>
  PROVE  IInv'
  <1>1. \A p \in Process : ProcessOK(p)'
    BY OthersKeep
  <1>2. \A r \in Request : RequestOK(r)'
    BY AnsweredKeep DEF store
  <1>3. ClaimsAreUnique'
    BY UniqueKeeps DEF store, Created
  <1> QED
    BY <1>1, <1>2, <1>3 DEF IInv

\* A call that arrives late does what it would have done in time.
LEMMA LateCallInv ==
  ASSUME IInv, NEW k \in late, LateCall(k)
  PROVE  IInv'
  <1>1. Types /\ late' \subseteq late /\ UNCHANGED store
    BY DEF IInv, LateCall
  <1>2. PICK kind \in {"ledger", "fx", "consume"}, t \in Request : k = <<kind, t>>
    BY <1>1 DEF Types
  <1>3. TransferOK(t) /\ k[1] = kind /\ k[2] = t
    BY <1>2 DEF IInv
  <1>4. CASE kind = "ledger" /\ posted' = posted \cup {t} /\ UNCHANGED consumer
    <2>1. Grows
      BY <1>1, <1>4, StoreKeeps
    <2>2. Started(t)
      BY <1>2, <1>3, <1>4 DEF TransferOK
    <2>3. \A u \in Request : TransferOK(u)'
      BY <1>1, <1>4, <2>1, <2>2, PostKeeps
    <2>4. Types'
      BY <1>1, <1>4 DEF Types, TypeOK, LateCall, store
    <2> QED
      BY <2>1, <2>3, <2>4, WorldStep DEF LateCall
  <1>5. CASE /\ kind \in {"consume", "fx"} /\ QuoteOpen(t) /\ consumer' = Consumed(t)
             /\ UNCHANGED posted
    <2>1. Exists(t) /\ International(t)
      BY <1>2, <1>3, <1>5 DEF TransferOK
    <2>2. /\ consumer' \in [Quote -> Request \cup {NoTransfer}]
          /\ \A q \in Quote : consumer[q] # NoTransfer => consumer'[q] = consumer[q]
      BY <1>5, <2>1, BindKeeps
    <2>3. Grows
      BY <1>1, <1>5, <2>2, StoreKeeps
    <2>4. \A u \in Request : TransferOK(u)'
      BY <1>1, <1>5, <2>3, TransferKeeps DEF store
    <2>5. Types'
      BY <1>1, <1>5, <2>2 DEF Types, TypeOK, LateCall, store
    <2> QED
      BY <2>3, <2>4, <2>5, WorldStep DEF LateCall
  <1>6. CASE UNCHANGED <<posted, consumer>>
    <2>1. Grows
      BY <1>1, <1>6, StoreKeeps
    <2>2. \A u \in Request : TransferOK(u)'
      BY <1>1, <1>6, <2>1, TransferKeeps DEF store
    <2>3. Types'
      BY <1>1, <1>6 DEF Types, TypeOK, LateCall, store
    <2> QED
      BY <2>1, <2>2, <2>3, WorldStep DEF LateCall
  <1> QED
    BY <1>3, <1>4, <1>5, <1>6 DEF LateCall

\* The clock: windows and quotes expire, and nothing else changes.
LEMMA ClockInv ==
  ASSUME IInv, UNCHANGED <<store, posted, consumer, late, pc, cmd, target, seen, call, reply, faults>>
  PROVE  IInv'
  <1>1. Grows
    BY StoreKeeps
  <1>2. \A u \in Request : TransferOK(u)'
    BY <1>1, TransferKeeps DEF store
  <1>3. Types'
    BY DEF IInv, Types, TypeOK, store
  <1> QED
    BY <1>1, <1>2, <1>3, WorldStep

\* A call that goes on without its caller.
LEMMA InFlight ==
  ASSUME IInv, Grows, NEW t \in Request, NEW kind \in {"ledger", "fx", "consume"},
         late' = late \cup {<<kind, t>>}, UNCHANGED <<store, posted>>,
         kind = "ledger" => Started(t)',
         kind # "ledger" => Exists(t)' /\ International(t)'
  PROVE  \A u \in Request : TransferOK(u)'
  <1> USE DEF store
  <1>1. TransferOK(t)
    BY DEF IInv
  <1>2. Exists(t)' = Exists(t) /\ International(t)' = International(t)
    BY DEF Exists, International
  <1>3. Started(t) => Started(t)'
    BY StartedStays
  <1>4. TransferOK(t)'
    BY <1>1, <1>2, <1>3 DEF TransferOK
  <1>5. \A u \in Request \ {t} : TransferOK(u)'
    BY TransferKeeps
  <1> QED
    BY <1>4, <1>5

\* What a caller leaves in flight is a call that it was entitled to make.
LEMMA AbandonInv ==
  ASSUME IInv, NEW p \in Process, pc[p] \notin {"idle", "done"}, Fault, Abandon(p),
         NEW http, NEW st \in {"NONE", "PENDING", "PROCESSING"}, Answer(p, http, st),
         UNCHANGED <<store, expired, posted, consumer, lapsed, cmd, target, seen>>
  PROVE  IInv'
  <1>1. Types /\ LocalTypes /\ ProcessOK(p)
    BY Parts
  <1>2. faults' \in 0..MaxFaults
    BY <1>1, FaultType
  <1>3. /\ call' \in [Process -> Calls] /\ call'[p] = "none"
        /\ \A o \in Process \ {p} : call'[o] = call[o]
    BY <1>1 DEF Abandon, LocalTypes, Calls
  <1>4. Grows /\ ClaimsAreUnique'
    BY StoreKeeps
  <1>5. /\ late' \subseteq {"ledger", "fx", "consume"} \X Request
        /\ \A u \in Request : TransferOK(u)'
    <2>1. CASE pc[p] = "prepare"
      <3>1. PICK t \in Request : t = target[p]
        BY <1>1, <2>1 DEF ProcessOK, Working, Labels, Exists
      <3>2. PICK kind \in {"consume", "fx"} : late' = late \cup {<<kind, t>>}
        BY <2>1, <3>1 DEF Abandon
      <3>3. Exists(t) /\ International(t)
        BY <1>1, <2>1, <3>1 DEF ProcessOK, Working, Labels
      <3>4. Exists(t)' /\ International(t)'
        BY <3>3 DEF Exists, International, store
      <3> QED
        BY <1>1, <1>4, <3>2, <3>3, <3>4, InFlight DEF Types
    <2>2. CASE pc[p] # "prepare" /\ call[p] \in {"lookup", "post"}
      <3>1. pc[p] = "posting"
        BY <1>1, <2>2 DEF ProcessOK, Codes
      <3>2. PICK t \in Request : t = target[p]
        BY <1>1, <3>1 DEF ProcessOK, Working, Labels, Exists
      <3>3. late' = late \cup {<<"ledger", t>>}
        BY <2>2, <3>2 DEF Abandon
      <3>4. Started(t) /\ Started(t)'
        BY <1>1, <1>4, <3>1, <3>2, StartedStays DEF ProcessOK
      <3> QED
        BY <1>1, <1>4, <3>3, <3>4, InFlight DEF Types
    <2>3. CASE pc[p] # "prepare" /\ call[p] \notin {"lookup", "post"}
      <3>1. UNCHANGED late
        BY <2>3 DEF Abandon
      <3> QED
        BY <1>1, <1>4, <3>1, TransferKeeps DEF Types, store
    <2> QED
      BY <2>1, <2>2, <2>3
  <1>6. Types' /\ OnlyMoves(p)
    BY <1>1, <1>2, <1>3, <1>5, AnswerFacts DEF Types, TypeOK, OnlyMoves, store
  <1>7. ProcessOK(p)' /\ (p \in Request => RequestOK(p)')
    BY <1>1, <1>3, Answering DEF Terminal
  <1> QED
    BY <1>4, <1>5, <1>6, <1>7, ProcessStep DEF store

\* A call without an answer stores nothing.
LEMMA CallFailsInv ==
  ASSUME IInv, NEW p \in Process, CallFails(p)
  PROVE  IInv'
  <1>1. ProcessOK(p) /\ pc[p] \notin {"idle", "done"}
    BY Parts DEF CallFails
  <1>2. PICK st \in {"NONE", "PENDING", "PROCESSING"} :
          st = IF pc[p] = "prepare" THEN seen[p].status ELSE "PROCESSING"
    BY <1>1 DEF ProcessOK
  <1>3. Answer(p, HttpStatus(st), st)
    BY <1>2 DEF CallFails, AnswerWith
  <1> QED
    BY <1>1, <1>3, AbandonInv DEF CallFails

\* A crash loses what the process knew and no row.
LEMMA CrashInv ==
  ASSUME IInv, NEW p \in Process, Crash(p)
  PROVE  IInv'
  BY AbandonInv DEF Crash

-----------------------------------------------------------------------------
\* Every step of a process keeps the invariant.
LEMMA StepInv ==
  ASSUME IInv, NEW p \in Process, Step(p)
  PROVE  IInv'
  BY FindByKeyInv, ClaimInv, ClaimLostInv, ClaimRefusedInv, HandleExistingInv, TransitionInv,
     ReconcileInv, RereadInv, ByReferenceInv, ClaimRetryInv, PrepareInternationalInv,
     FxConsumeInv, PreparedInv, ReadForProcessInv, ValidateWalletsInv, LedgerLookupInv,
     LedgerPostInv, LedgerAnswerInv, CompleteInv, FailInv
  DEF Step

\* Every step keeps the invariant.
LEMMA NextInv == IInv /\ [Next]_vars => IInv'
  <1> SUFFICES ASSUME IInv, [Next]_vars PROVE IInv'
    OBVIOUS
  <1>1. ASSUME NEW p \in Process, Step(p) PROVE IInv'
    BY <1>1, StepInv
  <1>2. ASSUME NEW p \in Process, AccountUnavailable(p) PROVE IInv'
    BY <1>2, AccountUnavailableInv
  <1>3. ASSUME NEW p \in Process, CallFails(p) PROVE IInv'
    BY <1>3, CallFailsInv
  <1>4. ASSUME NEW p \in Process, Crash(p) PROVE IInv'
    BY <1>4, CrashInv
  <1>5. ASSUME NEW p \in Request, NEW c \in Command, Receive(p, c) PROVE IInv'
    BY <1>5, ReceiveInv
  <1>6. ASSUME NEW w \in Reconciler, NEW t \in Request, StartReconcile(w, t) PROVE IInv'
    BY <1>6, StartReconcileInv
  <1>7. ASSUME NEW k \in late, LateCall(k) PROVE IInv'
    BY <1>7, LateCallInv
  <1>8. ASSUME NEW t \in Request, ReplayWindowEnds(t) PROVE IInv'
    BY <1>8, ClockInv DEF ReplayWindowEnds
  <1>9. ASSUME NEW q \in Quote, QuoteLapses(q) PROVE IInv'
    BY <1>9, ClockInv DEF QuoteLapses
  <1>10. ASSUME UNCHANGED vars PROVE IInv'
    BY <1>10, ClockInv DEF vars, store
  <1> QED
    BY <1>1, <1>2, <1>3, <1>4, <1>5, <1>6, <1>7, <1>8, <1>9, <1>10 DEF Next, Quiet

\* IInv is an inductive invariant of the transfer orchestration.
THEOREM Inductive == Spec => []IInv
  BY InitInv, NextInv, PTL DEF Spec

\* The types of the tables, of the processes and of the Ledger's postings.
THEOREM TypeCorrect == Spec => []TypeOK
  <1>1. IInv => TypeOK
    BY DEF IInv, Types
  <1> QED
    BY Inductive, <1>1, PTL

\* A transfer is completed only after the Ledger posted it, and no transfer of
\* zero is claimed or posted, although validateCommand lets it through.
THEOREM CompletedMeansPostedTheorem == Spec => []CompletedMeansPosted
  <1>1. IInv => CompletedMeansPosted
    <2> SUFFICES ASSUME IInv PROVE CompletedMeansPosted
      OBVIOUS
    <2>1. \A t \in Request : status[t] = "COMPLETED" => t \in posted
      BY DEF IInv, TransferOK
    <2>2. \A t \in Created \cup posted : t \in Request /\ status[t] # "NONE"
      BY DEF IInv, Types, TypeOK, Created, TransferOK, Started, Exists
    <2>3. \A t \in Request : status[t] # "NONE" => command[t].payload \notin {"none", "zero"}
      BY CommandAssumption DEF IInv, TransferOK, ValidCommand
    <2> QED
      BY <2>1, <2>2, <2>3 DEF CompletedMeansPosted
  <1> QED
    BY Inductive, <1>1, PTL

\* The transfer, its idempotency record and the wallets' history tell one story,
\* although complete, fail and transition race.
THEOREM TablesAgreeTheorem == Spec => []TablesAgree
  <1>1. IInv => TablesAgree
    BY DEF IInv, TransferOK, TablesAgree, Created
  <1> QED
    BY Inductive, <1>1, PTL

\* One key creates one transfer and one quote serves one, however many duplicates
\* arrive together.
THEOREM ClaimsAreUniqueTheorem == Spec => []ClaimsAreUnique
  <1>1. IInv => ClaimsAreUnique
    BY DEF IInv
  <1> QED
    BY Inductive, <1>1, PTL

\* A client that is told an outcome is told the final one of the transfer with
\* the payload it sent, even from a record that was read some steps earlier.
THEOREM RepliesHoldTheorem == Spec => []RepliesHold
  <1>1. IInv => RepliesHold
    BY DEF IInv, RequestOK, Exists, RepliesHold, Created
  <1> QED
    BY Inductive, <1>1, PTL

\* No money moves across currencies before FX has bound the quote to the transfer,
\* even for calls that take effect after their caller gave up.
THEOREM QuoteBoundFirstTheorem == Spec => []QuoteBoundFirst
  <1>1. IInv => QuoteBoundFirst
    BY DEF IInv, TransferOK, Started, QuoteBoundFirst, Created
  <1> QED
    BY Inductive, <1>1, PTL

-----------------------------------------------------------------------------
(* Versions *)

\* Where a process still has the version of its transfer that it read.
Reading == {"transition", "reread", "prepare", "prepared", "byReference", "retry"}

\* What was read is no newer than the row, and older once the process has taken
\* the next version; only its creator starts a domestic transfer.
VersionOK(p) ==
  /\ pc[p] \in Reading => seen[p].version <= version[target[p]]
  /\ Retrying(p) => seen[p].version < version[target[p]] /\ status[target[p]] # "PENDING"
  /\ pc[p] = "transition" => target[p] = p /\ status[p] = "PENDING"
  /\ pc[p] = "fail" => status[target[p]] # "PENDING" \/ International(target[p])

VInv == (\A p \in Process : VersionOK(p)) /\ OneRetryPerVersion

\* No other process than p moves on.
Alone(p) ==
  \A o \in Process \ {p} : pc'[o] = pc[o] /\ target'[o] = target[o] /\ seen'[o] = seen[o]

\* Versions only grow, and a domestic transfer leaves PENDING only by its creator.
Advances(p) ==
  \A t \in Request : status[t] # "NONE" =>
    /\ version[t] <= version'[t] /\ command'[t] = command[t]
    /\ status[t] # "PENDING" => status'[t] # "PENDING"
    /\ status[t] = "PENDING" /\ ~International(t) /\ t # p => status'[t] = "PENDING"

\* p, if it is retrying now, goes on as before or has a version of its own.
OwnVersion(p) ==
  Retrying(p)' =>
    \/ Retrying(p) /\ target'[p] = target[p] /\ seen'[p] = seen[p]
    \/ \A o \in Process \ {p} :
         Retrying(o) /\ target[o] = target'[p] => seen[o].version # seen'[p].version

\* The types that versions are compared in.
LEMMA VersionTypes ==
  ASSUME IInv, NEW p \in Process, pc[p] \in Working
  PROVE  /\ target[p] \in Request /\ status[target[p]] # "NONE"
         /\ version[target[p]] \in Nat /\ seen[p].version \in Nat
  BY DEF IInv, Types, TypeOK, SeenRows, ProcessOK, Exists

\* What another process has read stays older.
LEMMA OthersVersion ==
  ASSUME IInv, IInv', VInv, NEW p \in Process, NEW o \in Process \ {p}, Alone(p), Advances(p)
  PROVE  VersionOK(o)'
  <1>1. VersionOK(o) /\ pc'[o] = pc[o] /\ target'[o] = target[o] /\ seen'[o] = seen[o]
    BY DEF VInv, Alone
  <1>2. CASE pc[o] \notin Working
    BY <1>1, <1>2 DEF VersionOK, Reading, Retrying, Working, Labels
  <1>3. CASE pc[o] \in Working
    <2> DEFINE t == target[o]
    <2>1. t \in Request /\ status[t] # "NONE" /\ version[t] \in Nat /\ seen[o].version \in Nat
      BY <1>3, VersionTypes
    <2>2. version'[t] \in Nat
      BY <2>1 DEF IInv, Types, TypeOK
    <2>3. /\ version[t] <= version'[t] /\ International(t)' = International(t)
          /\ status[t] # "PENDING" => status'[t] # "PENDING"
          /\ status[t] = "PENDING" /\ ~International(t) /\ t # p => status'[t] = "PENDING"
      BY <1>1, <2>1 DEF Advances, International
    <2>4. pc[o] = "transition" => ~International(t)
      BY DEF IInv, ProcessOK
    <2>5. pc[o] \in Reading => seen[o].version <= version'[t]
      BY <1>1, <2>1, <2>2, <2>3 DEF VersionOK
    <2>6. Retrying(o) => seen[o].version < version'[t] /\ status'[t] # "PENDING"
      BY <1>1, <2>1, <2>2, <2>3 DEF VersionOK
    <2>7. pc[o] = "transition" => t = o /\ status'[o] = "PENDING"
      BY <1>1, <2>3, <2>4 DEF VersionOK
    <2>8. pc[o] = "fail" => status'[t] # "PENDING" \/ International(t)'
      BY <1>1, <2>3 DEF VersionOK
    <2> QED
      BY <1>1, <2>5, <2>6, <2>7, <2>8 DEF VersionOK, Retrying
  <1> QED
    BY <1>2, <1>3

\* Hence a step of p is left with p itself.
LEMMA VersionStep ==
  ASSUME IInv, IInv', VInv, NEW p \in Process, Alone(p), Advances(p), OwnVersion(p),
         VersionOK(p)'
  PROVE  VInv'
  <1>1. \A o \in Process : VersionOK(o)'
    BY OthersVersion
  <1>2. ASSUME NEW q \in Process, NEW o \in Process, q # o, Retrying(q)', Retrying(o)',
               target'[q] = target'[o]
        PROVE  seen'[q].version # seen'[o].version
    BY <1>2 DEF VInv, OneRetryPerVersion, Alone, OwnVersion, Retrying
  <1> QED
    BY <1>1, <1>2 DEF VInv, OneRetryPerVersion

\* A step that writes no transfer advances none.
LEMMA Stays ==
  ASSUME IInv, NEW p \in Process, UNCHANGED <<status, version, command>>
  PROVE  Advances(p)
  BY DEF IInv, Types, TypeOK, Advances

\* A process that is about to read, or is over, has nothing to compare.
LEMMA VersionRests ==
  ASSUME IInv, IInv', VInv, NEW p \in Process, Alone(p), Advances(p),
         pc'[p] \notin Reading \cup {"process", "validate", "posting", "fail"}
  PROVE  VInv'
  <1>1. VersionOK(p)' /\ OwnVersion(p)
    BY DEF VersionOK, OwnVersion, Retrying, Reading
  <1> QED
    BY <1>1, VersionStep

\* Steps that end in an answer, or before anything is read.
LEMMA VersionEnds ==
  ASSUME IInv, IInv', VInv, NEW p \in Process,
         \/ FindByKey(p) \/ ClaimLost(p) \/ ClaimRefused(p) \/ HandleExisting(p)
         \/ CallFails(p) \/ Crash(p)
         \/ \E c \in Command : Receive(p, c)
         \/ \E t \in Request : StartReconcile(p, t)
  PROVE  VInv'
  <1>1. pc \in [Process -> Labels]
    BY DEF IInv, Types, TypeOK
  <1>2. UNCHANGED <<status, version, command>>
    BY DEF FindByKey, ClaimLost, ClaimRefused, HandleExisting, CallFails, Crash, Receive,
           StartReconcile, store
  <1>3. Alone(p) /\ pc'[p] \in {"find", "existing", "claim", "reconcile", "done", "idle"}
    BY <1>1 DEF FindByKey, ClaimLost, ClaimRefused, HandleExisting, CallFails, Crash, Receive,
                StartReconcile, Adopt, Answer, AnswerWith, Go, Alone, IInv, Types, TypeOK
  <1> QED
    BY <1>2, <1>3, Stays, VersionRests DEF Reading

\* A claim reads its own new row.
LEMMA VersionClaim ==
  ASSUME IInv, IInv', VInv, NEW p \in Process, Claim(p)
  PROVE  VInv'
  <1>1. p \in Request /\ pc[p] = "claim" /\ status[p] = "NONE" /\ Types
    BY DEF Claim, IInv, ProcessOK, RequestOK
  <1>2. Alone(p) /\ Advances(p)
    BY <1>1 DEF Claim, Go, Alone, Advances, Types, TypeOK
  <1>3. /\ pc'[p] \in {"transition", "prepare"} /\ target'[p] = p
        /\ seen'[p].version = version[p] /\ status'[p] = "PENDING" /\ version' = version
        /\ version[p] \in Nat
    BY <1>1 DEF Claim, Go, Types, TypeOK
  <1>4. VersionOK(p)' /\ OwnVersion(p)
    BY <1>3 DEF VersionOK, OwnVersion, Retrying
  <1> QED
    BY <1>2, <1>4, VersionStep

\* Only one process finds the transfer still PENDING, and then nobody is retrying
\* it yet.
LEMMA VersionStarts ==
  ASSUME IInv, IInv', VInv, NEW p \in Process, Transition(p) \/ Prepared(p)
  PROVE  VInv'
  <1>1. pc[p] \in {"transition", "prepared"} /\ pc[p] \in Working \ {"existing"} /\ Types
    BY DEF Transition, Prepared, Working, Labels, IInv
  <1> PICK t \in Request : t = target[p]
    BY <1>1, WorksOn
  <1>2. /\ VersionOK(p) /\ version[t] \in Nat /\ seen[p].version \in Nat
        /\ pc[p] = "prepared" => International(t)
    BY <1>1, VersionTypes DEF VInv, IInv, ProcessOK
  <1>3. Alone(p)
    BY <1>1 DEF Transition, Prepared, Answer, AnswerWith, Go, Alone, Types, TypeOK
  <1>4. CASE status[t] = "PENDING"
    <2>1. /\ version'[t] = version[t] + 1 /\ status'[t] = "PROCESSING" /\ pc'[p] = "process"
          /\ UNCHANGED <<target, seen, command>>
          /\ \A u \in Request \ {t} : version'[u] = version[u] /\ status'[u] = status[u]
      BY <1>1, <1>4 DEF Transition, Prepared, Go, Types, TypeOK
    <2>2. \A u \in Request : version[u] \in Nat
      BY <1>1 DEF Types, TypeOK
    <2>3. Advances(p)
      BY <1>1, <1>2, <1>4, <2>1, <2>2 DEF Advances, VersionOK
    <2>4. VersionOK(p)'
      BY <1>1, <1>2, <2>1 DEF VersionOK, Retrying, Reading
    <2>5. OwnVersion(p)
      BY <1>4, <2>1 DEF OwnVersion, VInv, VersionOK
    <2> QED
      BY <1>3, <2>3, <2>4, <2>5, VersionStep
  <1>5. CASE status[t] # "PENDING"
    <2>1. pc[p] = "prepared"
      BY <1>1, <1>2, <1>5 DEF VersionOK
    <2>2. UNCHANGED <<status, version, command>> /\ AnswerWith(p, status[t])
      BY <1>5, <2>1 DEF Transition, Prepared
    <2>3. pc'[p] \in {"idle", "done"}
      BY <1>1, <2>2 DEF AnswerWith, Answer, Go, Types, TypeOK
    <2> QED
      BY <1>3, <2>2, <2>3, Stays, VersionRests DEF Reading
  <1> QED
    BY <1>4, <1>5

\* The versions that are read are those of the row.
LEMMA VersionReads ==
  ASSUME IInv, IInv', VInv, NEW p \in Process, Reconcile(p) \/ Reread(p)
  PROVE  VInv'
  <1>1. pc[p] \in Working \ {"existing"} /\ Types
    BY DEF Reconcile, Reread, Working, Labels, IInv
  <1> PICK t \in Request : t = target[p]
    BY <1>1, WorksOn
  <1>2. /\ seen'[p].version = version[t] /\ version[t] \in Nat /\ Alone(p)
        /\ UNCHANGED <<status, version, command, target>>
        /\ pc'[p] \in {"reread", "byReference", "prepare", "idle", "done"}
    BY <1>1 DEF Reconcile, Reread, Row, Go, Answer, AnswerWith, Alone, Types, TypeOK, store
  <1>3. VersionOK(p)' /\ OwnVersion(p)
    BY <1>2 DEF VersionOK, OwnVersion, Retrying
  <1> QED
    BY <1>2, <1>3, Stays, VersionStep

\* A retry takes the next version, and whoever else has read this one is late.
LEMMA VersionRetry ==
  ASSUME IInv, IInv', VInv, NEW p \in Process, ClaimRetry(p)
  PROVE  VInv'
  <1>1. pc[p] = "retry" /\ pc[p] \in Working \ {"existing"} /\ Types
    BY DEF ClaimRetry, Working, Labels, IInv
  <1> PICK t \in Request : t = target[p]
    BY <1>1, WorksOn
  <1>2. Alone(p) /\ UNCHANGED <<status, command, target, seen>>
    BY <1>1 DEF ClaimRetry, Answer, AnswerWith, Go, Alone, Types, TypeOK
  <1>3. \A u \in Request : version[u] \in Nat
    BY <1>1 DEF Types, TypeOK
  <1>4. CASE status[t] = "PROCESSING" /\ version[t] = seen[p].version
    <2>1. /\ version'[t] = version[t] + 1 /\ pc'[p] = "process"
          /\ \A u \in Request \ {t} : version'[u] = version[u]
      BY <1>1, <1>4 DEF ClaimRetry, Go, Types, TypeOK
    <2>2. Advances(p)
      BY <1>2, <1>3, <2>1 DEF Advances
    <2>3. VersionOK(p)'
      BY <1>2, <1>3, <1>4, <2>1 DEF VersionOK, Retrying, Reading
    <2>4. ASSUME NEW o \in Process \ {p}, Retrying(o), target[o] = t
          PROVE  seen[o].version # version[t]
      <3>1. pc[o] \in Working /\ VersionOK(o)
        BY <2>4 DEF Retrying, Working, Labels, VInv
      <3> QED
        BY <2>4, <3>1, VersionTypes DEF VersionOK
    <2>5. OwnVersion(p)
      BY <1>2, <1>4, <2>4 DEF OwnVersion
    <2> QED
      BY <1>2, <2>2, <2>3, <2>5, VersionStep
  <1>5. CASE ~(status[t] = "PROCESSING" /\ version[t] = seen[p].version)
    <2>1. UNCHANGED version /\ pc'[p] \in {"idle", "done"}
      BY <1>1, <1>5 DEF ClaimRetry, AnswerWith, Answer, Go, Types, TypeOK
    <2> QED
      BY <1>2, <2>1, Stays, VersionRests DEF Reading
  <1> QED
    BY <1>4, <1>5

\* Everything else goes on with the version it has, on an unchanged row.
LEMMA VersionGoesOn ==
  ASSUME IInv, IInv', VInv, NEW p \in Process,
         \/ ByReference(p) \/ PrepareInternational(p) \/ FxConsume(p) \/ ReadForProcess(p)
         \/ ValidateWallets(p) \/ AccountUnavailable(p) \/ LedgerLookup(p) \/ LedgerPost(p)
         \/ LedgerAnswer(p)
  PROVE  VInv'
  <1>1. pc[p] \in Working \ {"existing"} /\ Types
    BY DEF ByReference, PrepareInternational, FxConsume, ReadForProcess, ValidateWallets,
           AccountUnavailable, LedgerLookup, LedgerPost, LedgerAnswer, Working, Labels, IInv
  <1> PICK t \in Request : t = target[p]
    BY <1>1, WorksOn
  <1>2. UNCHANGED <<status, version, command, target, seen>>
    BY DEF ByReference, PrepareInternational, FxConsume, ReadForProcess, ValidateWallets,
           AccountUnavailable, LedgerLookup, LedgerPost, LedgerAnswer, store
  <1>3. VersionOK(p) /\ ProcessOK(p)
    BY DEF VInv, IInv
  <1>4. CASE ByReference(p) \/ PrepareInternational(p) \/ FxConsume(p)
    <2>1. /\ Alone(p) /\ pc[p] \in {"byReference", "prepare"}
          /\ pc'[p] \in {"complete", "retry", "prepare", "prepared", "fail", "idle", "done"}
          /\ pc'[p] = "fail" => pc[p] = "prepare"
      BY <1>1, <1>4 DEF ByReference, PrepareInternational, FxConsume, GoFail, Go, Answer,
                        AnswerWith, Alone, Types, TypeOK
    <2>2. VersionOK(p)' /\ OwnVersion(p)
      BY <1>2, <1>3, <2>1 DEF VersionOK, ProcessOK, OwnVersion, Retrying, Reading, International
    <2> QED
      BY <1>2, <2>1, <2>2, Stays, VersionStep
  <1>5. CASE \/ ReadForProcess(p) \/ ValidateWallets(p) \/ AccountUnavailable(p)
             \/ LedgerLookup(p) \/ LedgerPost(p) \/ LedgerAnswer(p)
    <2>1. /\ Alone(p) /\ Retrying(p)
          /\ pc'[p] \in {"validate", "posting", "complete", "fail", "idle", "done"}
      BY <1>1, <1>5 DEF ReadForProcess, ValidateWallets, AccountUnavailable, LedgerLookup,
                        LedgerPost, LedgerAnswer, GoFail, Go, Answer, AnswerWith, Alone,
                        Retrying, Types, TypeOK
    <2>2. VersionOK(p)' /\ OwnVersion(p)
      BY <1>2, <1>3, <2>1 DEF VersionOK, OwnVersion, Retrying, Reading
    <2> QED
      BY <1>2, <2>1, <2>2, Stays, VersionStep
  <1> QED
    BY <1>4, <1>5

\* Settling a transfer increments its version; only an international one is
\* failed before it was started.
LEMMA VersionSettles ==
  ASSUME IInv, IInv', VInv, NEW p \in Process, Complete(p) \/ Fail(p)
  PROVE  VInv'
  <1>1. pc[p] \in {"complete", "fail"} /\ pc[p] \in Working \ {"existing"} /\ Types
    BY DEF Complete, Fail, Working, Labels, IInv
  <1> PICK t \in Request : t = target[p]
    BY <1>1, WorksOn
  <1>2. Alone(p) /\ UNCHANGED command /\ pc'[p] \in {"idle", "done"}
    BY <1>1 DEF Complete, Fail, AnswerWith, Answer, Go, Alone, Types, TypeOK
  <1>3. \A u \in Request : version[u] \in Nat
    BY <1>1 DEF Types, TypeOK
  <1>4. /\ \A u \in Request \ {t} : version'[u] = version[u] /\ status'[u] = status[u]
        /\ \/ version'[t] = version[t] /\ status'[t] = status[t]
           \/ version'[t] = version[t] + 1 /\ status'[t] \in Terminal
    BY <1>1 DEF Complete, Fail, Types, TypeOK, Terminal
  <1>5. status[t] = "PENDING" /\ status'[t] # "PENDING" => International(t)
    BY <1>1 DEF Complete, Fail, VInv, VersionOK
  <1>6. Advances(p)
    BY <1>2, <1>3, <1>4, <1>5 DEF Advances, Terminal
  <1> QED
    BY <1>2, <1>6, VersionRests DEF Reading

\* What happens in no process moves no version.
LEMMA VersionWorld ==
  ASSUME VInv, UNCHANGED <<status, version, command, pc, target, seen>>
  PROVE  VInv'
  BY DEF VInv, VersionOK, OneRetryPerVersion, Retrying, International

\* No two of the processes that are retrying a transfer took the same version, so
\* that of a client's retry and the reconciler one goes on to the Ledger.
THEOREM OneRetryPerVersionTheorem == Spec => []OneRetryPerVersion
  <1>1. Init => VInv
    BY DEF Init, VInv, VersionOK, OneRetryPerVersion, Retrying, Reading
  <1>2. ASSUME IInv, IInv', VInv, [Next]_vars PROVE VInv'
    <2>1. ASSUME NEW p \in Process, Step(p) PROVE VInv'
      BY <1>2, <2>1, VersionEnds, VersionClaim, VersionStarts, VersionReads, VersionRetry,
         VersionGoesOn, VersionSettles DEF Step
    <2>2. ASSUME NEW p \in Process, AccountUnavailable(p) \/ CallFails(p) \/ Crash(p) PROVE VInv'
      BY <1>2, <2>2, VersionEnds, VersionGoesOn
    <2>3. ASSUME NEW p \in Request, NEW c \in Command, Receive(p, c) PROVE VInv'
      BY <1>2, <2>3, VersionEnds DEF Process
    <2>4. ASSUME NEW w \in Reconciler, NEW t \in Request, StartReconcile(w, t) PROVE VInv'
      BY <1>2, <2>4, VersionEnds DEF Process
    <2>5. ASSUME NEW k \in late, LateCall(k) PROVE VInv'
      BY <1>2, <2>5, VersionWorld DEF LateCall, store
    <2>6. ASSUME NEW t \in Request, ReplayWindowEnds(t) PROVE VInv'
      BY <1>2, <2>6, VersionWorld DEF ReplayWindowEnds, store
    <2>7. ASSUME NEW q \in Quote, QuoteLapses(q) PROVE VInv'
      BY <1>2, <2>7, VersionWorld DEF QuoteLapses, store
    <2>8. CASE UNCHANGED vars
      BY <1>2, <2>8, VersionWorld DEF vars
    <2> QED
      BY <1>2, <2>1, <2>2, <2>3, <2>4, <2>5, <2>6, <2>7, <2>8 DEF Next, Quiet
  <1>3. VInv => OneRetryPerVersion
    BY DEF VInv
  <1> QED
    BY Inductive, <1>1, <1>2, <1>3, PTL DEF Spec

-----------------------------------------------------------------------------
(* The refinement of Lifecycle *)

\* The state of the idempotency records, which stands for Lifecycle's record.
States == [t \in Request |-> record[t].state]

\* A step that leaves the transfers and the postings alone is none of Lifecycle.
LEMMA Stutters ==
  ASSUME UNCHANGED <<status, command, record, posted>>
  PROVE  UNCHANGED L!vars
  BY DEF L!vars

\* Claiming a key accepts the abstract transfer.
LEMMA ClaimRefines ==
  ASSUME IInv, NEW p \in Process, Claim(p)
  PROVE  L!Next
  <1> PICK c \in Command : c = cmd[p]
    BY Parts DEF Claim, ProcessOK
  <1>1. pc[p] = "claim" /\ p \in Request /\ Types /\ RequestOK(p)
    BY Parts DEF Claim, ProcessOK
  <1>2. status[p] = "NONE" /\ record[p] = NoRecord
    BY <1>1 DEF RequestOK, IInv, TransferOK
  <1>3. record' = [record EXCEPT ![p] = [state |-> "PROCESSING", http |-> "none"]]
    BY DEF Claim
  <1>4. States' = [States EXCEPT ![p] = "PROCESSING"]
    BY <1>1, <1>3 DEF States, Types
  <1>5. L!Claim(p, c)
    BY <1>1, <1>2, <1>4 DEF L!Claim, Claim, States, NoRecord, world
  <1> QED
    BY <1>1, <1>5 DEF L!Next

\* The first transition starts it.
LEMMA StartRefines ==
  ASSUME IInv, NEW t \in Request, status[t] = "PENDING",
         MovesOn(t, "PROCESSING", "PROCESSING", record[t])
  PROVE  L!Next
  <1>1. UNCHANGED record
    BY DEF IInv, Types, MovesOn
  <1>2. L!Start(t)
    BY <1>1 DEF L!Start, L!Move, MovesOn, world
  <1> QED
    BY <1>2 DEF L!Next

\* Storing a final status settles it.
LEMMA SettleRefines ==
  ASSUME IInv, NEW t \in Request, NEW st \in Terminal, NEW h, NEW http,
         MovesOn(t, st, h, [state |-> st, http |-> http]),
         status[t] \in {"PENDING", "PROCESSING"},
         st = "COMPLETED" => status[t] = "PROCESSING" /\ t \in posted
  PROVE  L!Next
  <1>1. Types /\ TransferOK(t)
    BY DEF IInv
  <1>2. record[t].state = "PROCESSING"
    BY <1>1 DEF TransferOK, Terminal
  <1>3. States' = [States EXCEPT ![t] = st]
    BY <1>1 DEF States, Types, MovesOn
  <1>4. CASE st = "COMPLETED"
    BY <1>2, <1>3, <1>4 DEF L!Next, L!Complete, L!Settle, L!Move, States, MovesOn, world
  <1>5. CASE st = "FAILED"
    BY <1>2, <1>3, <1>5 DEF L!Next, L!Fail, L!Settle, L!Move, States, MovesOn, world
  <1> QED
    BY <1>4, <1>5 DEF Terminal

\* A posting for a started transfer moves its money.
LEMMA PostRefines ==
  ASSUME NEW t, Started(t), posted' = posted \cup {t}, UNCHANGED store
  PROVE  L!Next
  BY DEF Started, Exists, store, L!Next, L!Post

\* Transition and Prepared start a transfer, or find that it has moved on.
LEMMA TransitionRefines ==
  ASSUME IInv, NEW p \in Process, Transition(p) \/ Prepared(p)
  PROVE  L!Next \/ UNCHANGED L!vars
  <1>1. pc[p] \in {"transition", "prepared"} /\ pc[p] \in Working \ {"existing"}
    BY DEF Transition, Prepared, Working, Labels
  <1> PICK t \in Request : t = target[p]
    BY <1>1, WorksOn
  <1>2. CASE status[t] = "PENDING"
    <2>1. MovesOn(t, "PROCESSING", "PROCESSING", record[t])
      BY <1>2 DEF Transition, Prepared, MovesOn, IInv, Types
    <2> QED
      BY <1>2, <2>1, StartRefines
  <1>3. CASE status[t] # "PENDING"
    BY <1>3, Stutters DEF Transition, Prepared, world
  <1> QED
    BY <1>2, <1>3

\* Complete settles the transfer, or stutters.
LEMMA CompleteRefines ==
  ASSUME IInv, NEW p \in Process, Complete(p)
  PROVE  L!Next \/ UNCHANGED L!vars
  <1>1. pc[p] = "complete" /\ pc[p] \in Working \ {"existing"}
    BY DEF Complete, Working, Labels
  <1> PICK t \in Request : t = target[p]
    BY <1>1, WorksOn
  <1>2. t \in posted
    BY <1>1, Parts DEF ProcessOK
  <1>3. CASE status[t] = "PROCESSING"
    <2>1. MovesOn(t, "COMPLETED", "COMPLETED", [state |-> "COMPLETED", http |-> "201"])
      BY <1>3 DEF Complete, MovesOn
    <2> QED
      BY <1>2, <1>3, <2>1, SettleRefines DEF Terminal
  <1>4. CASE status[t] # "PROCESSING"
    BY <1>4, Stutters DEF Complete, world
  <1> QED
    BY <1>3, <1>4

\* So does fail.
LEMMA FailRefines ==
  ASSUME IInv, NEW p \in Process, Fail(p)
  PROVE  L!Next \/ UNCHANGED L!vars
  <1>1. pc[p] = "fail" /\ pc[p] \in Working \ {"existing"}
    BY DEF Fail, Working, Labels
  <1> PICK t \in Request : t = target[p]
    BY <1>1, WorksOn
  <1>2. CASE status[t] \in {"PENDING", "PROCESSING"}
    <2> PICK http : http = call[p]
      OBVIOUS
    <2> PICK h : h = IF history[t] = "NONE" THEN history[t] ELSE "FAILED"
      OBVIOUS
    <2>1. MovesOn(t, "FAILED", h, [state |-> "FAILED", http |-> http])
      BY <1>2 DEF Fail, MovesOn
    <2> QED
      BY <1>2, <2>1, SettleRefines DEF Terminal
  <1>3. CASE status[t] \notin {"PENDING", "PROCESSING"}
    BY <1>3, Stutters DEF Fail, world
  <1> QED
    BY <1>2, <1>3

\* The Ledger posts for a caller, or for a call that nobody waits for any more.
LEMMA LedgerPostRefines ==
  ASSUME IInv, NEW p \in Process, LedgerPost(p)
  PROVE  L!Next \/ UNCHANGED L!vars
  <1>1. pc[p] = "posting" /\ pc[p] \in Working \ {"existing"}
    BY DEF LedgerPost, Working, Labels
  <1> PICK t \in Request : t = target[p]
    BY <1>1, WorksOn
  <1>2. Started(t)
    BY <1>1, Parts DEF ProcessOK
  <1>3. CASE posted' = posted \cup {t}
    BY <1>2, <1>3, PostRefines DEF LedgerPost
  <1>4. CASE UNCHANGED posted
    BY <1>4, Stutters DEF LedgerPost, store
  <1> QED
    BY <1>3, <1>4 DEF LedgerPost

\* A late call posts, or stutters.
LEMMA LateCallRefines ==
  ASSUME IInv, NEW k \in late, LateCall(k)
  PROVE  L!Next \/ UNCHANGED L!vars
  <1>1. Types
    BY DEF IInv
  <1>2. PICK kind \in {"ledger", "fx", "consume"}, t \in Request : k = <<kind, t>>
    BY <1>1 DEF Types
  <1>3. TransferOK(t) /\ k[1] = kind /\ k[2] = t
    BY <1>2 DEF IInv
  <1>4. CASE kind = "ledger" /\ posted' = posted \cup {t}
    <2>1. Started(t)
      BY <1>2, <1>3, <1>4 DEF TransferOK
    <2> QED
      BY <1>4, <2>1, PostRefines DEF LateCall
  <1>5. CASE UNCHANGED posted
    BY <1>5, Stutters DEF LateCall, store
  <1> QED
    BY <1>3, <1>4, <1>5 DEF LateCall

\* Every step of the orchestration is one of Lifecycle, or changes nothing that
\* Lifecycle speaks of.
LEMMA NextRefines ==
  ASSUME IInv, [Next]_vars
  PROVE  L!Next \/ UNCHANGED L!vars
  <1> USE DEF store, world
  <1>1. ASSUME NEW p \in Process, Step(p) PROVE L!Next \/ UNCHANGED L!vars
    <2>1. CASE \/ FindByKey(p) \/ ClaimLost(p) \/ ClaimRefused(p) \/ HandleExisting(p)
               \/ Reconcile(p) \/ Reread(p) \/ ByReference(p)
      BY <2>1, Stutters DEF FindByKey, ClaimLost, ClaimRefused, HandleExisting, Reconcile,
                            Reread, ByReference
    <2>2. CASE \/ ClaimRetry(p) \/ PrepareInternational(p) \/ FxConsume(p) \/ ReadForProcess(p)
               \/ ValidateWallets(p) \/ LedgerLookup(p) \/ LedgerAnswer(p)
      BY <2>2, Stutters DEF ClaimRetry, PrepareInternational, FxConsume, ReadForProcess,
                            ValidateWallets, LedgerLookup, LedgerAnswer
    <2> QED
      BY <1>1, <2>1, <2>2, ClaimRefines, TransitionRefines, CompleteRefines, FailRefines,
         LedgerPostRefines DEF Step
  <1>2. ASSUME NEW p \in Process, AccountUnavailable(p) \/ CallFails(p) \/ Crash(p)
        PROVE  UNCHANGED L!vars
    BY <1>2, Stutters DEF AccountUnavailable, CallFails, Crash
  <1>3. ASSUME NEW p \in Request, NEW c \in Command, Receive(p, c) PROVE UNCHANGED L!vars
    BY <1>3, Stutters DEF Receive
  <1>4. ASSUME NEW w \in Reconciler, NEW t \in Request, StartReconcile(w, t)
        PROVE  UNCHANGED L!vars
    BY <1>4, Stutters DEF StartReconcile
  <1>5. ASSUME NEW k \in late, LateCall(k) PROVE L!Next \/ UNCHANGED L!vars
    BY <1>5, LateCallRefines
  <1>6. ASSUME NEW t \in Request, ReplayWindowEnds(t) PROVE UNCHANGED L!vars
    BY <1>6, Stutters DEF ReplayWindowEnds
  <1>7. ASSUME NEW q \in Quote, QuoteLapses(q) PROVE UNCHANGED L!vars
    BY <1>7, Stutters DEF QuoteLapses
  <1>8. ASSUME UNCHANGED vars PROVE UNCHANGED L!vars
    BY <1>8, Stutters DEF vars
  <1> QED
    BY <1>1, <1>2, <1>3, <1>4, <1>5, <1>6, <1>7, <1>8 DEF Next, Quiet

\* The orchestration implements the promised life cycle: whatever crashes, times
\* out or arrives twice, transfers are claimed once, keep their command, settle
\* once together with their record, and are completed only if posted.
THEOREM FollowsLifecycleTheorem == Spec => FollowsLifecycle
  <1>1. Init => L!Init
    BY DEF Init, L!Init, NoRecord
  <1>2. IInv /\ [Next]_vars => [L!Next]_(L!vars)
    BY NextRefines
  <1> QED
    BY Inductive, <1>1, <1>2, PTL DEF Spec, FollowsLifecycle, L!Spec
=============================================================================
