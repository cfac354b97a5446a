--------------------------- MODULE AuditedIdentity --------------------------
(***************************************************************************)
(* Identity updates in the Account service together with the audit chain   *)
(* of the Admin service: an update stores the identity and then sends an   *)
(* event, which an append of the Admin service takes up, in the stream of  *)
(* the user.  The caller waits two seconds and no longer; the append goes  *)
(* on without it, and a call may arrive late or never.                     *)
(*                                                                         *)
(* Module Audit is extended; I is the instance of Identity, whose requests *)
(* are the ones of Audit that come from the Account service.               *)
(***************************************************************************)
EXTENDS Audit

CONSTANTS Caller, User, Legacy, Command, OldKey, NewKey, MaxTime, MaxFaults

ASSUME CallerAssumption == Caller \subseteq Request /\ User \subseteq Stream /\ Legacy \subseteq User
ASSUME CommandAssumption ==
  \A c \in Command : /\ c.op \in {"update", "ensure", "get", "lookup"}
                     /\ c.op # "lookup" => c.user \in User
ASSUME BoundsAssumption == MaxTime \in Nat /\ MaxFaults \in Nat
ASSUME KeyAssumption == OldKey # NewKey /\ "" \notin {OldKey, NewKey}

VARIABLES clock, users, deployed, identityPc, cmd, active, seen, identityReply,
          rewrap, pending, raced, faults

I == INSTANCE Identity WITH Request <- Caller, pc <- identityPc, reply <- identityReply

identityVars == <<clock, users, deployed, identityPc, cmd, active, seen, identityReply,
                  rewrap, pending, raced, faults>>

-----------------------------------------------------------------------------
\* AuditClient.identityUpdated: the id covers the user and the canonical
\* identity, the body has the time of the row and says nothing of the identity.
IdentityEvent(r) ==
  [id |-> <<"identity", cmd[r].user, I!normalizeIdentity(cmd[r].input)>>, stream |-> cmd[r].user,
   data |-> <<"user.identity.updated">>, at |-> seen[r].at, operator |-> FALSE]

\* The call reaches the Admin service, perhaps after its caller has given up.
Arrive(r) ==
  /\ identityPc[r] = "audit" \/ identityReply[r] = "AUDIT_UNAVAILABLE"
  /\ ReceiveAppend(r, IdentityEvent(r))
  /\ UNCHANGED identityVars

\* The answer arrives in time; every status but success is an outage.
Answered(r) ==
  /\ pc[r] = "done"
  /\ I!Audited(r, reply[r] = "RECORDED")
  /\ UNCHANGED <<vars, faults>>

\* Mutant: the event is sent without waiting for an answer.
TimesOutMutant(r) == I!Audited(r, TRUE) /\ I!Fault /\ UNCHANGED vars

\* No answer within two seconds.
TimesOut(r) == I!Audited(r, FALSE) /\ I!Fault /\ UNCHANGED vars

-----------------------------------------------------------------------------
AuditedInit == Init /\ I!Init

\* Everything is answered, and no call is on its way.
AllDone ==
  /\ \A r \in Caller : identityPc[r] = "done"
  /\ \A r \in Request : pc[r] \in {"idle", "done"}
  /\ UNCHANGED <<vars, identityVars>>

AuditedNext ==
  \/ \E r \in Caller : (I!Step(r) \/ \E c \in Command : I!Receive(r, c)) /\ UNCHANGED vars
  \/ (I!Rotate \/ I!Tick) /\ UNCHANGED vars
  \/ \E r \in Caller : Arrive(r) \/ Answered(r) \/ TimesOut(r)
  \/ \E r \in Request : Step(r) /\ UNCHANGED identityVars
  \/ \E r \in Request \ Caller : Receive(r) /\ UNCHANGED identityVars
  \/ \E s \in Stream : Tamper(s) /\ UNCHANGED identityVars
  \/ AllDone

AuditedSpec == AuditedInit /\ [][AuditedNext]_<<vars, identityVars>>
-----------------------------------------------------------------------------
(* Properties *)

\* An identity change that was acknowledged is in the stream of its user.  A
\* client that is told the trail is unavailable although no call was lost has
\* sent an event whose id is already there (at another time, or from another
\* service): no change is stored unaudited without a fault.  And of two users who
\* ask for one email, however spelled, one has it.
UpdatesAudited ==
  /\ \A r \in Caller : cmd[r].op = "update" /\ tampers = 0 =>
       LET e == IdentityEvent(r) IN
       /\ identityReply[r] = "OK" => StoredIn(e.stream, e.id) # {}
       /\ identityReply[r] = "AUDIT_UNAVAILABLE" /\ faults = 0 => Stored(e.id)
  /\ \A u, v \in User : u # v /\ users[u].digest # "null" => users[u].digest # users[v].digest

\* See module Identity.
IdentitiesReadable == I!IdentitiesReadable
RotationComplete == I!RotationComplete
UpdatesKept == I!UpdatesKept

-----------------------------------------------------------------------------
(* Stronger than what the code does; the README tells how it fails *)

\* README: replay-safe retries.  A repeated update whose event is in the stream
\* of the user is answered like the first one when no call fails.
RepeatedUpdatesSucceed ==
  \A r \in Caller : identityReply[r] = "AUDIT_UNAVAILABLE" /\ tampers = 0 =>
    faults > 0 \/ StoredIn(cmd[r].user, IdentityEvent(r).id) = {}
AlwaysReadable == I!AlwaysReadable
BackfillKeepsUpdates == I!BackfillKeepsUpdates
=============================================================================
