------------------------------ MODULE MCIdentity ----------------------------
(* Instance of AuditedIdentity for TLC. *)
EXTENDS AuditedIdentity

CONSTANTS r1, r2, operator, u1, u2

Callers == {r1, r2}
Requests == {r1, r2, operator}
Users == {u1, u2}
OneUser == {u1}
OneKey == {"k"}
CallerSymmetry == Permutations(Callers)

Field(text, spelling) == [text |-> text, spelling |-> spelling]
Update(user, email, name) == [op |-> "update", user |-> user, input |-> [email |-> email, name |-> name]]

\* A legacy user and a new one want the same email, spelled differently; one
\* identity changes and changes back, is read, and created by a wallet request.
Commands ==
  { Update(u1, Field("e", "plain"), Field("n", "plain")), Update(u1, Field("e", "upper"), Field("m", "plain")),
    Update(u2, Field("e", "upper"), Field("n", "padded")),
    [op |-> "ensure", user |-> u1], [op |-> "get", user |-> u1],
    [op |-> "lookup", email |-> Field("e", "upper")] }

\* Another service uses the id of an identity event in another stream.
Events ==
  { [id |-> <<"identity", u1, [email |-> "e", name |-> "n"]>>, stream |-> u2, data |-> <<"other">>,
     at |-> 0, operator |-> FALSE] }

\* Who watches the audit trail does not see which keys wrap the identities: the
\* rotation, and the verifications and other services, are explored one at a time.
Focus ==
  \/ pc[operator] = "idle" /\ tampers = 0
  \/ /\ rewrap = "idle" /\ ~deployed /\ faults = 0 /\ clock = 0
     /\ \A r \in Caller : active[r] = OldKey \/ cmd[r].op \in {"get", "lookup"}
     /\ \A u \in User : users[u].keyVersion # NewKey
=============================================================================
