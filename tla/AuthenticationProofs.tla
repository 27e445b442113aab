------------------------ MODULE AuthenticationProofs -------------------------
(***************************************************************************)
(* Theorems about Authentication, for any accounts, requests, rows,        *)
(* lifetimes and bounds.                                                   *)
(*                                                                         *)
(* The rows only grow: every step leaves an issued row issued, with its    *)
(* kind, account and chain, and never takes a revocation back.  That the   *)
(* request of a step has its row is an invariant (CallersKnown), and what  *)
(* another request knows of a row survives the step because rows grow.     *)
(*                                                                         *)
(* One credential has one handler running: whoever runs has its row        *)
(* locked (LInv).                                                          *)
(***************************************************************************)
EXTENDS Authentication, TLAPS

\* A row of the table has its type and a chain exactly if it is of a grant.
RowOK(row) ==
  /\ row \in Credential
  /\ (row.chain # None) = (row.kind \in {"access", "refresh"})

TableOK(table) ==
  /\ table \in [Ids -> Credential \cup {Unissued}]
  /\ \A i \in Ids : table[i] # Unissued => RowOK(table[i])

Grows(old, new) ==
  \A i \in Ids : old[i] # Unissued =>
    /\ new[i] # Unissued
    /\ new[i].kind = old[i].kind
    /\ new[i].user = old[i].user
    /\ new[i].chain = old[i].chain
    /\ old[i].revoked => new[i].revoked

\* A request that is past its SELECT has found the row it presented.
CallersKnown ==
  \A r \in Requests :
    /\ req[r].pc \in {"touching", "serving", "exchanging"}
         => req[r].caller \in Ids /\ Issued(req[r].caller)
    /\ req[r].pc = "exchanging" => creds[req[r].caller].kind = "refresh"

IInv == AuthTypeOK /\ CallersKnown

-----------------------------------------------------------------------------
(* Rows.                                                                   *)

LEMMA IssuedNotUnissued ==
  ASSUME NEW row \in Credential PROVE row # Unissued
  BY DEF Credential, Kinds, Unissued

\* The table part of the type invariant.
LEMMA TypeTable ==
  ASSUME AuthTypeOK PROVE TableOK(creds)
  <1>1. ASSUME NEW i \in Ids, creds[i] # Unissued PROVE RowOK(creds[i])
    BY <1>1 DEF AuthTypeOK, Issued, RowOK
  <1> QED BY <1>1 DEF AuthTypeOK, TableOK

LEMMA NewSessionOK ==
  ASSUME NEW user \in Users, now \in Nat PROVE RowOK(NewSession(user))
  BY AuthAssumption DEF RowOK, NewSession, Credential, Kinds

LEMMA NewTokenOK ==
  ASSUME NEW user \in Users, NEW kind \in Kinds \ {"session"},
         NEW chain \in Ids \cup {None}, NEW expires \in Nat \cup {None},
         (chain # None) = (kind \in {"access", "refresh"})
  PROVE  RowOK(NewToken(kind, user, chain, expires))
  BY DEF RowOK, NewToken, Credential, Kinds

LEMMA GrowsReflexive == ASSUME NEW t PROVE Grows(t, t)
  BY DEF Grows

LEMMA GrowsTransitive ==
  ASSUME NEW t, NEW u, NEW v, Grows(t, u), Grows(u, v) PROVE Grows(t, v)
  BY DEF Grows

\* An INSERT takes an id nobody has.
LEMMA InsertOK ==
  ASSUME NEW table, TableOK(table), NEW i \in Ids, table[i] = Unissued,
         NEW row, RowOK(row)
  PROVE  LET new == [table EXCEPT ![i] = row]
         IN  TableOK(new) /\ Grows(table, new)
  <1> DEFINE new == [table EXCEPT ![i] = row]
  <1>1. new \in [Ids -> Credential \cup {Unissued}]
    BY DEF TableOK, RowOK
  <1>2. ASSUME NEW j \in Ids PROVE new[j] = IF j = i THEN row ELSE table[j]
    BY DEF TableOK
  <1>3. TableOK(new)
    BY <1>1, <1>2 DEF TableOK
  <1>4. Grows(table, new)
    BY <1>2 DEF Grows
  <1> QED BY <1>3, <1>4

\* The UPDATEs of a commit change the stamp and revoke.
LEMMA UpdatedOK ==
  ASSUME AuthTypeOK, NEW r \in Requests, req[r] \in Request
  PROVE  TableOK(Updated(r)) /\ Grows(creds, Updated(r))
  <1> DEFINE new == Updated(r)
  <1>t. TableOK(creds) BY TypeTable
  <1>1. ASSUME NEW i \in Ids, creds[i] # Unissued
        PROVE  /\ RowOK(new[i])
               /\ new[i].kind = creds[i].kind
               /\ new[i].user = creds[i].user
               /\ new[i].chain = creds[i].chain
               /\ creds[i].revoked => new[i].revoked
    <2> DEFINE stamp == IF i = req[r].caller /\ creds[i].kind = "session"
                        THEN req[r].seen ELSE creds[i].seen
               flag == creds[i].revoked \/ i \in req[r].doomed
    <2>1. RowOK(creds[i]) BY <1>t, <1>1 DEF TableOK
    <2>2. new[i] = [creds[i] EXCEPT !.seen = stamp, !.revoked = flag]
      BY <1>1, <2>1 DEF Updated, Issued, RowOK, Credential
    <2>3. stamp \in Nat /\ flag \in BOOLEAN
      BY <2>1 DEF RowOK, Credential, Request
    <2>4. creds[i].revoked => flag
      OBVIOUS
    <2> DEFINE old == creds[i]
               row == new[i]
    <2>5. /\ RowOK(old)
          /\ row = [old EXCEPT !.seen = stamp, !.revoked = flag]
      BY <2>1, <2>2
    <2> HIDE DEF stamp, flag, old, row
    <2>6. /\ RowOK(row)
          /\ row.kind = old.kind
          /\ row.user = old.user
          /\ row.chain = old.chain
          /\ row.revoked = flag
      BY <2>3, <2>5 DEF RowOK, Credential
    <2> QED BY <2>4, <2>6 DEF old, row
  <1>2. ASSUME NEW i \in Ids, creds[i] = Unissued PROVE new[i] = Unissued
    BY <1>2 DEF Updated, Issued
  <1>3. \A i \in Ids : creds[i] # Unissued => new[i] # Unissued
    BY <1>1, IssuedNotUnissued DEF RowOK
  <1>4. new \in [Ids -> Credential \cup {Unissued}]
    <2>1. \A i \in Ids : new[i] \in Credential \cup {Unissued}
      BY <1>1, <1>2 DEF RowOK
    <2>2. new = [i \in Ids |-> new[i]] BY DEF Updated
    <2> HIDE DEF new
    <2> QED BY <2>1, <2>2
  <1> HIDE DEF new
  <1>5. TableOK(new) BY <1>1, <1>2, <1>4 DEF TableOK
  <1>6. Grows(creds, new) BY <1>1, <1>3 DEF Grows
  <1> QED BY <1>5, <1>6 DEF new

\* Exchanging a refresh token revokes it.
LEMMA ExchangedOK ==
  ASSUME AuthTypeOK, NEW t \in Ids, Issued(t)
  PROVE  /\ TableOK(Exchanged(t)) /\ Grows(creds, Exchanged(t))
         /\ \A i \in Ids : ~ Issued(i) => Exchanged(t)[i] = Unissued
  <1> DEFINE new == Exchanged(t)
             row == [creds[t] EXCEPT !.revoked = TRUE]
  <1>t. TableOK(creds) BY TypeTable
  <1>1. RowOK(creds[t]) BY <1>t DEF TableOK, Issued
  <1>2. /\ RowOK(row) /\ row.kind = creds[t].kind /\ row.user = creds[t].user
        /\ row.chain = creds[t].chain /\ row.revoked
    BY <1>1 DEF RowOK, Credential
  <1>3. new = [creds EXCEPT ![t] = row]
    BY DEF Exchanged
  <1> HIDE DEF new, row
  <1>4. new \in [Ids -> Credential \cup {Unissued}]
    BY <1>2, <1>3, <1>t DEF TableOK, RowOK
  <1>5. ASSUME NEW i \in Ids PROVE new[i] = IF i = t THEN row ELSE creds[i]
    BY <1>3, <1>t DEF TableOK
  <1>6. row # Unissued BY <1>2, IssuedNotUnissued DEF RowOK
  <1>7. TableOK(new) BY <1>2, <1>4, <1>5, <1>t DEF TableOK
  <1>8. Grows(creds, new) BY <1>2, <1>5, <1>6 DEF Grows
  <1>9. \A i \in Ids : ~ Issued(i) => new[i] = Unissued
    BY <1>5 DEF Issued
  <1> QED BY <1>7, <1>8, <1>9 DEF new

\* The pair of a grant takes two ids nobody has.
LEMMA PairOK ==
  ASSUME NEW table, TableOK(table), NEW i \in Ids, NEW j \in Ids, i # j,
         table[i] = Unissued, table[j] = Unissued,
         NEW user \in Users, NEW chain \in Ids, now \in Nat
  PROVE  /\ TableOK(WithPair(table, i, j, user, chain))
         /\ Grows(table, WithPair(table, i, j, user, chain))
  <1> DEFINE a == NewToken("access", user, chain, now + AccessTTL)
             b == NewToken("refresh", user, chain, now + RefreshTTL)
             one == [table EXCEPT ![i] = a]
             two == [one EXCEPT ![j] = b]
  <1>0. /\ chain # None
        /\ now + AccessTTL \in Nat /\ now + RefreshTTL \in Nat
    BY AuthAssumption
  <1>1. RowOK(a)
    BY <1>0, NewTokenOK DEF Kinds
  <1>2. RowOK(b)
    BY <1>0, NewTokenOK DEF Kinds
  <1> HIDE DEF a, b
  <1>3. TableOK(one) /\ Grows(table, one)
    BY <1>1, InsertOK
  <1>4. one[j] = Unissued
    BY DEF TableOK
  <1>5. TableOK(two) /\ Grows(one, two)
    <2> HIDE DEF one
    <2> QED BY <1>2, <1>3, <1>4, InsertOK
  <1>6. WithPair(table, i, j, user, chain) = two
    BY DEF WithPair, a, b
  <1>7. Grows(table, two)
    BY <1>3, <1>5, GrowsTransitive
  <1> QED BY <1>5, <1>6, <1>7

-----------------------------------------------------------------------------
(* Requests and locks.                                                     *)

\* What a request knows of the row it presented.
Known(q, table) ==
  /\ q.pc \in {"touching", "serving", "exchanging"}
       => q.caller \in Ids /\ table[q.caller] # Unissued
  /\ q.pc = "exchanging" => table[q.caller].kind = "refresh"

LEMMA KnownGrows ==
  ASSUME NEW q, NEW old, NEW new, Known(q, old), Grows(old, new)
  PROVE  Known(q, new)
  BY DEF Known, Grows

\* A step of one request, over rows that grow, leaves every request typed and
\* knowing its row.
LEMMA RequestStep ==
  ASSUME IInv, NEW r \in Requests, NEW q \in Request \cup {Idle},
         req' = [req EXCEPT ![r] = q], Grows(creds, creds'), Known(q, creds')
  PROVE  req' \in [Requests -> Request \cup {Idle}] /\ CallersKnown'
  <1>1. req' \in [Requests -> Request \cup {Idle}]
    BY DEF IInv, AuthTypeOK
  <1>2. ASSUME NEW s \in Requests PROVE Known(req'[s], creds')
    <2>1. CASE s = r
      BY <2>1 DEF IInv, AuthTypeOK
    <2>2. CASE s # r
      <3>1. req'[s] = req[s]
        BY <2>2 DEF IInv, AuthTypeOK
      <3>2. Known(req[s], creds)
        BY DEF IInv, CallersKnown, Known, Issued
      <3> QED BY <3>1, <3>2, KnownGrows
    <2> QED BY <2>1, <2>2
  <1>3. CallersKnown'
    BY <1>2 DEF CallersKnown, Known, Issued
  <1> QED BY <1>1, <1>3

LEMMA IdleKnown == ASSUME NEW table PROVE Known(Idle, table)
  BY DEF Known, Idle

LEMMA FinishStep ==
  ASSUME IInv, NEW r \in Requests, Finish(r), Grows(creds, creds')
  PROVE  /\ req' \in [Requests -> Request \cup {Idle}]
         /\ CallersKnown'
         /\ LocksTypeOK'
  <1>1. req' = [req EXCEPT ![r] = Idle] /\ Release(r)
    BY DEF Finish
  <1>2. LocksTypeOK'
    BY <1>1 DEF Release, LocksTypeOK, IInv, AuthTypeOK
  <1> QED BY <1>1, <1>2, RequestStep, IdleKnown

LEMMA LockStep ==
  ASSUME LocksTypeOK, NEW i, NEW r \in Requests, Lock(i, r)
  PROVE  LocksTypeOK'
  BY DEF LocksTypeOK, Lock

LEMMA AnswerStep ==
  ASSUME IInv, NEW r \in Requests, req[r] \in Request, Answer(r)
  PROVE  answered' \in [Ids -> Nat]
  BY DEF IInv, AuthTypeOK, Answer, Request

\* A request at one of its steps is not idle.
LEMMA BusyRequest ==
  ASSUME IInv, NEW r \in Requests, ~ At(r, "idle")
  PROVE  req[r] \in Request
  BY DEF IInv, AuthTypeOK, At, Idle

LEMMA RequestFields ==
  ASSUME NEW q \in Request
  PROVE  /\ q.pc \in Steps /\ q.pc # "idle"
         /\ q.caller \in Ids \cup {None}
         /\ q.seen \in Nat
         /\ q.doomed \in SUBSET Ids
  BY DEF Request, Steps

\* The invariant, put together from its parts.
LEMMA Reassemble ==
  ASSUME TableOK(creds'), req' \in [Requests -> Request \cup {Idle}],
         LocksTypeOK', now' \in Nat, answered' \in [Ids -> Nat], CallersKnown'
  PROVE  IInv'
  BY DEF TableOK, RowOK, IInv, AuthTypeOK, Issued

-----------------------------------------------------------------------------
(* The steps.  Each lemma: the invariant is kept and the rows grow.         *)

Good == IInv' /\ Grows(creds, creds')

LEMMA SignInStep ==
  ASSUME IInv, NEW user \in Users, SignIn(user) PROVE Good
  <1> PICK i \in Ids :
        /\ ~ Issued(i)
        /\ creds' = [creds EXCEPT ![i] = NewSession(user)]
        /\ answered' = [answered EXCEPT ![i] = now]
        /\ UNCHANGED <<req, holder, now>>
    BY DEF SignIn
  <1>1. TableOK(creds) /\ now \in Nat
    BY TypeTable DEF IInv, AuthTypeOK
  <1>2. TableOK(creds') /\ Grows(creds, creds')
    BY <1>1, NewSessionOK, InsertOK DEF Issued
  <1>3. answered' \in [Ids -> Nat] /\ LocksTypeOK' /\ now' \in Nat
    BY DEF IInv, AuthTypeOK, LocksTypeOK
  <1>4. req' \in [Requests -> Request \cup {Idle}] /\ CallersKnown'
    <2>1. ASSUME NEW r \in Requests PROVE Known(req'[r], creds')
      <3>1. Known(req[r], creds)
        BY DEF IInv, CallersKnown, Known, Issued
      <3> QED BY <1>2, <3>1, KnownGrows
    <2> QED BY <2>1 DEF CallersKnown, Known, Issued, IInv, AuthTypeOK
  <1> QED BY <1>2, <1>3, <1>4, Reassemble DEF Good

LEMMA GrantStep ==
  ASSUME IInv, NEW user \in Users, Grant(user) PROVE Good
  <1> PICK i \in Ids, j \in Ids :
        /\ i # j /\ ~ Issued(i) /\ ~ Issued(j)
        /\ creds' = WithPair(creds, i, j, user, i)
        /\ UNCHANGED <<req, holder, now, answered>>
    BY DEF Grant
  <1>1. TableOK(creds) /\ now \in Nat
    BY TypeTable DEF IInv, AuthTypeOK
  <1>2. TableOK(creds') /\ Grows(creds, creds')
    BY <1>1, PairOK DEF Issued
  <1>3. answered' \in [Ids -> Nat] /\ LocksTypeOK' /\ now' \in Nat
    BY DEF IInv, AuthTypeOK, LocksTypeOK
  <1>4. req' \in [Requests -> Request \cup {Idle}] /\ CallersKnown'
    <2>1. ASSUME NEW r \in Requests PROVE Known(req'[r], creds')
      <3>1. Known(req[r], creds)
        BY DEF IInv, CallersKnown, Known, Issued
      <3> QED BY <1>2, <3>1, KnownGrows
    <2> QED BY <2>1 DEF CallersKnown, Known, Issued, IInv, AuthTypeOK
  <1> QED BY <1>2, <1>3, <1>4, Reassemble DEF Good

\* The steps that only move one request on.
LEMMA MoveStep ==
  ASSUME IInv, NEW r \in Requests, NEW q \in Request,
         req' = [req EXCEPT ![r] = q], Known(q, creds),
         LocksTypeOK', UNCHANGED <<creds, now, answered>>
  PROVE  Good
  <1>1. TableOK(creds) /\ Grows(creds, creds')
    BY TypeTable, GrowsReflexive DEF IInv
  <1>2. req' \in [Requests -> Request \cup {Idle}] /\ CallersKnown'
    BY <1>1, RequestStep
  <1> QED BY <1>1, <1>2, Reassemble DEF Good, IInv, AuthTypeOK

\* The steps that end one request and keep nothing of it.
LEMMA DropStep ==
  ASSUME IInv, NEW r \in Requests, Finish(r), answered' \in [Ids -> Nat],
         UNCHANGED <<creds, now>>
  PROVE  Good
  <1>1. TableOK(creds) /\ Grows(creds, creds')
    BY TypeTable, GrowsReflexive DEF IInv
  <1> QED BY <1>1, FinishStep, Reassemble DEF Good, IInv, AuthTypeOK

\* The steps that end one request and commit.
LEMMA CommitStep ==
  ASSUME IInv, NEW r \in Requests, Finish(r), answered' \in [Ids -> Nat],
         TableOK(creds'), Grows(creds, creds'), UNCHANGED now
  PROVE  Good
  BY FinishStep, Reassemble DEF Good, IInv, AuthTypeOK

LEMMA PresentStep ==
  ASSUME IInv, NEW r \in Requests, Present(r) PROVE Good
  <1> PICK i \in Ids :
        /\ Usable(i)
        /\ req' = [req EXCEPT ![r] =
             Asking("touching", i, IF creds[i].kind = "session" THEN now ELSE 0, {})]
        /\ UNCHANGED <<creds, holder, now, answered>>
    BY DEF Present
  <1> DEFINE q == Asking("touching", i,
                         IF creds[i].kind = "session" THEN now ELSE 0, {})
  <1>1. q \in Request /\ Known(q, creds)
    BY DEF Asking, Request, Steps, Known, Usable, CheckLive, Issued, IInv,
           AuthTypeOK
  <1>2. LocksTypeOK' BY DEF IInv, AuthTypeOK, LocksTypeOK
  <1> QED BY <1>1, <1>2, MoveStep

LEMMA TouchStep ==
  ASSUME IInv, NEW r \in Requests, Touch(r) PROVE Good
  <1> DEFINE q == [req[r] EXCEPT !.pc = "serving"]
  <1>1. req[r] \in Request
    BY BusyRequest DEF Touch, At
  <1>2. q \in Request /\ Known(q, creds)
    BY <1>1 DEF Request, Steps, Known, IInv, CallersKnown, Touch, At, Issued
  <1>3. LocksTypeOK'
    BY LockStep DEF Touch, IInv, AuthTypeOK
  <1> QED BY <1>2, <1>3, MoveStep DEF Touch

LEMMA LeaveStep ==
  ASSUME IInv, NEW r \in Requests, Leave(r) PROVE Good
  BY BusyRequest, AnswerStep, DropStep DEF Leave, At

LEMMA KeepStep ==
  ASSUME IInv, NEW r \in Requests, Keep(r) PROVE Good
  <1>1. req[r] \in Request
    BY BusyRequest DEF Keep, At
  <1>2. TableOK(creds') /\ Grows(creds, creds')
    BY <1>1, UpdatedOK DEF Keep, IInv
  <1> QED BY <1>1, <1>2, AnswerStep, CommitStep DEF Keep

LEMMA MintStep ==
  ASSUME IInv, NEW r \in Requests, Mint(r) PROVE Good
  <1> DEFINE user == creds[req[r].caller].user
             row == NewToken("pat", user, None, None)
  <1> PICK i \in Ids :
        /\ At(r, "serving")
        /\ ~ Issued(i)
        /\ creds' = [Updated(r) EXCEPT ![i] = row]
        /\ Finish(r)
        /\ Answer(r)
        /\ UNCHANGED now
    BY DEF Mint
  <1>1. req[r] \in Request
    BY BusyRequest DEF At
  <1>2. TableOK(Updated(r)) /\ Grows(creds, Updated(r))
    BY <1>1, UpdatedOK DEF IInv
  <1>3. Updated(r)[i] = Unissued
    BY DEF Updated, Issued
  <1>4. user \in Users
    BY TypeTable DEF IInv, CallersKnown, At, Issued, TableOK, RowOK, Credential
  <1>5. RowOK(row)
    <2> HIDE DEF user
    <2> QED BY <1>4 DEF RowOK, NewToken, Credential, Kinds
  <1> HIDE DEF row
  <1>6. TableOK(creds') /\ Grows(Updated(r), creds')
    BY <1>2, <1>3, <1>5, InsertOK
  <1>7. Grows(creds, creds')
    BY <1>2, <1>6, GrowsTransitive
  <1> QED BY <1>1, <1>6, <1>7, AnswerStep, CommitStep

LEMMA SelectTargetStep ==
  ASSUME IInv, NEW r \in Requests, SelectTarget(r) PROVE Good
  <1> PICK i \in Ids :
        /\ At(r, "serving")
        /\ req' = [req EXCEPT ![r].pc = "revoking", ![r].doomed = {i}]
        /\ UNCHANGED <<creds, holder, now, answered>>
    BY DEF SelectTarget
  <1> DEFINE q == [req[r] EXCEPT !.pc = "revoking", !.doomed = {i}]
  <1>1. req[r] \in Request
    BY BusyRequest DEF At
  <1>2. q \in Request /\ Known(q, creds)
    BY <1>1 DEF Request, Steps, Known
  <1>3. LocksTypeOK' BY DEF IInv, AuthTypeOK, LocksTypeOK
  <1>4. req' = [req EXCEPT ![r] = q]
    BY DEF IInv, AuthTypeOK
  <1> QED BY <1>2, <1>3, <1>4, MoveStep

LEMMA SelectAllStep ==
  ASSUME IInv, NEW r \in Requests, SelectAll(r) PROVE Good
  <1> DEFINE all == SignedIn(creds[req[r].caller].user)
             q == [req[r] EXCEPT !.pc = "leaving", !.doomed = all]
  <1>1. req[r] \in Request
    BY BusyRequest DEF SelectAll, At
  <1>2. all \in SUBSET Ids
    BY DEF SignedIn
  <1>3. req' = [req EXCEPT ![r] = q]
    BY DEF SelectAll, IInv, AuthTypeOK
  <1>4. q \in Request /\ Known(q, creds)
    <2> HIDE DEF all
    <2> QED BY <1>1, <1>2 DEF Request, Steps, Known
  <1>5. LocksTypeOK' BY DEF IInv, AuthTypeOK, LocksTypeOK, SelectAll
  <1> QED BY <1>3, <1>4, <1>5, MoveStep DEF SelectAll

LEMMA LogoutStep ==
  ASSUME IInv, NEW r \in Requests, Logout(r) PROVE Good
  <1> PICK i \in Ids :
        /\ req' = [req EXCEPT ![r] = Asking("revoking", None, 0, {i})]
        /\ UNCHANGED <<creds, holder, now, answered>>
    BY DEF Logout
  <1>1. /\ Asking("revoking", None, 0, {i}) \in Request
        /\ Known(Asking("revoking", None, 0, {i}), creds)
    BY DEF Asking, Request, Steps, Known
  <1>2. LocksTypeOK' BY DEF IInv, AuthTypeOK, LocksTypeOK
  <1> QED BY <1>1, <1>2, MoveStep

LEMMA LockNextStep ==
  ASSUME IInv, NEW r \in Requests, LockNext(r) PROVE Good
  <1>1. LocksTypeOK'
    BY LockStep DEF LockNext, IInv, AuthTypeOK
  <1>2. TableOK(creds) /\ Grows(creds, creds')
    BY TypeTable, GrowsReflexive DEF IInv, LockNext
  <1>3. CallersKnown'
    BY DEF CallersKnown, IInv, LockNext, Issued
  <1> QED BY <1>1, <1>2, <1>3, Reassemble DEF Good, LockNext, IInv, AuthTypeOK

LEMMA CommitRevocationStep ==
  ASSUME IInv, NEW r \in Requests, CommitRevocation(r) PROVE Good
  <1>1. req[r] \in Request
    BY BusyRequest DEF CommitRevocation, At
  <1>2. TableOK(creds') /\ Grows(creds, creds')
    BY <1>1, UpdatedOK DEF CommitRevocation, IInv
  <1> QED BY <1>1, <1>2, AnswerStep, CommitStep DEF CommitRevocation

LEMMA PresentRefreshStep ==
  ASSUME IInv, NEW r \in Requests, PresentRefresh(r) PROVE Good
  <1> PICK i \in Ids :
        /\ Issued(i) /\ creds[i].kind = "refresh"
        /\ \/ req' = [req EXCEPT ![r] = Asking("exchanging", i, 0, {})]
           \/ req' = [req EXCEPT ![r] =
                Asking("breaking", i, 0, LiveInChain(creds[i].chain))]
        /\ UNCHANGED <<creds, holder, now, answered>>
    BY DEF PresentRefresh
  <1>1. LocksTypeOK' BY DEF IInv, AuthTypeOK, LocksTypeOK
  <1>2. CASE req' = [req EXCEPT ![r] = Asking("exchanging", i, 0, {})]
    <2>1. /\ Asking("exchanging", i, 0, {}) \in Request
          /\ Known(Asking("exchanging", i, 0, {}), creds)
      BY DEF Asking, Request, Steps, Known, Issued
    <2> QED BY <1>1, <1>2, <2>1, MoveStep
  <1>3. CASE req' = [req EXCEPT ![r] =
               Asking("breaking", i, 0, LiveInChain(creds[i].chain))]
    <2> DEFINE rest == LiveInChain(creds[i].chain)
    <2>1. rest \in SUBSET Ids BY DEF LiveInChain
    <2> HIDE DEF rest
    <2>2. /\ Asking("breaking", i, 0, rest) \in Request
          /\ Known(Asking("breaking", i, 0, rest), creds)
      BY <2>1 DEF Asking, Request, Steps, Known
    <2> QED BY <1>1, <1>3, <2>2, MoveStep DEF rest
  <1> QED BY <1>2, <1>3

LEMMA ExchangeStep ==
  ASSUME IInv, NEW r \in Requests, Exchange(r) PROVE Good
  <1> DEFINE t == req[r].caller
  <1> PICK i \in Ids, j \in Ids :
        /\ At(r, "exchanging")
        /\ i # j /\ ~ Issued(i) /\ ~ Issued(j)
        /\ creds' = WithPair(Exchanged(t), i, j, creds[t].user, creds[t].chain)
        /\ Finish(r)
        /\ UNCHANGED <<now, answered>>
    BY DEF Exchange
  <1>1. t \in Ids /\ Issued(t) /\ creds[t].kind = "refresh"
    BY DEF IInv, CallersKnown, At
  <1>2. creds[t].user \in Users /\ creds[t].chain \in Ids
    BY <1>1, TypeTable DEF IInv, TableOK, RowOK, Credential, Issued
  <1>3. /\ TableOK(Exchanged(t)) /\ Grows(creds, Exchanged(t))
        /\ Exchanged(t)[i] = Unissued /\ Exchanged(t)[j] = Unissued
    BY <1>1, ExchangedOK DEF IInv
  <1>4. TableOK(creds') /\ Grows(Exchanged(t), creds')
    BY <1>2, <1>3, PairOK DEF IInv, AuthTypeOK
  <1>5. Grows(creds, creds')
    BY <1>3, <1>4, GrowsTransitive
  <1>6. answered' \in [Ids -> Nat]
    BY DEF IInv, AuthTypeOK
  <1> QED BY <1>4, <1>5, <1>6, CommitStep

\* The four steps that end a request and keep nothing.
LEMMA EndingStep ==
  ASSUME IInv, NEW r \in Requests,
         RefuseReplay(r) \/ BreakDeadlock(r) \/ Abort(r) \/ GiveUp(r)
  PROVE  Good
  BY DropStep DEF RefuseReplay, BreakDeadlock, Abort, GiveUp, IInv, AuthTypeOK

\* The clock, and steps that are not of this system.
LEMMA OtherStep ==
  ASSUME IInv, ClockTick \/ UNCHANGED authVars PROVE Good
  <1>1. UNCHANGED <<creds, req, holder, answered>> /\ now' \in Nat
    BY DEF ClockTick, authVars, IInv, AuthTypeOK
  <1>2. Grows(creds, creds') BY <1>1, GrowsReflexive
  <1>3. IInv'
    BY <1>1 DEF IInv, AuthTypeOK, LocksTypeOK, CallersKnown, Issued
  <1> QED BY <1>2, <1>3 DEF Good

LEMMA InitIInv == Init => IInv
  <1> SUFFICES ASSUME Init PROVE IInv
    OBVIOUS
  <1>1. AuthTypeOK
    BY DEF Init, AuthTypeOK, LocksInit, LocksTypeOK, Issued
  <1>2. CallersKnown
    BY DEF Init, CallersKnown, Idle
  <1> QED BY <1>1, <1>2 DEF IInv

LEMMA StepIInv == IInv /\ [Next]_authVars => Good
  <1> SUFFICES ASSUME IInv, [Next]_authVars PROVE Good
    OBVIOUS
  <1>1. CASE \E user \in Users : SignIn(user) \/ Grant(user)
    BY <1>1, SignInStep, GrantStep
  <1>2. ASSUME NEW r \in Requests,
               Present(r) \/ Logout(r) \/ PresentRefresh(r) PROVE Good
    BY <1>2, PresentStep, LogoutStep, PresentRefreshStep
  <1>3. ASSUME NEW r \in Requests, Progress(r) PROVE Good
    BY <1>3, TouchStep, LeaveStep, KeepStep, MintStep, SelectTargetStep,
       SelectAllStep, LockNextStep, CommitRevocationStep, ExchangeStep,
       EndingStep
       DEF Progress
  <1>4. ASSUME NEW r \in Requests, BreakDeadlock(r) \/ Abort(r) PROVE Good
    BY <1>4, EndingStep
  <1>5. CASE ClockTick \/ UNCHANGED authVars
    BY <1>5, OtherStep
  <1> QED BY <1>1, <1>2, <1>3, <1>4, <1>5 DEF Next

-----------------------------------------------------------------------------

\* Rows, requests and locks keep their shapes, and a token of a grant carries
\* the chain of that grant.
THEOREM AuthTypeCorrect == Spec => []AuthTypeOK
  <1>1. IInv => AuthTypeOK BY DEF IInv
  <1>2. Good => IInv' BY DEF Good
  <1> QED BY <1>1, <1>2, InitIInv, StepIInv, PTL DEF Spec

\* Nothing the service does makes a revoked session or token usable again,
\* whatever requests had read its row before the revocation committed.
THEOREM RevocationIsFinal == Spec => RevokedStaysRevoked
  <1>1. Good => IInv' BY DEF Good
  <1>2. Good => \A i \in Ids : Issued(i) /\ creds[i].revoked
                  => Issued(i)' /\ creds'[i].revoked
    BY DEF Good, Grows, Issued
  <1> QED BY <1>1, <1>2, InitIInv, StepIInv, PTL DEF Spec, RevokedStaysRevoked

-----------------------------------------------------------------------------
(* Locks.                                                                  *)

\* A request, in state q, whose handler runs has its row locked; one that has
\* flushed nothing, or is over, has no lock.
Locked(r, q, lock) ==
  /\ \/ q.pc \in {"serving", "leaving"}
     \/ q.pc = "revoking" /\ q.caller # None
     => q.caller \in Ids /\ lock[q.caller] = r
  /\ q.pc \in {"idle", "touching", "exchanging"} => \A i \in Ids : lock[i] # r

LInv == IInv /\ \A r \in Requests : Locked(r, req[r], holder)

\* Request r takes rows that are free, or lets its own go.
TakesFree(r) ==
  \A i \in Ids : \/ holder'[i] = holder[i]
                 \/ {holder[i], holder'[i]} \subseteq {None, r}

LEMMA OthersLocked ==
  ASSUME LInv, NEW r \in Requests, TakesFree(r),
         NEW s \in Requests \ {r}, req'[s] = req[s]
  PROVE  Locked(s, req'[s], holder')
<1>1. Locked(s, req[s], holder) /\ s # None
  BY AuthAssumption DEF LInv
<1> QED
  BY <1>1 DEF Locked, TakesFree

LEMMA OneLocks ==
  ASSUME LInv, IInv', NEW r \in Requests, NEW q, req' = [req EXCEPT ![r] = q],
         TakesFree(r), Locked(r, q, holder')
  PROVE  LInv'
<1>1. req'[r] = q /\ \A s \in Requests \ {r} : req'[s] = req[s]
  BY DEF LInv, IInv, AuthTypeOK
<1> QED
  BY <1>1, OthersLocked DEF LInv

\* Whoever ends lets go.
LEMMA FinishLocks ==
  ASSUME LInv, IInv', NEW r \in Requests, Finish(r) PROVE LInv'
<1>1. /\ req' = [req EXCEPT ![r] = Idle]
      /\ \A i \in Ids : holder'[i] = IF holder[i] = r THEN None ELSE holder[i]
  BY DEF Finish, Release
<1>2. TakesFree(r)
  BY <1>1 DEF TakesFree
<1>3. Locked(r, Idle, holder')
  BY <1>1, AuthAssumption DEF Locked, Idle
<1> QED
  BY <1>1, <1>2, <1>3, OneLocks

\* A request that begins has no lock yet.
LEMMA BeginLocks ==
  ASSUME LInv, IInv', NEW r \in Requests,
         Present(r) \/ Logout(r) \/ PresentRefresh(r)
  PROVE  LInv'
<1>1. req[r].pc = "idle" /\ UNCHANGED holder
  BY DEF Present, Logout, PresentRefresh, At
<1>2. \A i \in Ids : holder'[i] # r
  BY <1>1 DEF LInv, Locked
<1>3. TakesFree(r)
  BY <1>1 DEF TakesFree
<1>4. ASSUME NEW pc, NEW i, NEW seen, NEW S,
             req' = [req EXCEPT ![r] = Asking(pc, i, seen, S)],
             \/ pc \in {"touching", "exchanging", "breaking"}
             \/ pc = "revoking" /\ i = None
      PROVE  LInv'
  <2>1. Locked(r, Asking(pc, i, seen, S), holder')
    BY <1>2, <1>4 DEF Locked, Asking
  <2> QED
    BY <1>3, <1>4, <2>1, OneLocks
<1>5. CASE Present(r)
  <2>1. PICK i \in Ids :
          req' = [req EXCEPT ![r] =
            Asking("touching", i, IF creds[i].kind = "session" THEN now ELSE 0, {})]
    BY <1>5 DEF Present
  <2> QED
    BY <1>4, <2>1
<1>6. CASE Logout(r)
  <2>1. PICK i \in Ids : req' = [req EXCEPT ![r] = Asking("revoking", None, 0, {i})]
    BY <1>6 DEF Logout
  <2> QED
    BY <1>4, <2>1
<1>7. CASE PresentRefresh(r)
  <2>1. PICK i \in Ids :
          \/ req' = [req EXCEPT ![r] = Asking("exchanging", i, 0, {})]
          \/ req' = [req EXCEPT ![r] =
               Asking("breaking", i, 0, LiveInChain(creds[i].chain))]
    BY <1>7 DEF PresentRefresh
  <2> QED
    BY <1>4, <2>1
<1> QED
  BY <1>5, <1>6, <1>7

\* The flush of the stamp takes the row that was presented.
LEMMA TouchLocks ==
  ASSUME LInv, IInv', NEW r \in Requests, Touch(r) PROVE LInv'
<1> DEFINE k == req[r].caller
           q == [req[r] EXCEPT !.pc = "serving"]
<1>1. /\ req[r] \in Request /\ k \in Ids
      /\ holder \in [Ids -> Requests \cup {None}]
  BY BusyRequest DEF Touch, At, LInv, IInv, CallersKnown, AuthTypeOK, LocksTypeOK
<1>2. q.pc = "serving" /\ q.caller = k
  BY <1>1 DEF Request
<1>3. /\ holder[k] \in {None, r}
      /\ \A i \in Ids : holder'[i] = IF i = k THEN r ELSE holder[i]
  BY <1>1 DEF Touch, Lock, Unlocked
<1>4. TakesFree(r)
  BY <1>3 DEF TakesFree
<1> HIDE DEF q, k
<1>5. Locked(r, q, holder')
  BY <1>1, <1>2, <1>3 DEF Locked
<1> QED
  BY <1>4, <1>5, OneLocks DEF Touch, q

\* A handler that selects what to revoke keeps its row.
LEMMA SelectLocks ==
  ASSUME LInv, IInv', NEW r \in Requests, SelectTarget(r) \/ SelectAll(r)
  PROVE  LInv'
<1>1. req[r] \in Request /\ req[r].pc = "serving" /\ UNCHANGED holder
  BY BusyRequest DEF SelectTarget, SelectAll, At, LInv
<1>2. PICK pc \in {"revoking", "leaving"}, S \in SUBSET Ids :
        req' = [req EXCEPT ![r].pc = pc, ![r].doomed = S]
  BY DEF SelectTarget, SelectAll, SignedIn
<1> DEFINE q == [req[r] EXCEPT !.pc = pc, !.doomed = S]
<1>3. req' = [req EXCEPT ![r] = q]
  BY <1>2 DEF LInv, IInv, AuthTypeOK
<1>4. q.pc = pc /\ q.caller = req[r].caller
  BY <1>1 DEF Request
<1> HIDE DEF q
<1>5. Locked(r, q, holder')
  BY <1>1, <1>4 DEF LInv, Locked
<1>6. TakesFree(r)
  BY <1>1 DEF TakesFree
<1> QED
  BY <1>3, <1>5, <1>6, OneLocks

\* An UPDATE waits for the row.
LEMMA LockNextLocks ==
  ASSUME LInv, IInv', NEW r \in Requests, LockNext(r) PROVE LInv'
<1> DEFINE k == First(ToLock(r))
<1>1. /\ req[r].pc \in {"revoking", "leaving", "breaking"}
      /\ UNCHANGED req
      /\ holder \in [Ids -> Requests \cup {None}]
      /\ holder[k] \in {None, r}
      /\ holder' = [holder EXCEPT ![k] = r]
  BY DEF LockNext, Lock, Unlocked, LInv, IInv, AuthTypeOK, LocksTypeOK
<1> HIDE DEF k
<1>2. \A i \in Ids : holder'[i] = IF i = k THEN r ELSE holder[i]
  BY <1>1
<1>3. TakesFree(r)
  BY <1>1, <1>2 DEF TakesFree
<1>4. Locked(r, req[r], holder')
  BY <1>1, <1>2 DEF LInv, Locked
<1>5. req' = [req EXCEPT ![r] = req[r]]
  BY <1>1 DEF LInv, IInv, AuthTypeOK
<1> QED
  BY <1>3, <1>4, <1>5, OneLocks

LEMMA InitLInv == Init => LInv
<1> SUFFICES ASSUME Init PROVE LInv
  OBVIOUS
<1>1. ASSUME NEW r \in Requests PROVE Locked(r, req[r], holder)
  BY AuthAssumption DEF Init, LocksInit, Locked, Idle
<1> QED
  BY <1>1, InitIInv DEF LInv

LEMMA StepLInv == LInv /\ [Next]_authVars => LInv'
<1> SUFFICES ASSUME LInv, [Next]_authVars PROVE LInv'
  OBVIOUS
<1>1. IInv'
  BY StepIInv DEF Good, LInv
<1>2. ASSUME NEW r \in Requests, Progress(r) PROVE LInv'
  BY <1>1, <1>2, FinishLocks, TouchLocks, SelectLocks, LockNextLocks
  DEF Progress, Leave, Keep, Mint, CommitRevocation, Exchange, RefuseReplay,
      GiveUp
<1>3. ASSUME NEW r \in Requests, BreakDeadlock(r) \/ Abort(r) PROVE LInv'
  BY <1>1, <1>3, FinishLocks DEF BreakDeadlock, Abort
<1>4. CASE UNCHANGED <<req, holder>>
  BY <1>1, <1>4 DEF LInv, Locked
<1>5. CASE \/ \E user \in Users : SignIn(user) \/ Grant(user)
           \/ ClockTick
           \/ UNCHANGED authVars
  BY <1>4, <1>5 DEF SignIn, Grant, ClockTick, authVars
<1> QED
  BY <1>1, <1>2, <1>3, <1>5, BeginLocks DEF Next

\* Two requests that present one credential do not have their handlers run at
\* one time: each waits for the row its stamp is flushed to.
THEOREM OneHandlerPerCredential == Spec => []OneAtATime
<1>1. LInv => OneAtATime
  BY DEF LInv, Locked, OneAtATime, Served, At
<1> QED
  BY <1>1, InitLInv, StepLInv, PTL DEF Spec

\* A request that waits to flush its stamp or to exchange a token holds nothing
\* anybody could wait for, nor does one that is over.
WaitersHoldNothing ==
  \A r \in Requests :
    req[r].pc \in {"idle", "touching", "exchanging"} => Held(r) = {}

\* Nobody waits for a request that is over, or for one that has flushed nothing:
\* only handlers that run, and revocations, are waited for.
THEOREM NobodyWaitsForWaiters == Spec => []WaitersHoldNothing
<1>1. LInv => WaitersHoldNothing
  BY DEF LInv, Locked, WaitersHoldNothing, Held
<1> QED
  BY <1>1, InitLInv, StepLInv, PTL DEF Spec

=============================================================================
