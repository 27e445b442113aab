-------------------------- MODULE CredentialProofs ---------------------------
(***************************************************************************)
(* Sessions and the contract of credentials, for any number of accounts,   *)
(* grants, sessions and requests.                                          *)
(*                                                                         *)
(* A session is accepted only within the idle window of its last answered  *)
(* request, and a sign-out everywhere leaves no session of before it       *)
(* alone: a stamp is never ahead of the answers, and what is not among the *)
(* selected rows was signed in later or is revoked already (SInv).         *)
(*                                                                         *)
(* And the rows keep the contract of credentials: a request that is served *)
(* commits only its stamp, one that revokes aims at rows of one account,   *)
(* as it did when it selected them (Aims), a grant begins a family nobody  *)
(* is of, because a family is named after a row of the table (NInv), and a *)
(* request exchanges the refresh token it found good, whatever became of   *)
(* the token while the request waited for its row.                         *)
(***************************************************************************)
EXTENDS AuthenticationProofs, AuthenticationRefinement

-----------------------------------------------------------------------------
(* Sessions.                                                               *)

Signed(table, i) == table[i] # Unissued /\ table[i].kind = "session"

\* A session's stamp is not ahead of its last answered request.
StampsOK(table, last) ==
  \A i \in Ids : Signed(table, i) =>
    table[i].expires \in Nat /\ table[i].seen <= last[i]

\* A request presented its row in the past.  A session of the account that is
\* signing out everywhere is among the selected rows, is revoked, or was
\* signed in no earlier than the request began.
Thorough(q, table, time) ==
  /\ q.pc # "idle" => q.seen <= time
  /\ q.pc = "leaving" =>
       /\ q.caller \in Ids /\ table[q.caller] # Unissued
       /\ \A i \in Ids :
            /\ Signed(table, i)
            /\ table[i].user = table[q.caller].user
            /\ table[i].expires - SessionTTL < q.seen
            => table[i].revoked \/ i \in q.doomed

SInv ==
  /\ IInv
  /\ StampsOK(creds, answered)
  /\ \A r \in Requests : Thorough(req[r], creds, now)

\* Sessions end when they were to end, and new ones begin now.
SessionsLast(old, new) ==
  \A i \in Ids : Signed(new, i) =>
    \/ Signed(old, i) /\ new[i].expires = old[i].expires
    \/ new[i].expires = now + SessionTTL

\* Nothing happens to sessions, except that some are revoked.
SessionsStay(old, new) ==
  \A i \in Ids : Signed(new, i) =>
    /\ Signed(old, i)
    /\ new[i].expires = old[i].expires /\ new[i].seen = old[i].seen

LEMMA IdleThorough == ASSUME NEW table, NEW time PROVE Thorough(Idle, table, time)
BY DEF Thorough, Idle

LEMMA StayReflexive == ASSUME NEW t PROVE SessionsStay(t, t)
BY DEF SessionsStay

LEMMA StayLast ==
  ASSUME NEW old, NEW mid, NEW new, SessionsLast(old, mid), SessionsStay(mid, new)
  PROVE  SessionsLast(old, new)
BY DEF SessionsStay, SessionsLast

LEMMA StayStamped ==
  ASSUME NEW old, NEW new, NEW last, StampsOK(old, last), SessionsStay(old, new)
  PROVE  StampsOK(new, last)
BY DEF SessionsStay, StampsOK

LEMMA StayAlsoLast ==
  ASSUME NEW old, NEW new, SessionsStay(old, new) PROVE SessionsLast(old, new)
BY DEF SessionsStay, SessionsLast

\* A request is as thorough after the steps of others as before.
LEMMA ThoroughStays ==
  ASSUME NEW q \in Request \cup {Idle}, now \in Nat, NEW time \in Nat, now <= time,
         NEW old, NEW new, Thorough(q, old, now), Grows(old, new),
         SessionsLast(old, new)
  PROVE  Thorough(q, new, time)
<1>1. CASE q = Idle
  BY <1>1, IdleThorough
<1>2. CASE q \in Request
  <2>1. q.seen \in Nat /\ q.pc # "idle" /\ q.seen <= now /\ SessionTTL \in Nat
    BY <1>2, RequestFields, AuthAssumption DEF Thorough
  <2>2. q.seen <= time
    BY <2>1
  <2>3. ASSUME q.pc = "leaving"
        PROVE  /\ q.caller \in Ids /\ new[q.caller] # Unissued
               /\ new[q.caller].user = old[q.caller].user
    BY <2>3 DEF Thorough, Grows
  <2>4. ASSUME q.pc = "leaving", NEW i \in Ids, Signed(new, i),
               new[i].user = new[q.caller].user,
               new[i].expires - SessionTTL < q.seen
        PROVE  new[i].revoked \/ i \in q.doomed
    <3>1. CASE new[i].expires = now + SessionTTL
      BY <2>1, <2>4, <3>1
    <3>2. CASE Signed(old, i) /\ new[i].expires = old[i].expires
      <4>1. old[i].user = old[q.caller].user
        BY <2>3, <2>4, <3>2 DEF Grows, Signed
      <4>2. old[i].revoked \/ i \in q.doomed
        BY <2>4, <3>2, <4>1 DEF Thorough
      <4> QED
        BY <3>2, <4>2 DEF Grows, Signed
    <3> QED
      BY <2>4, <3>1, <3>2 DEF SessionsLast
  <2> QED
    BY <2>2, <2>3, <2>4 DEF Thorough
<1> QED
  BY <1>1, <1>2

\* The invariant after a step of one request.
LEMMA OneActs ==
  ASSUME SInv, Good, NEW r \in Requests, NEW q, req' = [req EXCEPT ![r] = q],
         UNCHANGED now, SessionsLast(creds, creds'),
         StampsOK(creds', answered'), Thorough(q, creds', now)
  PROVE  SInv'
<1>1. ASSUME NEW s \in Requests PROVE Thorough(req'[s], creds', now')
  <2>1. now \in Nat /\ req[s] \in Request \cup {Idle}
    BY DEF SInv, IInv, AuthTypeOK
  <2>2. CASE s = r
    BY <2>2 DEF SInv, IInv, AuthTypeOK
  <2>3. CASE s # r
    <3>1. req'[s] = req[s] /\ now <= now
      BY <2>1, <2>3 DEF SInv, IInv, AuthTypeOK
    <3> QED
      BY <2>1, <3>1, ThoroughStays DEF SInv, Good
  <2> QED
    BY <2>2, <2>3
<1> QED
  BY <1>1 DEF SInv, Good

\* The steps of no request.
LEMMA NobodyActs ==
  ASSUME SInv, Good, UNCHANGED req, now' \in Nat, now <= now',
         SessionsLast(creds, creds'), StampsOK(creds', answered')
  PROVE  SInv'
<1>1. ASSUME NEW s \in Requests PROVE Thorough(req'[s], creds', now')
  <2>1. now \in Nat /\ req[s] \in Request \cup {Idle} /\ req'[s] = req[s]
    BY DEF SInv, IInv, AuthTypeOK
  <2> QED
    BY <2>1, ThoroughStays DEF SInv, Good
<1> QED
  BY <1>1 DEF SInv, Good

\* A step of one request that writes nothing.
LEMMA OneMoves ==
  ASSUME SInv, Good, NEW r \in Requests, NEW q, req' = [req EXCEPT ![r] = q],
         UNCHANGED <<creds, now, answered>>, Thorough(q, creds, now)
  PROVE  SInv'
<1>1. StampsOK(creds', answered') /\ SessionsLast(creds, creds')
  BY StayReflexive, StayAlsoLast DEF SInv
<1> QED
  BY <1>1, OneActs

\* A request that is answered.
LEMMA AnswerRaises ==
  ASSUME SInv, NEW r \in Requests, req[r] \in Request, Answer(r), NEW i \in Ids
  PROVE  /\ answered[i] \in Nat /\ answered'[i] \in Nat
         /\ answered[i] <= answered'[i]
         /\ i = req[r].caller /\ creds[i].kind = "session"
              => req[r].seen <= answered'[i]
<1>1. answered[i] \in Nat /\ req[r].seen \in Nat
  BY RequestFields DEF SInv, IInv, AuthTypeOK
<1>2. answered'[i] =
        IF i = req[r].caller /\ creds[i].kind = "session" /\ answered[i] < req[r].seen
        THEN req[r].seen ELSE answered[i]
  BY DEF Answer
<1> QED
  BY <1>1, <1>2

\* A row after the UPDATEs of a commit.
LEMMA UpdatedRow ==
  ASSUME AuthTypeOK, NEW r \in Requests, req[r] \in Request,
         NEW i \in Ids, Issued(i)
  PROVE  /\ Updated(r)[i].kind = creds[i].kind
         /\ Updated(r)[i].expires = creds[i].expires
         /\ Updated(r)[i].seen =
              IF i = req[r].caller /\ creds[i].kind = "session"
              THEN req[r].seen ELSE creds[i].seen
         /\ Updated(r)[i].revoked = (creds[i].revoked \/ i \in req[r].doomed)
<1> DEFINE stamp == IF i = req[r].caller /\ creds[i].kind = "session"
                    THEN req[r].seen ELSE creds[i].seen
           flag == creds[i].revoked \/ i \in req[r].doomed
           old == creds[i]
           row == Updated(r)[i]
<1>1. old \in Credential
  BY TypeTable DEF TableOK, RowOK, Issued
<1>2. row = [old EXCEPT !.seen = stamp, !.revoked = flag]
  BY <1>1 DEF Updated, Issued, Credential
<1> HIDE DEF stamp, flag, old, row
<1>3. /\ row.kind = old.kind /\ row.expires = old.expires
      /\ row.seen = stamp /\ row.revoked = flag
  BY <1>1, <1>2 DEF Credential
<1> QED
  BY <1>3 DEF stamp, flag, old, row

\* A commit stamps the session that was presented, which its answer records.
LEMMA UpdatedSessions ==
  ASSUME SInv, NEW r \in Requests, req[r] \in Request, Answer(r)
  PROVE  /\ SessionsLast(creds, Updated(r))
         /\ StampsOK(Updated(r), answered')
<1> SUFFICES ASSUME NEW i \in Ids, Signed(Updated(r), i)
             PROVE  /\ Signed(creds, i)
                    /\ Updated(r)[i].expires = creds[i].expires
                    /\ creds[i].expires \in Nat
                    /\ Updated(r)[i].seen <= answered'[i]
  BY DEF SessionsLast, StampsOK
<1>1. Issued(i)
  BY DEF Signed, Updated, Issued
<1>2. Signed(creds, i)
  BY <1>1, UpdatedRow DEF Signed, Issued, SInv, IInv
<1>3. creds[i].expires \in Nat /\ creds[i].seen <= answered[i]
  BY <1>2 DEF SInv, StampsOK
<1>4. creds[i].seen \in Nat /\ req[r].seen \in Nat
  BY <1>1, TypeTable, RequestFields
     DEF SInv, IInv, TableOK, RowOK, Credential, Issued
<1>5. Updated(r)[i].seen <= answered'[i]
  BY <1>1, <1>2, <1>3, <1>4, UpdatedRow, AnswerRaises DEF Signed, SInv, IInv
<1> QED
  BY <1>1, <1>2, <1>3, <1>5, UpdatedRow DEF SInv, IInv

\* A row that is no session changes nothing for sessions.
LEMMA InsertStays ==
  ASSUME NEW table, TableOK(table), NEW i \in Ids, table[i] = Unissued,
         NEW row, row.kind # "session"
  PROVE  SessionsStay(table, [table EXCEPT ![i] = row])
<1> DEFINE new == [table EXCEPT ![i] = row]
<1>1. \A k \in Ids : new[k] = IF k = i THEN row ELSE table[k]
  BY DEF TableOK
<1> HIDE DEF new
<1>2. SessionsStay(table, new)
  BY <1>1 DEF SessionsStay, Signed
<1> QED
  BY <1>2 DEF new

LEMMA PairStays ==
  ASSUME NEW table, TableOK(table), NEW i \in Ids, NEW j \in Ids,
         NEW user, NEW chain
  PROVE  SessionsStay(table, WithPair(table, i, j, user, chain))
<1> DEFINE a == NewToken("access", user, chain, now + AccessTTL)
           b == NewToken("refresh", user, chain, now + RefreshTTL)
           new == WithPair(table, i, j, user, chain)
<1>1. a.kind = "access" /\ b.kind = "refresh"
  BY DEF NewToken
<1>2. new = [table EXCEPT ![i] = a, ![j] = b]
  BY DEF WithPair
<1> HIDE DEF a, b, new
<1>3. \A k \in Ids : new[k] = IF k = j THEN b ELSE IF k = i THEN a ELSE table[k]
  BY <1>2 DEF TableOK
<1>4. SessionsStay(table, new)
  BY <1>1, <1>3 DEF SessionsStay, Signed
<1> QED
  BY <1>4 DEF new

LEMMA StayTransitive ==
  ASSUME NEW old, NEW mid, NEW new, SessionsStay(old, mid), SessionsStay(mid, new)
  PROVE  SessionsStay(old, new)
BY DEF SessionsStay

-----------------------------------------------------------------------------
(* The steps, for sessions.                                                *)

LEMMA PresentThorough ==
  ASSUME SInv, Good, NEW r \in Requests, Present(r) PROVE SInv'
<1> PICK i \in Ids :
      /\ req' = [req EXCEPT ![r] =
           Asking("touching", i, IF creds[i].kind = "session" THEN now ELSE 0, {})]
      /\ UNCHANGED <<creds, now, answered>>
  BY DEF Present
<1>1. now \in Nat
  BY DEF SInv, IInv, AuthTypeOK
<1>2. Thorough(Asking("touching", i,
                 IF creds[i].kind = "session" THEN now ELSE 0, {}), creds, now)
  BY <1>1 DEF Thorough, Asking
<1> QED
  BY <1>2, OneMoves

LEMMA LogoutThorough ==
  ASSUME SInv, Good, NEW r \in Requests, Logout(r) PROVE SInv'
<1> PICK i \in Ids :
      /\ req' = [req EXCEPT ![r] = Asking("revoking", None, 0, {i})]
      /\ UNCHANGED <<creds, now, answered>>
  BY DEF Logout
<1>1. now \in Nat
  BY DEF SInv, IInv, AuthTypeOK
<1>2. Thorough(Asking("revoking", None, 0, {i}), creds, now)
  BY <1>1 DEF Thorough, Asking
<1> QED
  BY <1>2, OneMoves

LEMMA PresentRefreshThorough ==
  ASSUME SInv, Good, NEW r \in Requests, PresentRefresh(r) PROVE SInv'
<1> PICK i \in Ids :
      /\ \/ req' = [req EXCEPT ![r] = Asking("exchanging", i, 0, {})]
         \/ req' = [req EXCEPT ![r] =
              Asking("breaking", i, 0, LiveInChain(creds[i].chain))]
      /\ UNCHANGED <<creds, now, answered>>
  BY DEF PresentRefresh
<1>1. now \in Nat
  BY DEF SInv, IInv, AuthTypeOK
<1>2. /\ Thorough(Asking("exchanging", i, 0, {}), creds, now)
      /\ Thorough(Asking("breaking", i, 0, LiveInChain(creds[i].chain)), creds, now)
  BY <1>1 DEF Thorough, Asking
<1> QED
  BY <1>2, OneMoves

\* The steps of a request that has been let in and goes on.
LEMMA ServeThorough ==
  ASSUME SInv, Good, NEW r \in Requests,
         Touch(r) \/ SelectTarget(r) \/ LockNext(r) PROVE SInv'
<1>1. CASE Touch(r)
  <2>1. req[r] \in Request /\ req[r].seen <= now
    BY <1>1, BusyRequest, RequestFields DEF Touch, At, SInv, Thorough
  <2>2. Thorough([req[r] EXCEPT !.pc = "serving"], creds, now)
    BY <2>1 DEF Thorough, Request
  <2> QED
    BY <1>1, <2>2, OneMoves DEF Touch
<1>2. CASE SelectTarget(r)
  <2> PICK i \in Ids :
        /\ At(r, "serving")
        /\ req' = [req EXCEPT ![r].pc = "revoking", ![r].doomed = {i}]
        /\ UNCHANGED <<creds, now, answered>>
    BY <1>2 DEF SelectTarget
  <2> DEFINE q == [req[r] EXCEPT !.pc = "revoking", !.doomed = {i}]
  <2>1. req[r] \in Request /\ req[r].seen <= now
    BY BusyRequest, RequestFields DEF At, SInv, Thorough
  <2>2. Thorough(q, creds, now)
    BY <2>1 DEF Thorough, Request
  <2>3. req' = [req EXCEPT ![r] = q]
    BY DEF SInv, IInv, AuthTypeOK
  <2> QED
    BY <2>2, <2>3, OneMoves
<1>3. CASE LockNext(r)
  <2>1. now \in Nat /\ now <= now
    BY DEF SInv, IInv, AuthTypeOK
  <2> QED
    BY <1>3, <2>1, NobodyActs, StayReflexive, StayAlsoLast DEF LockNext, SInv
<1> QED
  BY <1>1, <1>2, <1>3

\* The rows of revoke-all are every session of the account that is not
\* revoked.
LEMMA SelectAllThorough ==
  ASSUME SInv, Good, NEW r \in Requests, SelectAll(r) PROVE SInv'
<1> DEFINE all == SignedIn(creds[req[r].caller].user)
           q == [req[r] EXCEPT !.pc = "leaving", !.doomed = all]
<1>1. req[r] \in Request /\ req[r].seen <= now
  BY BusyRequest, RequestFields DEF SelectAll, At, SInv, Thorough
<1>2. req[r].caller \in Ids /\ creds[req[r].caller] # Unissued
  BY DEF SelectAll, At, SInv, IInv, CallersKnown, Issued
<1>3. q.pc = "leaving" /\ q.doomed = all /\ q.caller = req[r].caller /\ q.seen = req[r].seen
  BY <1>1 DEF Request
<1>4. \A i \in Ids : Signed(creds, i) /\ creds[i].user = creds[req[r].caller].user
        => creds[i].revoked \/ i \in all
  BY DEF SignedIn, Owned, Signed, Issued
<1>5. req' = [req EXCEPT ![r] = q]
  BY DEF SelectAll, SInv, IInv, AuthTypeOK
<1> HIDE DEF q, all
<1>6. Thorough(q, creds, now)
  BY <1>1, <1>2, <1>3, <1>4 DEF Thorough
<1> QED
  BY <1>5, <1>6, OneMoves DEF SelectAll

\* The steps that end a request and keep nothing of it.
LEMMA DropThorough ==
  ASSUME SInv, Good, NEW r \in Requests, Finish(r), UNCHANGED <<creds, now, answered>>
  PROVE  SInv'
BY OneMoves, IdleThorough DEF Finish

LEMMA LeaveThorough ==
  ASSUME SInv, Good, NEW r \in Requests, Leave(r) PROVE SInv'
<1>1. req[r] \in Request
  BY BusyRequest DEF Leave, At, SInv
<1>2. StampsOK(creds', answered')
  <2>1. ASSUME NEW i \in Ids, Signed(creds, i)
        PROVE  creds[i].expires \in Nat /\ creds[i].seen <= answered'[i]
    <3>1. creds[i].seen \in Nat
      BY <2>1, TypeTable DEF Signed, SInv, IInv, TableOK, RowOK, Credential
    <3>2. creds[i].expires \in Nat /\ creds[i].seen <= answered[i]
      BY <2>1 DEF SInv, StampsOK
    <3>3. /\ answered[i] \in Nat /\ answered'[i] \in Nat
          /\ answered[i] <= answered'[i]
      BY <1>1, AnswerRaises DEF Leave
    <3> QED
      BY <3>1, <3>2, <3>3
  <2> QED
    BY <2>1 DEF Leave, StampsOK
<1>3. SessionsLast(creds, creds')
  BY StayReflexive, StayAlsoLast DEF Leave
<1> QED
  BY <1>2, <1>3, OneActs, IdleThorough DEF Leave, Finish

\* The steps that commit the UPDATEs of a request.
LEMMA CommitThorough ==
  ASSUME SInv, Good, NEW r \in Requests, Keep(r) \/ CommitRevocation(r)
  PROVE  SInv'
<1>1. req[r] \in Request
  BY BusyRequest DEF Keep, CommitRevocation, At, SInv
<1>2. /\ creds' = Updated(r) /\ Answer(r) /\ UNCHANGED now
      /\ req' = [req EXCEPT ![r] = Idle]
  BY DEF Keep, CommitRevocation, Finish
<1> QED
  BY <1>1, <1>2, UpdatedSessions, OneActs, IdleThorough

LEMMA MintThorough ==
  ASSUME SInv, Good, NEW r \in Requests, Mint(r) PROVE SInv'
<1> PICK i \in Ids :
      /\ At(r, "serving")
      /\ ~ Issued(i)
      /\ creds' = [Updated(r) EXCEPT ![i] =
           NewToken("pat", creds[req[r].caller].user, None, None)]
      /\ req' = [req EXCEPT ![r] = Idle]
      /\ Answer(r)
      /\ UNCHANGED now
  BY DEF Mint, Finish
<1>1. req[r] \in Request
  BY BusyRequest DEF At, SInv
<1>2. TableOK(Updated(r))
  BY <1>1, UpdatedOK DEF SInv, IInv
<1>3. Updated(r)[i] = Unissued
  BY DEF Updated, Issued
<1>4. SessionsStay(Updated(r), creds')
  BY <1>2, <1>3, InsertStays DEF NewToken
<1>5. SessionsLast(creds, creds') /\ StampsOK(creds', answered')
  BY <1>1, <1>4, UpdatedSessions, StayLast, StayStamped
<1> QED
  BY <1>5, OneActs, IdleThorough

LEMMA ExchangeThorough ==
  ASSUME SInv, Good, NEW r \in Requests, Exchange(r) PROVE SInv'
<1> DEFINE t == req[r].caller
           mid == Exchanged(t)
<1> PICK i \in Ids, j \in Ids :
      /\ At(r, "exchanging")
      /\ creds' = WithPair(mid, i, j, creds[t].user, creds[t].chain)
      /\ req' = [req EXCEPT ![r] = Idle]
      /\ UNCHANGED <<now, answered>>
  BY DEF Exchange, Finish
<1>1. t \in Ids /\ Issued(t)
  BY DEF SInv, IInv, CallersKnown, At
<1>2. TableOK(mid)
  BY <1>1, ExchangedOK DEF SInv, IInv
<1>3. SessionsStay(creds, mid)
  <2>1. creds[t] \in Credential
    BY <1>1, TypeTable DEF SInv, IInv, TableOK, RowOK, Issued
  <2>2. \A k \in Ids : mid[k] = IF k = t THEN [creds[t] EXCEPT !.revoked = TRUE]
                                ELSE creds[k]
    BY <1>1, TypeTable DEF SInv, IInv, TableOK, Exchanged
  <2> DEFINE old == creds[t]
             row == [old EXCEPT !.revoked = TRUE]
  <2>3. row.kind = old.kind /\ row.expires = old.expires /\ row.seen = old.seen
    BY <2>1 DEF Credential
  <2> QED
    BY <1>1, <2>2, <2>3 DEF SessionsStay, Signed, Issued
<1> HIDE DEF mid
<1>4. SessionsStay(creds, creds')
  BY <1>2, <1>3, PairStays, StayTransitive
<1> QED
  BY <1>4, StayAlsoLast, StayStamped, OneActs, IdleThorough DEF SInv

\* A sign-in is answered at once.
LEMMA SignInThorough ==
  ASSUME SInv, Good, NEW user \in Users, SignIn(user) PROVE SInv'
<1> DEFINE row == NewSession(user)
<1> PICK i \in Ids :
      /\ creds' = [creds EXCEPT ![i] = row]
      /\ answered' = [answered EXCEPT ![i] = now]
      /\ UNCHANGED <<req, now>>
  BY DEF SignIn
<1>1. now \in Nat /\ now <= now /\ now + SessionTTL \in Nat
  BY AuthAssumption DEF SInv, IInv, AuthTypeOK
<1>2. row.expires = now + SessionTTL /\ row.seen = now
  BY DEF NewSession
<1> HIDE DEF row
<1>3. \A k \in Ids : /\ creds'[k] = IF k = i THEN row ELSE creds[k]
                     /\ answered'[k] = IF k = i THEN now ELSE answered[k]
  BY DEF SInv, IInv, AuthTypeOK
<1>4. SessionsLast(creds, creds')
  BY <1>2, <1>3 DEF SessionsLast, Signed
<1>5. StampsOK(creds', answered')
  BY <1>1, <1>2, <1>3 DEF StampsOK, Signed, SInv
<1> QED
  BY <1>1, <1>4, <1>5, NobodyActs

LEMMA GrantThorough ==
  ASSUME SInv, Good, NEW user \in Users, Grant(user) PROVE SInv'
<1>1. now \in Nat /\ now <= now /\ TableOK(creds)
  BY TypeTable DEF SInv, IInv, AuthTypeOK
<1>2. SessionsStay(creds, creds')
  BY <1>1, PairStays DEF Grant
<1> QED
  BY <1>1, <1>2, NobodyActs, StayAlsoLast, StayStamped DEF Grant, SInv

LEMMA InitSInv == Init => SInv
<1>1. ASSUME Init PROVE StampsOK(creds, answered)
  BY <1>1 DEF Init, StampsOK, Signed
<1>2. ASSUME Init PROVE \A r \in Requests : Thorough(req[r], creds, now)
  BY <1>2, IdleThorough DEF Init
<1> QED
  BY <1>1, <1>2, InitIInv DEF SInv

LEMMA StepSInv == SInv /\ [Next]_authVars => SInv' /\ Good
<1> SUFFICES ASSUME SInv, [Next]_authVars PROVE SInv' /\ Good
  OBVIOUS
<1>1. Good
  BY StepIInv DEF SInv
<1>2. CASE \E user \in Users : SignIn(user) \/ Grant(user)
  BY <1>1, <1>2, SignInThorough, GrantThorough
<1>3. ASSUME NEW r \in Requests,
             Present(r) \/ Logout(r) \/ PresentRefresh(r) PROVE SInv'
  BY <1>1, <1>3, PresentThorough, LogoutThorough, PresentRefreshThorough
<1>4. ASSUME NEW r \in Requests, Progress(r) PROVE SInv'
  <2>1. CASE RefuseReplay(r) \/ GiveUp(r)
    BY <1>1, <2>1, DropThorough DEF RefuseReplay, GiveUp
  <2> QED
    BY <1>1, <1>4, <2>1, ServeThorough, LeaveThorough, CommitThorough,
       MintThorough, SelectAllThorough, ExchangeThorough
       DEF Progress
<1>5. ASSUME NEW r \in Requests, BreakDeadlock(r) \/ Abort(r) PROVE SInv'
  BY <1>1, <1>5, DropThorough DEF BreakDeadlock, Abort
<1>6. CASE ClockTick \/ UNCHANGED authVars
  <2>1. UNCHANGED <<creds, req, answered>> /\ now' \in Nat /\ now <= now'
    BY <1>6 DEF ClockTick, authVars, SInv, IInv, AuthTypeOK
  <2> QED
    BY <1>1, <2>1, NobodyActs, StayReflexive, StayAlsoLast DEF SInv
<1> QED
  BY <1>1, <1>2, <1>3, <1>4, <1>5, <1>6 DEF Next

-----------------------------------------------------------------------------

\* Only the SELECT of a request's session lets it in.
LEMMA LetInBySession ==
  ASSUME SInv, [Next]_authVars, NEW r \in Requests,
         At(r, "idle"), At(r, "touching")', creds[req'[r].caller].kind = "session"
  PROVE  now < answered[req'[r].caller] + IdleTTL
<1>1. PICK i \in Ids :
        /\ Usable(i)
        /\ req'[r].caller = i
  <2>1. CASE Present(r)
    BY <2>1 DEF Present, SInv, IInv, AuthTypeOK, Asking
  <2>2. ASSUME req'[r] = req[r] PROVE FALSE
    BY <2>2 DEF At
  <2>3. ASSUME NEW s \in Requests, s # r, NEW q, req' = [req EXCEPT ![s] = q]
        PROVE  FALSE
    BY <2>2, <2>3 DEF SInv, IInv, AuthTypeOK
  <2>4. CASE Logout(r) \/ PresentRefresh(r)
    BY <2>4 DEF Logout, PresentRefresh, SInv, IInv, AuthTypeOK, Asking, At
  <2>5. ASSUME NEW s \in Requests, s # r,
               Present(s) \/ Logout(s) \/ PresentRefresh(s) PROVE FALSE
    BY <2>3, <2>5 DEF Present, Logout, PresentRefresh
  <2>6. ASSUME Progress(r) \/ BreakDeadlock(r) \/ Abort(r) PROVE FALSE
    BY <2>6 DEF Progress, Touch, Leave, Keep, Mint, SelectTarget, SelectAll,
                LockNext, CommitRevocation, Exchange, RefuseReplay, GiveUp,
                BreakDeadlock, Abort, Finish, Idle, At, SInv, IInv, AuthTypeOK
  <2>7. ASSUME NEW s \in Requests, s # r, Progress(s) \/ BreakDeadlock(s) \/ Abort(s)
        PROVE  FALSE
    BY <2>2, <2>7 DEF Progress, Touch, Leave, Keep, Mint, SelectTarget, SelectAll,
                LockNext, CommitRevocation, Exchange, RefuseReplay, GiveUp,
                BreakDeadlock, Abort, Finish, Idle, SInv, IInv, AuthTypeOK
  <2>8. ASSUME UNCHANGED req PROVE FALSE
    BY <2>2, <2>8
  <2> QED
    BY <2>1, <2>4, <2>5, <2>6, <2>7, <2>8
       DEF Next, SignIn, Grant, ClockTick, authVars
<1>2. creds[i].seen \in Nat /\ answered[i] \in Nat /\ now \in Nat /\ IdleTTL \in Nat
  BY <1>1, TypeTable, AuthAssumption
     DEF Usable, CheckLive, Issued, SInv, IInv, AuthTypeOK, TableOK, RowOK, Credential
<1>3. now < creds[i].seen + IdleTTL /\ creds[i].seen <= answered[i]
  BY <1>1 DEF Usable, CheckLive, Issued, Signed, SInv, StampsOK
<1> QED
  BY <1>1, <1>2, <1>3

\* A session is accepted only within the idle window of its last answered
\* request, in whatever order requests that presented it stamp it, and whether
\* or not their stamps are kept.
THEOREM IdleBrowsersStayOut == Spec => AbandonedStaysOut
<1>1. SInv /\ [Next]_authVars =>
        \A r \in Requests : LET i == req'[r].caller IN
          (At(r, "idle") /\ At(r, "touching")' /\ creds[i].kind = "session")
          => now < answered[i] + IdleTTL
  BY LetInBySession
<1>2. SInv /\ [Next]_authVars => SInv'
  BY StepSInv
<1> QED
  BY <1>1, <1>2, InitSInv, PTL DEF Spec, AbandonedStaysOut

\* A row is revoked in the step that ends a revocation only when the
\* revocation commits.
LEMMA EndsByCommit ==
  ASSUME SInv, [Next]_authVars, NEW r \in Requests,
         At(r, "leaving"), At(r, "idle")', creds' # creds
  PROVE  creds' = Updated(r)
<1>1. ASSUME req'[r] = req[r] PROVE FALSE
  BY <1>1 DEF At
<1>2. CASE CommitRevocation(r)
  BY <1>2 DEF CommitRevocation
<1>3. ASSUME NEW s \in Requests, s # r, Progress(s) PROVE FALSE
  BY <1>1, <1>3 DEF Progress, Touch, Leave, Keep, Mint, SelectTarget, SelectAll,
              LockNext, CommitRevocation, Exchange, RefuseReplay, GiveUp,
              Finish, SInv, IInv, AuthTypeOK
<1>4. ASSUME NEW s \in Requests,
             \/ Present(s) \/ Logout(s) \/ PresentRefresh(s)
             \/ BreakDeadlock(s) \/ Abort(s)
      PROVE FALSE
  BY <1>4 DEF Present, Logout, PresentRefresh, BreakDeadlock, Abort
<1>5. ASSUME Progress(r), ~ CommitRevocation(r) PROVE FALSE
  BY <1>5 DEF Progress, Touch, Leave, Keep, Mint, SelectTarget, SelectAll,
              LockNext, Exchange, RefuseReplay, GiveUp, At
<1>6. ASSUME UNCHANGED req PROVE FALSE
  BY <1>1, <1>6
<1> QED
  BY <1>2, <1>3, <1>4, <1>5, <1>6 DEF Next, SignIn, Grant, ClockTick, authVars

\* A sign-out everywhere that revokes anything leaves no session of the account
\* usable that was signed in before it began.
THEOREM SignOutIsEverywhere == Spec => EverywhereMeansAll
<1>1. ASSUME SInv, [Next]_authVars, NEW r \in Requests,
             At(r, "leaving"), At(r, "idle")',
             NEW k \in req[r].doomed, ~ creds[k].revoked, creds'[k].revoked,
             NEW i \in Ids, Owned(i, "session", creds[req[r].caller].user),
             creds[i].expires - SessionTTL < req[r].seen
      PROVE  creds'[i].revoked
  <2>1. creds' = Updated(r)
    BY <1>1, EndsByCommit
  <2>2. creds[i].revoked \/ i \in req[r].doomed
    BY <1>1 DEF Owned, Issued, Signed, Thorough, SInv, At
  <2>3. req[r] \in Request
    BY <1>1, BusyRequest DEF SInv, At
  <2> QED
    BY <1>1, <2>1, <2>2, <2>3, UpdatedRow DEF Owned, SInv, IInv
<1>2. SInv /\ [Next]_authVars => SInv'
  BY StepSInv
<1>3. SInv /\ [Next]_authVars =>
        \A r \in Requests :
          (/\ At(r, "leaving") /\ At(r, "idle")'
           /\ \E i \in req[r].doomed : ~ creds[i].revoked /\ creds'[i].revoked)
          => \A i \in Ids :
               (/\ Owned(i, "session", creds[req[r].caller].user)
                /\ creds[i].expires - SessionTTL < req[r].seen)
               => creds'[i].revoked
  BY <1>1
<1> QED
  BY <1>2, <1>3, InitSInv, PTL DEF Spec, EverywhereMeansAll

-----------------------------------------------------------------------------
(* Chains.                                                                 *)

\* A chain is named after a row of the table.
ChainsNamed(table) ==
  \A k \in Ids : table[k] # Unissued /\ table[k].chain # None
    => table[table[k].chain] # Unissued

NInv == IInv /\ ChainsNamed(creds)

LEMMA RevokingNames ==
  ASSUME NEW old, NEW new, TableOK(old), ChainsNamed(old), Grows(old, new),
         \A i \in Ids : old[i] = Unissued => new[i] = Unissued
  PROVE  ChainsNamed(new)
<1> SUFFICES ASSUME NEW k \in Ids, new[k] # Unissued, new[k].chain # None
             PROVE  new[new[k].chain] # Unissued
  BY DEF ChainsNamed
<1>1. /\ old[k] # Unissued /\ new[k].chain = old[k].chain
      /\ old[k] \in Credential
  BY DEF Grows, TableOK, RowOK
<1>2. old[k].chain \in Ids /\ old[old[k].chain] # Unissued
  BY <1>1 DEF ChainsNamed, Credential
<1> QED
  BY <1>1, <1>2 DEF Grows

\* A session or a personal access token has no chain.
LEMMA InsertNames ==
  ASSUME NEW table, TableOK(table), ChainsNamed(table), NEW i \in Ids,
         table[i] = Unissued, NEW row, RowOK(row),
         row.kind \in {"session", "pat"}
  PROVE  ChainsNamed([table EXCEPT ![i] = row])
<1> DEFINE new == [table EXCEPT ![i] = row]
<1> SUFFICES ASSUME NEW k \in Ids, new[k] # Unissued, new[k].chain # None
             PROVE  new[new[k].chain] # Unissued
  BY DEF ChainsNamed
<1>1. \A n \in Ids : new[n] = IF n = i THEN row ELSE table[n]
  BY DEF TableOK
<1>2. row.chain = None /\ row # Unissued
  BY IssuedNotUnissued DEF RowOK
<1>3. table[k] # Unissued /\ new[k] = table[k] /\ table[k] \in Credential
  BY <1>1, <1>2 DEF TableOK, RowOK
<1>4. table[k].chain \in Ids /\ table[table[k].chain] # Unissued
  BY <1>3 DEF ChainsNamed, Credential
<1> HIDE DEF new
<1> QED
  BY <1>1, <1>2, <1>3, <1>4

\* A pair is in a chain of the table, or names one after its access token.
LEMMA PairNames ==
  ASSUME NEW table, TableOK(table), ChainsNamed(table),
         NEW i \in Ids, NEW j \in Ids, i # j,
         table[i] = Unissued, table[j] = Unissued,
         NEW user, NEW chain \in Ids, table[chain] # Unissued \/ chain = i
  PROVE  ChainsNamed(WithPair(table, i, j, user, chain))
<1> DEFINE a == NewToken("access", user, chain, now + AccessTTL)
           b == NewToken("refresh", user, chain, now + RefreshTTL)
           new == WithPair(table, i, j, user, chain)
<1>1. /\ a.chain = chain /\ a # Unissued
      /\ b.chain = chain /\ b # Unissued
  <2>1. a.kind # Unissued.kind /\ b.kind # Unissued.kind
    BY DEF NewToken, Unissued
  <2> QED
    BY <2>1 DEF NewToken
<1>2. new = [table EXCEPT ![i] = a, ![j] = b]
  BY DEF WithPair
<1> HIDE DEF a, b, new
<1>3. \A k \in Ids : new[k] = IF k = j THEN b ELSE IF k = i THEN a ELSE table[k]
  BY <1>2 DEF TableOK
<1>4. ASSUME NEW k \in Ids, new[k] # Unissued, new[k].chain # None
      PROVE  new[new[k].chain] # Unissued
  <2>1. CASE k \in {i, j}
    BY <1>1, <1>3, <2>1
  <2>2. CASE k \notin {i, j}
    <3>1. table[k] # Unissued /\ new[k] = table[k] /\ table[k] \in Credential
      BY <1>3, <1>4, <2>2 DEF TableOK, RowOK
    <3>2. table[k].chain \in Ids /\ table[table[k].chain] # Unissued
      BY <1>4, <3>1 DEF ChainsNamed, Credential
    <3> QED
      BY <1>1, <1>3, <3>1, <3>2
  <2> QED
    BY <2>1, <2>2
<1> QED
  BY <1>4 DEF ChainsNamed, new

LEMMA UpdatedNames ==
  ASSUME NInv, NEW r \in Requests, req[r] \in Request
  PROVE  ChainsNamed(Updated(r)) /\ TableOK(Updated(r))
<1>1. TableOK(Updated(r)) /\ Grows(creds, Updated(r)) /\ TableOK(creds)
  BY UpdatedOK, TypeTable DEF NInv, IInv
<1>2. \A i \in Ids : creds[i] = Unissued => Updated(r)[i] = Unissued
  BY DEF Updated, Issued
<1> QED
  BY <1>1, <1>2, RevokingNames DEF NInv

LEMMA MintNames ==
  ASSUME NInv, NEW r \in Requests, Mint(r) PROVE ChainsNamed(creds')
<1> DEFINE user == creds[req[r].caller].user
           row == NewToken("pat", user, None, None)
<1>1. PICK i \in Ids : /\ At(r, "serving") /\ ~ Issued(i)
                       /\ creds' = [Updated(r) EXCEPT ![i] = row]
  BY DEF Mint
<1>2. ChainsNamed(Updated(r)) /\ TableOK(Updated(r))
  BY <1>1, BusyRequest, UpdatedNames DEF NInv, At
<1>3. Updated(r)[i] = Unissued
  BY <1>1 DEF Updated, Issued
<1>4. user \in Users
  BY <1>1, TypeTable
  DEF NInv, IInv, CallersKnown, At, Issued, TableOK, RowOK, Credential
<1>5. RowOK(row) /\ row.kind = "pat"
  <2> HIDE DEF user
  <2> QED
    BY <1>4 DEF RowOK, NewToken, Credential, Kinds
<1> HIDE DEF row
<1> QED
  BY <1>1, <1>2, <1>3, <1>5, InsertNames

LEMMA ExchangeNames ==
  ASSUME NInv, NEW r \in Requests, Exchange(r) PROVE ChainsNamed(creds')
<1> DEFINE t == req[r].caller
           chain == creds[t].chain
           mid == Exchanged(t)
<1>1. PICK i \in Ids, j \in Ids :
        /\ At(r, "exchanging")
        /\ i # j /\ ~ Issued(i) /\ ~ Issued(j)
        /\ creds' = WithPair(mid, i, j, creds[t].user, chain)
  BY DEF Exchange
<1>2. t \in Ids /\ Issued(t) /\ creds[t].kind = "refresh"
  BY <1>1 DEF NInv, IInv, CallersKnown, At
<1>3. chain \in Ids /\ creds[chain] # Unissued /\ TableOK(creds)
  BY <1>2, AuthAssumption, TypeTable
  DEF NInv, ChainsNamed, IInv, TableOK, RowOK, Credential, Issued
<1>4. /\ TableOK(mid) /\ Grows(creds, mid)
      /\ \A k \in Ids : ~ Issued(k) => mid[k] = Unissued
  BY <1>2, ExchangedOK DEF NInv, IInv
<1>5. ChainsNamed(mid)
  BY <1>3, <1>4, RevokingNames DEF NInv, Issued
<1> HIDE DEF mid, chain
<1>6. mid[chain] # Unissued
  BY <1>3, <1>4 DEF Grows
<1> QED
  BY <1>1, <1>3, <1>4, <1>5, <1>6, PairNames

LEMMA StepNInv == NInv /\ [Next]_authVars => NInv'
<1> SUFFICES ASSUME NInv, [Next]_authVars PROVE ChainsNamed(creds')
  BY StepIInv DEF NInv, Good
<1>1. TableOK(creds) /\ now \in Nat
  BY TypeTable DEF NInv, IInv, AuthTypeOK
<1>2. CASE UNCHANGED creds
  BY <1>2 DEF NInv
<1>3. ASSUME NEW user \in Users, SignIn(user) PROVE ChainsNamed(creds')
  <2>1. PICK i \in Ids : /\ ~ Issued(i)
                         /\ creds' = [creds EXCEPT ![i] = NewSession(user)]
    BY <1>3 DEF SignIn
  <2>2. RowOK(NewSession(user)) /\ NewSession(user).kind = "session"
    BY <1>1, NewSessionOK DEF NewSession
  <2> QED
    BY <1>1, <2>1, <2>2, InsertNames DEF NInv, Issued
<1>4. ASSUME NEW user \in Users, Grant(user) PROVE ChainsNamed(creds')
  BY <1>1, <1>4, PairNames DEF Grant, NInv, Issued
<1>5. ASSUME NEW r \in Requests, Progress(r) PROVE ChainsNamed(creds')
  <2>1. CASE Keep(r) \/ CommitRevocation(r)
    <3>1. req[r] \in Request /\ creds' = Updated(r)
      BY <2>1, BusyRequest DEF Keep, CommitRevocation, At, NInv
    <3> QED
      BY <3>1, UpdatedNames
  <2> QED
    BY <1>2, <1>5, <2>1, MintNames, ExchangeNames
    DEF Progress, Touch, Leave, SelectTarget, SelectAll, LockNext,
        RefuseReplay, GiveUp
<1>6. ASSUME NEW r \in Requests,
             \/ Present(r) \/ Logout(r) \/ PresentRefresh(r)
             \/ BreakDeadlock(r) \/ Abort(r)
      PROVE  ChainsNamed(creds')
  BY <1>2, <1>6 DEF Present, Logout, PresentRefresh, BreakDeadlock, Abort
<1>7. CASE ClockTick \/ UNCHANGED authVars
  BY <1>2, <1>7 DEF ClockTick, authVars
<1> QED
  BY <1>3, <1>4, <1>5, <1>6, <1>7 DEF Next

LEMMA InitNInv == Init => NInv
BY InitIInv DEF Init, NInv, ChainsNamed

-----------------------------------------------------------------------------
(* The refinement of CredentialContract.                                   *)

\* One account's sessions, or one personal access token.
OneAim(S, table) ==
  /\ \A i \in S : i \in Ids /\ table[i] # Unissued
  /\ \A i, j \in S : table[i].user = table[j].user
  /\ \/ \A i \in S : table[i].kind = "session"
     \/ \E i \in Ids : S = {i} /\ table[i].kind = "pat"

\* What a request may still do to the table was settled by its SELECTs.
Aimed(q, table) ==
  /\ q.pc \in {"touching", "serving"} =>
       q.doomed = {} /\ table[q.caller].kind # "refresh"
  /\ q.pc \in {"revoking", "leaving"} => OneAim(q.doomed, table)

Aims == \A r \in Requests : Aimed(req[r], creds)

LEMMA AimedGrows ==
  ASSUME NEW q, NEW old, NEW new, Aimed(q, old), Known(q, old), Grows(old, new)
  PROVE  Aimed(q, new)
<1>1. q.pc \in {"touching", "serving"} =>
        q.doomed = {} /\ new[q.caller].kind # "refresh"
  BY DEF Aimed, Known, Grows
<1>2. ASSUME q.pc \in {"revoking", "leaving"} PROVE OneAim(q.doomed, new)
  <2>1. OneAim(q.doomed, old)
    BY <1>2 DEF Aimed
  <2>2. \A i \in q.doomed : /\ i \in Ids /\ new[i] # Unissued
                            /\ new[i].kind = old[i].kind
                            /\ new[i].user = old[i].user
    BY <2>1 DEF OneAim, Grows
  <2> QED
    BY <2>1, <2>2 DEF OneAim
<1> QED
  BY <1>1, <1>2 DEF Aimed

LEMMA OneAims ==
  ASSUME IInv, Aims, Grows(creds, creds'), NEW r \in Requests, NEW q,
         req' = [req EXCEPT ![r] = q], Aimed(q, creds')
  PROVE  Aims'
<1>1. ASSUME NEW s \in Requests PROVE Aimed(req'[s], creds')
  <2>1. CASE s = r
    BY <2>1 DEF IInv, AuthTypeOK
  <2>2. CASE s # r
    <3>1. req'[s] = req[s] /\ Aimed(req[s], creds) /\ Known(req[s], creds)
      BY <2>2 DEF IInv, AuthTypeOK, CallersKnown, Known, Issued, Aims
    <3> QED
      BY <3>1, AimedGrows
  <2> QED
    BY <2>1, <2>2
<1> QED
  BY <1>1 DEF Aims

LEMMA NobodyAims ==
  ASSUME IInv, Aims, Grows(creds, creds'), UNCHANGED req
  PROVE  Aims'
<1>1. ASSUME NEW s \in Requests PROVE Aimed(req[s], creds')
  <2>1. Aimed(req[s], creds) /\ Known(req[s], creds)
    BY DEF IInv, CallersKnown, Known, Issued, Aims
  <2> QED
    BY <2>1, AimedGrows
<1> QED
  BY <1>1 DEF Aims

LEMMA IdleAimed == ASSUME NEW table PROVE Aimed(Idle, table)
BY DEF Aimed, Idle

\* The SELECTs.
LEMMA SelectsAim ==
  ASSUME IInv, Aims, Good, NEW r \in Requests,
         \/ Present(r) \/ Touch(r) \/ SelectTarget(r) \/ SelectAll(r)
         \/ Logout(r) \/ PresentRefresh(r)
  PROVE  Aims'
<1> DEFINE q == req[r]
<1>1. creds' = creds /\ Grows(creds, creds')
  BY DEF Good, Present, Touch, SelectTarget, SelectAll, Logout, PresentRefresh
<1>2. ASSUME NEW n, req' = [req EXCEPT ![r] = n], Aimed(n, creds) PROVE Aims'
  BY <1>1, <1>2, OneAims
<1>3. CASE Present(r)
  <2>1. PICK i \in Ids, seen \in Nat :
          /\ creds[i].kind # "refresh"
          /\ req' = [req EXCEPT ![r] = Asking("touching", i, seen, {})]
    BY <1>3 DEF Present, IInv, AuthTypeOK
  <2>2. Aimed(Asking("touching", i, seen, {}), creds)
    BY <2>1 DEF Aimed, Asking
  <2> QED
    BY <1>2, <2>1, <2>2
<1>4. CASE Touch(r)
  <2> DEFINE n == [q EXCEPT !.pc = "serving"]
  <2>1. /\ q \in Request /\ q.pc = "touching" /\ Aimed(q, creds)
        /\ req' = [req EXCEPT ![r] = n]
    BY <1>4, BusyRequest DEF Touch, At, Aims
  <2>2. Aimed(n, creds)
    BY <2>1 DEF Aimed, Request
  <2> QED
    BY <1>2, <2>1, <2>2
<1>5. CASE SelectTarget(r)
  <2> PICK i \in Ids :
        /\ Owned(i, "pat", creds[q.caller].user)
        /\ req' = [req EXCEPT ![r].pc = "revoking", ![r].doomed = {i}]
    BY <1>5 DEF SelectTarget
  <2> DEFINE n == [q EXCEPT !.pc = "revoking", !.doomed = {i}]
  <2>1. q \in Request
    BY <1>5, BusyRequest DEF SelectTarget, At
  <2>2. n.pc = "revoking" /\ n.doomed = {i}
    BY <2>1 DEF Request
  <2>3. OneAim({i}, creds)
    BY DEF OneAim, Owned, Issued
  <2>4. Aimed(n, creds)
    BY <2>2, <2>3 DEF Aimed
  <2> QED
    BY <1>2, <2>4
<1>6. CASE SelectAll(r)
  <2> DEFINE S == SignedIn(creds[q.caller].user)
             n == [q EXCEPT !.pc = "leaving", !.doomed = S]
  <2>1. q \in Request /\ req' = [req EXCEPT ![r] = n]
    BY <1>6, BusyRequest DEF SelectAll, At
  <2>2. OneAim(S, creds)
    BY DEF OneAim, SignedIn, Owned, Issued
  <2> HIDE DEF S
  <2>3. n.pc = "leaving" /\ n.doomed = S
    BY <2>1 DEF Request
  <2>4. Aimed(n, creds)
    BY <2>2, <2>3 DEF Aimed
  <2> QED
    BY <1>2, <2>1, <2>4
<1>7. CASE Logout(r)
  <2>1. PICK i \in Ids :
          /\ Issued(i) /\ creds[i].kind = "session"
          /\ req' = [req EXCEPT ![r] = Asking("revoking", None, 0, {i})]
    BY <1>7 DEF Logout
  <2>2. OneAim({i}, creds)
    BY <2>1 DEF OneAim, Issued
  <2>3. Aimed(Asking("revoking", None, 0, {i}), creds)
    BY <2>2 DEF Aimed, Asking
  <2> QED
    BY <1>2, <2>1, <2>3
<1>8. CASE PresentRefresh(r)
  <2>1. PICK pc \in {"exchanging", "breaking"}, i \in Ids, S \in SUBSET Ids :
          req' = [req EXCEPT ![r] = Asking(pc, i, 0, S)]
    BY <1>8 DEF PresentRefresh, LiveInChain
  <2>2. Aimed(Asking(pc, i, 0, S), creds)
    BY <2>1 DEF Aimed, Asking
  <2> QED
    BY <1>2, <2>1, <2>2
<1> QED
  BY <1>3, <1>4, <1>5, <1>6, <1>7, <1>8

LEMMA StepAims == IInv /\ Aims /\ [Next]_authVars => Aims'
<1> SUFFICES ASSUME IInv, Aims, [Next]_authVars PROVE Aims'
  OBVIOUS
<1>1. Good /\ Grows(creds, creds')
  BY StepIInv DEF Good
<1>2. ASSUME NEW r \in Requests, Finish(r) PROVE Aims'
  BY <1>1, <1>2, OneAims, IdleAimed DEF Finish
<1>3. CASE UNCHANGED req
  BY <1>1, <1>3, NobodyAims
<1>4. ASSUME NEW r \in Requests, Progress(r) PROVE Aims'
  BY <1>1, <1>2, <1>3, <1>4, SelectsAim
  DEF Progress, Leave, Keep, Mint, LockNext, CommitRevocation, Exchange,
      RefuseReplay, GiveUp
<1>5. ASSUME NEW r \in Requests, BreakDeadlock(r) \/ Abort(r) PROVE Aims'
  BY <1>2, <1>5 DEF BreakDeadlock, Abort
<1>6. CASE UNCHANGED authVars \/ ClockTick
             \/ \E user \in Users : SignIn(user) \/ Grant(user)
  BY <1>3, <1>6 DEF authVars, ClockTick, SignIn, Grant
<1> QED
  BY <1>1, <1>4, <1>5, <1>6, SelectsAim DEF Next

-----------------------------------------------------------------------------
(* What the contract sees of a table.                                      *)

CardsOf(table) == [i \in Ids |-> CardOf(table[i])]

Blank == [kind |-> "free"]

\* A card that is revoked.
LEMMA CardRevoked ==
  ASSUME NEW kind, NEW user, NEW family, NEW expires, NEW revoked, NEW card,
         card = [kind |-> kind, user |-> user, family |-> family,
                 expires |-> expires, revoked |-> revoked]
  PROVE  [card EXCEPT !.revoked = TRUE] =
           [kind |-> kind, user |-> user, family |-> family,
            expires |-> expires, revoked |-> TRUE]
<1> DEFINE F == {"kind", "user", "family", "expires", "revoked"}
           new == [kind |-> kind, user |-> user, family |-> family,
                   expires |-> expires, revoked |-> TRUE]
<1>1. DOMAIN card = F
  OBVIOUS
<1>2. [card EXCEPT !.revoked = TRUE]
        = [x \in F |-> IF x = "revoked" THEN TRUE ELSE card[x]]
  BY <1>1, Zenon
<1>3. new = [x \in F |-> new[x]]
  OBVIOUS
<1>4. /\ new.kind = card.kind /\ new.user = card.user
      /\ new.family = card.family /\ new.expires = card.expires
      /\ new.revoked = TRUE
  OBVIOUS
<1> HIDE DEF new
<1>5. \A x \in F : new[x] = IF x = "revoked" THEN TRUE ELSE card[x]
  BY <1>4
<1>6. [card EXCEPT !.revoked = TRUE] = new
  BY <1>2, <1>3, <1>5, Zenon
<1> QED
  BY <1>6 DEF new

LEMMA CardIssued ==
  ASSUME NEW table, TableOK(table), NEW i \in Ids
  PROVE  /\ table[i] = Unissued <=> CardOf(table[i]) = Blank
         /\ table[i] # Unissued =>
              /\ CardOf(table[i]).kind = table[i].kind
              /\ CardOf(table[i]).user = table[i].user
              /\ CardOf(table[i]).family = table[i].chain
              /\ CardOf(table[i]).expires = table[i].expires
              /\ CardOf(table[i]).revoked = table[i].revoked
<1>1. CASE table[i] = Unissued
  BY <1>1 DEF CardOf, Blank
<1>2. CASE table[i] # Unissued
  <2>1. table[i].kind # "free"
    BY <1>2 DEF TableOK, RowOK, Credential, Kinds
  <2> QED
    BY <1>2, <2>1 DEF CardOf, Blank
<1> QED
  BY <1>1, <1>2

\* An INSERT is an INSERT.
LEMMA CardsInsert ==
  ASSUME NEW table, table = [k \in Ids |-> table[k]], NEW i \in Ids, NEW row
  PROVE  CardsOf([table EXCEPT ![i] = row])
           = [CardsOf(table) EXCEPT ![i] = CardOf(row)]
BY DEF CardsOf

LEMMA CardOfSession ==
  ASSUME NEW user
  PROVE  CardOf(NewSession(user)) = Promise!New("session", user, None)
<1>1. NewSession(user) # Unissued
  <2>1. NewSession(user).kind # Unissued.kind
    BY DEF NewSession, Unissued
  <2> QED
    BY <2>1
<1> QED
  BY <1>1 DEF CardOf, NewSession, Promise!New, Lifetimes, Kinds

LEMMA CardOfToken ==
  ASSUME NEW user, NEW chain, NEW kind \in {"access", "refresh", "pat"},
         NEW expires,
         expires = IF kind = "pat" THEN None
                   ELSE IF kind = "access" THEN now + AccessTTL
                   ELSE now + RefreshTTL
  PROVE  CardOf(NewToken(kind, user, chain, expires)) = Promise!New(kind, user, chain)
<1>1. NewToken(kind, user, chain, expires) # Unissued
  <2>1. NewToken(kind, user, chain, expires).kind # Unissued.kind
    BY DEF NewToken, Unissued
  <2> QED
    BY <2>1
<1> QED
  BY <1>1 DEF CardOf, NewToken, Promise!New, Lifetimes, Kinds

LEMMA CardsPair ==
  ASSUME NEW table, table = [k \in Ids |-> table[k]], NEW i \in Ids, NEW j \in Ids,
         NEW user, NEW chain
  PROVE  CardsOf(WithPair(table, i, j, user, chain))
           = Promise!Pair(CardsOf(table), i, j, user, chain)
<1> DEFINE a == NewToken("access", user, chain, now + AccessTTL)
           b == NewToken("refresh", user, chain, now + RefreshTTL)
           one == [table EXCEPT ![i] = a]
<1>1. /\ CardOf(a) = Promise!New("access", user, chain)
      /\ CardOf(b) = Promise!New("refresh", user, chain)
  BY CardOfToken
<1>2. WithPair(table, i, j, user, chain) = [one EXCEPT ![j] = b]
  BY DEF WithPair
<1> HIDE DEF a, b
<1>3. one = [k \in Ids |-> one[k]]
  OBVIOUS
<1>4. CardsOf(one) = [CardsOf(table) EXCEPT ![i] = CardOf(a)]
  BY CardsInsert
<1> HIDE DEF one
<1>5. CardsOf([one EXCEPT ![j] = b]) = [CardsOf(one) EXCEPT ![j] = CardOf(b)]
  BY <1>3, CardsInsert
<1> QED
  BY <1>1, <1>2, <1>4, <1>5 DEF Promise!Pair

\* Of an UPDATE the contract sees the revocations.
LEMMA CardsUpdated ==
  ASSUME IInv, NEW r \in Requests, req[r] \in Request
  PROVE  CardsOf(Updated(r)) =
           [i \in Ids |->
              IF creds[i] # Unissued /\ i \in req[r].doomed
              THEN [Cards[i] EXCEPT !.revoked = TRUE] ELSE Cards[i]]
<1> SUFFICES ASSUME NEW i \in Ids
             PROVE  CardOf(Updated(r)[i]) =
                      IF creds[i] # Unissued /\ i \in req[r].doomed
                      THEN [CardOf(creds[i]) EXCEPT !.revoked = TRUE]
                      ELSE CardOf(creds[i])
  BY DEF CardsOf, Cards
<1>1. CASE creds[i] = Unissued
  BY <1>1 DEF Updated, Issued
<1>2. CASE creds[i] # Unissued
  <2> DEFINE stamp == IF i = req[r].caller /\ creds[i].kind = "session"
                      THEN req[r].seen ELSE creds[i].seen
             revoked == creds[i].revoked \/ i \in req[r].doomed
             row == [creds[i] EXCEPT !.seen = stamp, !.revoked = revoked]
  <2>1. Updated(r)[i] = row
    BY <1>2 DEF Updated, Issued
  <2>2. creds[i] \in Credential
    BY <1>2, TypeTable DEF IInv, TableOK, RowOK
  <2> HIDE DEF stamp
  <2>3. /\ row.kind = creds[i].kind /\ row.user = creds[i].user
        /\ row.chain = creds[i].chain /\ row.expires = creds[i].expires
        /\ row.revoked = revoked
    BY <2>2 DEF Credential
  <2>4. row # Unissued
    <3>1. row.kind \in Kinds /\ Unissued.kind \notin Kinds
      BY <2>2, <2>3 DEF Credential, Kinds, Unissued
    <3> HIDE DEF row
    <3> QED
      BY <3>1
  <2> HIDE DEF row
  <2>5. CardOf(row) = [kind |-> creds[i].kind, user |-> creds[i].user,
                       family |-> creds[i].chain, expires |-> creds[i].expires,
                       revoked |-> revoked]
    BY <2>3, <2>4 DEF CardOf
  <2>6. CardOf(creds[i]) =
          [kind |-> creds[i].kind, user |-> creds[i].user,
           family |-> creds[i].chain, expires |-> creds[i].expires,
           revoked |-> creds[i].revoked]
    BY <1>2 DEF CardOf
  <2>7. CASE i \in req[r].doomed
    <3>1. revoked = TRUE
      BY <2>7
    <3> HIDE DEF revoked
    <3>2. CardOf(row) = [CardOf(creds[i]) EXCEPT !.revoked = TRUE]
      BY <2>5, <2>6, <3>1, CardRevoked
    <3> QED
      BY <1>2, <2>1, <2>7, <3>2
  <2>8. CASE i \notin req[r].doomed
    <3>1. revoked = creds[i].revoked
      BY <2>2, <2>8 DEF Credential
    <3> QED
      BY <1>2, <2>1, <2>5, <2>6, <2>8, <3>1
  <2> QED
    BY <2>7, <2>8
<1> QED
  BY <1>1, <1>2

LEMMA CardsExchanged ==
  ASSUME IInv, NEW t \in Ids, creds[t] # Unissued
  PROVE  CardsOf(Exchanged(t)) = [Cards EXCEPT ![t].revoked = TRUE]
<1> DEFINE row == [creds[t] EXCEPT !.revoked = TRUE]
<1>1. creds[t] \in Credential /\ creds = [k \in Ids |-> creds[k]]
  BY TypeTable DEF IInv, AuthTypeOK, TableOK, RowOK
<1>2. Exchanged(t) = [creds EXCEPT ![t] = row]
  BY DEF Exchanged
<1>3. /\ row \in Credential
      /\ row.kind = creds[t].kind /\ row.user = creds[t].user
      /\ row.chain = creds[t].chain /\ row.expires = creds[t].expires
      /\ row.revoked = TRUE
  BY <1>1 DEF Credential
<1> HIDE DEF row
<1>4. CardOf(row) = [CardOf(creds[t]) EXCEPT !.revoked = TRUE]
  <2>1. row # Unissued
    BY <1>3, IssuedNotUnissued
  <2>2. CardOf(row) = [kind |-> creds[t].kind, user |-> creds[t].user,
                       family |-> creds[t].chain, expires |-> creds[t].expires,
                       revoked |-> TRUE]
    BY <1>3, <2>1 DEF CardOf
  <2>3. CardOf(creds[t]) =
          [kind |-> creds[t].kind, user |-> creds[t].user,
           family |-> creds[t].chain, expires |-> creds[t].expires,
           revoked |-> creds[t].revoked]
    BY DEF CardOf
  <2> QED
    BY <2>2, <2>3, CardRevoked
<1>5. CardsOf([creds EXCEPT ![t] = row]) = [CardsOf(creds) EXCEPT ![t] = CardOf(row)]
  BY <1>1, CardsInsert
<1> QED
  BY <1>2, <1>4, <1>5 DEF CardsOf, Cards

-----------------------------------------------------------------------------
(* What the contract sees of the requests.                                 *)

LEMMA PresentedElsewhere ==
  ASSUME IInv, NEW r \in Requests, NEW q, req' = [req EXCEPT ![r] = q]
  PROVE  Presented' =
           [Presented EXCEPT ![r] =
              IF q.pc = "exchanging" THEN q.caller ELSE None]
<1> DEFINE Shown(a) == IF a.pc = "exchanging" THEN a.caller ELSE None
<1>1. \A s \in Requests : req'[s] = IF s = r THEN q ELSE req[s]
  BY DEF IInv, AuthTypeOK
<1>2. /\ Presented = [s \in Requests |-> Shown(req[s])]
      /\ Presented' = [s \in Requests |-> Shown(req'[s])]
  BY DEF Presented, At
<1>3. \A s \in Requests :
        Shown(req'[s]) = IF s = r THEN Shown(q) ELSE Shown(req[s])
  BY <1>1
<1>4. Shown(q) = IF q.pc = "exchanging" THEN q.caller ELSE None
  OBVIOUS
<1> HIDE DEF Shown
<1>5. Presented' = [s \in Requests |->
                      IF s = r THEN Shown(q) ELSE Shown(req[s])]
  BY <1>2, <1>3
<1>6. Presented' = [Presented EXCEPT ![r] = Shown(q)]
  BY <1>2, <1>5
<1> QED
  BY <1>4, <1>6

\* A request that exchanges neither before nor after its step.
LEMMA PresentedStays ==
  ASSUME IInv, NEW r \in Requests, NEW q, req' = [req EXCEPT ![r] = q],
         ~ At(r, "exchanging"), q.pc # "exchanging"
  PROVE  Presented' = Presented
<1>1. Presented[r] = None /\ Presented = [s \in Requests |-> Presented[s]]
  BY DEF Presented
<1>2. Presented' = [Presented EXCEPT ![r] = None]
  BY PresentedElsewhere
<1> HIDE DEF Presented
<1> QED
  BY <1>1, <1>2

LEMMA StillPresented == ASSUME UNCHANGED req PROVE Presented' = Presented
BY DEF Presented, At

\* An exchange that is over, one way or the other.
LEMMA PresentedEnds ==
  ASSUME IInv, NEW r \in Requests, At(r, "exchanging"), Finish(r)
  PROVE  /\ Presented[r] = req[r].caller /\ Presented[r] # None
         /\ Presented' = [Presented EXCEPT ![r] = None]
<1>1. Presented[r] = req[r].caller
  BY DEF Presented
<1>2. req[r].caller \in Ids
  BY DEF IInv, CallersKnown, At
<1>3. Presented' = [Presented EXCEPT ![r] =
                      IF Idle.pc = "exchanging" THEN Idle.caller ELSE None]
  BY PresentedElsewhere DEF Finish
<1>4. Idle.pc # "exchanging"
  BY DEF Idle
<1> QED
  BY <1>1, <1>2, <1>3, <1>4, AuthAssumption

LEMMA FinishPresented ==
  ASSUME IInv, NEW r \in Requests, ~ At(r, "exchanging"), Finish(r)
  PROVE  Presented' = Presented
<1>1. Idle.pc # "exchanging"
  BY DEF Idle
<1> QED
  BY <1>1, PresentedStays DEF Finish

-----------------------------------------------------------------------------
(* The steps of the contract.                                              *)

LEMMA InitPromise == Init => Promise!Init
BY DEF Init, Promise!Init, Cards, CardOf, Promise!Free, Presented, At, Idle

\* What the contract calls issued is what has a row.
LEMMA PromiseIssued ==
  ASSUME IInv
  PROVE  /\ Cards = CardsOf(creds)
         /\ \A i \in Ids :
              /\ Promise!Issued(i) <=> creds[i] # Unissued
              /\ creds[i] # Unissued =>
                   /\ Cards[i].kind = creds[i].kind
                   /\ Cards[i].user = creds[i].user
                   /\ Cards[i].family = creds[i].chain
                   /\ Cards[i].expires = creds[i].expires
                   /\ Cards[i].revoked = creds[i].revoked
<1>1. TableOK(creds)
  BY TypeTable DEF IInv
<1>2. \A i \in Ids : Cards[i] = CardOf(creds[i])
  BY DEF Cards
<1> QED
  BY <1>1, <1>2, CardIssued DEF Cards, CardsOf, Promise!Issued, Promise!Free, Blank

LEMMA CardsNext == Cards' = CardsOf(creds')
BY DEF Cards, CardsOf

LEMMA CredsTable == ASSUME IInv PROVE creds = [k \in Ids |-> creds[k]]
BY DEF IInv, AuthTypeOK

LEMMA SignInKept ==
  ASSUME IInv, NEW user \in Users, SignIn(user) PROVE Promise!Next
<1>1. PICK i \in Ids : /\ ~ Issued(i)
                       /\ creds' = [creds EXCEPT ![i] = NewSession(user)]
                       /\ UNCHANGED <<req, now>>
  BY DEF SignIn
<1>2. Cards' = [Cards EXCEPT ![i] = Promise!New("session", user, None)]
  <2> DEFINE row == NewSession(user)
  <2>1. CardOf(row) = Promise!New("session", user, None)
    BY CardOfSession
  <2>2. creds = [k \in Ids |-> creds[k]] /\ Cards = CardsOf(creds)
    BY CredsTable, PromiseIssued
  <2> HIDE DEF row
  <2>3. CardsOf([creds EXCEPT ![i] = row])
          = [CardsOf(creds) EXCEPT ![i] = CardOf(row)]
    BY <2>2, CardsInsert
  <2> QED
    BY <1>1, <2>1, <2>2, <2>3, CardsNext DEF row
<1>3. Promise!SignIn(i, user)
  BY <1>1, <1>2, PromiseIssued, StillPresented DEF Promise!SignIn, Issued
<1> QED
  BY <1>3 DEF Promise!Next

\* The first access token of a grant names a family that nobody is of: whatever
\* names a family is issued.
LEMMA GrantKept ==
  ASSUME NInv, NEW user \in Users, Grant(user) PROVE Promise!Next
<1>1. PICK i \in Ids, j \in Ids :
        /\ i # j /\ ~ Issued(i) /\ ~ Issued(j)
        /\ creds' = WithPair(creds, i, j, user, i)
        /\ UNCHANGED <<req, now>>
  BY DEF Grant
<1>2. Cards' = Promise!Pair(Cards, i, j, user, i)
  BY <1>1, CardsNext, CredsTable, CardsPair, PromiseIssued DEF NInv
<1>3. ASSUME NEW k \in Ids, creds[k] # Unissued PROVE creds[k].chain # i
  BY <1>1, <1>3, AuthAssumption DEF NInv, ChainsNamed, Issued
<1>4. Promise!Grant(i, j, user)
  BY <1>1, <1>2, <1>3, PromiseIssued, StillPresented
  DEF Promise!Grant, Issued, NInv
<1> QED
  BY <1>4 DEF Promise!Next

\* A stamp is nothing to the contract.
LEMMA StampsUnseen ==
  ASSUME IInv, NEW r \in Requests, req[r] \in Request, req[r].doomed = {}
  PROVE  CardsOf(Updated(r)) = Cards
BY CardsUpdated DEF Cards

LEMMA ServingAimed ==
  ASSUME IInv, Aims, NEW r \in Requests, At(r, "serving")
  PROVE  /\ req[r] \in Request /\ req[r].doomed = {}
         /\ req[r].caller \in Ids /\ creds[req[r].caller] # Unissued
         /\ creds[req[r].caller].kind # "refresh"
BY BusyRequest DEF At, Aims, Aimed, IInv, CallersKnown, Issued

LEMMA KeepKept ==
  ASSUME IInv, Aims, NEW r \in Requests, Keep(r)
  PROVE  UNCHANGED Promise!contractVars
<1>1. Presented' = Presented
  BY FinishPresented DEF Keep, At
<1> QED
  BY <1>1, ServingAimed, StampsUnseen, CardsNext DEF Keep, Promise!contractVars

LEMMA MintKept ==
  ASSUME IInv, Aims, NEW r \in Requests, Mint(r) PROVE Promise!Next
<1> DEFINE k == req[r].caller
           table == Updated(r)
           row == NewToken("pat", creds[k].user, None, None)
<1>1. PICK i \in Ids : /\ At(r, "serving") /\ Finish(r)
                       /\ ~ Issued(i)
                       /\ creds' = [table EXCEPT ![i] = row]
                       /\ UNCHANGED now
  BY DEF Mint
<1>2. k \in Ids /\ creds[k] # Unissued /\ creds[k].kind # "refresh"
  BY <1>1, ServingAimed
<1>3. CardsOf(table) = Cards
  BY <1>1, ServingAimed, StampsUnseen
<1>4. CardOf(row) = Promise!New("pat", creds[k].user, None)
  BY CardOfToken
<1>5. table = [n \in Ids |-> table[n]]
  BY DEF Updated
<1>6. Presented' = Presented
  BY <1>1, FinishPresented DEF At
<1> HIDE DEF table, row
<1>7. Cards' = [Cards EXCEPT ![i] = Promise!New("pat", creds[k].user, None)]
  <2>1. CardsOf([table EXCEPT ![i] = row])
          = [CardsOf(table) EXCEPT ![i] = CardOf(row)]
    BY <1>5, CardsInsert
  <2> QED
    BY <1>1, <1>3, <1>4, <2>1, CardsNext
<1> HIDE DEF k
<1>8. Promise!Mint(i, k)
  BY <1>1, <1>2, <1>6, <1>7, PromiseIssued DEF Promise!Mint, Issued
<1> QED
  BY <1>2, <1>8 DEF Promise!Next

\* The rows a request had selected are still one account's when it commits.
LEMMA RevocationKept ==
  ASSUME IInv, Aims, NEW r \in Requests, CommitRevocation(r) PROVE Promise!Next
<1> DEFINE S == req[r].doomed
<1>1. req[r] \in Request /\ OneAim(S, creds)
  BY BusyRequest DEF CommitRevocation, At, Aims, Aimed
<1>2. creds' = Updated(r) /\ UNCHANGED now /\ Presented' = Presented
  BY FinishPresented DEF CommitRevocation, At
<1> HIDE DEF S
<1>3. S \in SUBSET Ids /\ \A i \in S : creds[i] # Unissued
  BY <1>1 DEF OneAim
<1>4. Cards' = [i \in Ids |-> IF i \in S THEN [Cards[i] EXCEPT !.revoked = TRUE]
                              ELSE Cards[i]]
  <2>1. Cards' = [i \in Ids |->
                    IF creds[i] # Unissued /\ i \in S
                    THEN [Cards[i] EXCEPT !.revoked = TRUE] ELSE Cards[i]]
    BY <1>1, <1>2, CardsNext, CardsUpdated DEF S
  <2> QED
    BY <1>3, <2>1, Zenon
<1>5. /\ \A i \in S : Promise!Issued(i)
      /\ \A i, j \in S : Cards[i].user = Cards[j].user
      /\ \/ \A i \in S : Cards[i].kind = "session"
         \/ \E i \in Ids : S = {i} /\ Cards[i].kind = "pat"
  BY <1>1, <1>3, PromiseIssued DEF OneAim
<1>6. Promise!Revoke(S)
  BY <1>2, <1>4, <1>5 DEF Promise!Revoke
<1> QED
  BY <1>3, <1>6 DEF Promise!Next

\* A refresh token that resolves is a good one; a replay presents nothing.
LEMMA PresentRefreshKept ==
  ASSUME IInv, NEW r \in Requests, PresentRefresh(r)
  PROVE  [Promise!Next]_(Promise!contractVars)
<1>1. PICK i \in Ids :
        /\ At(r, "idle")
        /\ Issued(i) /\ creds[i].kind = "refresh"
        /\ \/ /\ Usable(i)
              /\ req' = [req EXCEPT ![r] = Asking("exchanging", i, 0, {})]
           \/ req' = [req EXCEPT ![r] =
                Asking("breaking", i, 0, LiveInChain(creds[i].chain))]
        /\ UNCHANGED <<creds, now>>
  BY DEF PresentRefresh
<1>2. Cards' = Cards
  BY <1>1 DEF Cards
<1>3. CASE /\ Usable(i)
           /\ req' = [req EXCEPT ![r] = Asking("exchanging", i, 0, {})]
  <2>1. Presented[r] = None
    BY <1>1 DEF Presented, At
  <2> DEFINE n == Asking("exchanging", i, 0, {})
  <2>2. n.pc = "exchanging" /\ n.caller = i
    BY DEF Asking
  <2> HIDE DEF n
  <2>3. req' = [req EXCEPT ![r] = n]
    BY <1>3 DEF n
  <2>4. Presented' = [Presented EXCEPT ![r] = i]
    BY <2>2, <2>3, PresentedElsewhere
  <2>5. Promise!Good(i) /\ Cards[i].kind = "refresh"
    BY <1>1, <1>3, PromiseIssued DEF Promise!Good, Usable, CheckLive, Issued
  <2>6. Promise!Present(r, i)
    BY <1>1, <1>2, <2>1, <2>4, <2>5 DEF Promise!Present
  <2> QED
    BY <2>6 DEF Promise!Next
<1>4. CASE req' = [req EXCEPT ![r] =
             Asking("breaking", i, 0, LiveInChain(creds[i].chain))]
  <2>1. Presented' = Presented
    BY <1>1, <1>4, PresentedStays DEF Asking, At
  <2> QED
    BY <1>1, <1>2, <2>1 DEF Promise!contractVars
<1> QED
  BY <1>1, <1>3, <1>4

\* A request that ends and writes nothing has presented nothing, or withdraws.
LEMMA DropKept ==
  ASSUME IInv, NEW r \in Requests, Finish(r), UNCHANGED <<creds, now>>
  PROVE  [Promise!Next]_(Promise!contractVars)
<1>1. Cards' = Cards
  BY DEF Cards
<1>2. CASE At(r, "exchanging")
  <2>1. Promise!Withdraw(r)
    BY <1>1, <1>2, PresentedEnds DEF Promise!Withdraw
  <2> QED
    BY <2>1 DEF Promise!Next
<1>3. CASE ~ At(r, "exchanging")
  BY <1>1, <1>3, FinishPresented DEF Promise!contractVars
<1> QED
  BY <1>2, <1>3

\* The pair continues the family of the token its request presented.
LEMMA ExchangeKept ==
  ASSUME IInv, NEW r \in Requests, Exchange(r) PROVE Promise!Next
<1> DEFINE t == req[r].caller
           mid == Exchanged(t)
<1>1. PICK i \in Ids, j \in Ids :
        /\ At(r, "exchanging") /\ Finish(r)
        /\ i # j /\ ~ Issued(i) /\ ~ Issued(j)
        /\ creds' = WithPair(mid, i, j, creds[t].user, creds[t].chain)
        /\ UNCHANGED now
  BY DEF Exchange
<1>2. t \in Ids /\ creds[t] # Unissued
  BY <1>1 DEF IInv, CallersKnown, At, Issued
<1>3. CardsOf(mid) = [Cards EXCEPT ![t].revoked = TRUE]
  BY <1>2, CardsExchanged
<1>4. mid = [k \in Ids |-> mid[k]]
  BY CredsTable DEF Exchanged
<1> HIDE DEF mid
<1>5. Cards' = Promise!Pair([Cards EXCEPT ![t].revoked = TRUE], i, j,
                            creds[t].user, creds[t].chain)
  BY <1>1, <1>3, <1>4, CardsNext, CardsPair
<1>6. /\ Presented[r] = t /\ Presented[r] # None
      /\ Presented' = [Presented EXCEPT ![r] = None]
  BY <1>1, PresentedEnds
<1> HIDE DEF t
<1>7. Promise!Exchange(r, i, j)
  BY <1>1, <1>2, <1>5, <1>6, PromiseIssued DEF Promise!Exchange, Issued
<1> QED
  BY <1>1, <1>7 DEF Promise!Next

\* The steps of a request that write nothing and go on without a token.
LEMMA MoveKept ==
  ASSUME IInv, NEW r \in Requests,
         \/ Present(r) \/ Logout(r) \/ Touch(r)
         \/ SelectTarget(r) \/ SelectAll(r) \/ LockNext(r)
  PROVE  UNCHANGED Promise!contractVars
<1>1. Cards' = Cards /\ now' = now
  BY DEF Cards, Present, Logout, Touch, SelectTarget, SelectAll, LockNext
<1>2. CASE LockNext(r)
  BY <1>1, <1>2, StillPresented DEF LockNext, Promise!contractVars
<1>3. ASSUME NEW q, req' = [req EXCEPT ![r] = q], ~ At(r, "exchanging"),
             q.pc # "exchanging"
      PROVE  UNCHANGED Promise!contractVars
  BY <1>1, <1>3, PresentedStays DEF Promise!contractVars
<1>4. CASE Present(r) \/ Logout(r)
  <2>1. PICK pc \in {"touching", "revoking"} :
          \E k, seen, S : req' = [req EXCEPT ![r] = Asking(pc, k, seen, S)]
    BY <1>4 DEF Present, Logout
  <2> PICK k, seen, S : req' = [req EXCEPT ![r] = Asking(pc, k, seen, S)]
    BY <2>1
  <2>2. ~ At(r, "exchanging")
    BY <1>4 DEF Present, Logout, At
  <2> DEFINE n == Asking(pc, k, seen, S)
  <2>3. n.pc = pc
    BY DEF Asking
  <2> HIDE DEF n
  <2>4. req' = [req EXCEPT ![r] = n]
    BY DEF n
  <2> QED
    BY <1>3, <2>1, <2>2, <2>3, <2>4
<1>5. CASE Touch(r) \/ SelectTarget(r) \/ SelectAll(r)
  <2>1. req[r] \in Request /\ ~ At(r, "exchanging")
    BY <1>5, BusyRequest DEF Touch, SelectTarget, SelectAll, At
  <2>2. PICK pc \in {"serving", "revoking", "leaving"} :
          \/ req' = [req EXCEPT ![r] = [req[r] EXCEPT !.pc = pc]]
          \/ \E S : req' =
               [req EXCEPT ![r] = [req[r] EXCEPT !.pc = pc, !.doomed = S]]
    BY <1>5 DEF Touch, SelectTarget, SelectAll
  <2>3. /\ [req[r] EXCEPT !.pc = pc].pc = pc
        /\ \A S : [req[r] EXCEPT !.pc = pc, !.doomed = S].pc = pc
    BY <2>1 DEF Request
  <2> QED
    BY <1>3, <2>1, <2>2, <2>3
<1> QED
  BY <1>2, <1>4, <1>5

LEMMA StepPromise ==
  NInv /\ Aims /\ [Next]_authVars => [Promise!Next]_(Promise!contractVars)
<1> SUFFICES ASSUME NInv, Aims, [Next]_authVars
             PROVE  [Promise!Next]_(Promise!contractVars)
  OBVIOUS
<1>1. IInv
  BY DEF NInv
<1>2. CASE ClockTick
  BY <1>2, StillPresented DEF ClockTick, Promise!Next, Promise!Tick, Cards
<1>3. CASE \E user \in Users : SignIn(user) \/ Grant(user)
  BY <1>1, <1>3, SignInKept, GrantKept
<1>4. ASSUME NEW r \in Requests, Progress(r)
      PROVE  [Promise!Next]_(Promise!contractVars)
  <2>1. CASE Leave(r) \/ RefuseReplay(r) \/ GiveUp(r)
    BY <1>1, <2>1, DropKept DEF Leave, RefuseReplay, GiveUp
  <2>2. CASE Touch(r) \/ SelectTarget(r) \/ SelectAll(r) \/ LockNext(r)
    BY <1>1, <2>2, MoveKept
  <2> QED
    BY <1>1, <1>4, <2>1, <2>2, KeepKept, MintKept, RevocationKept, ExchangeKept
    DEF Progress
<1>5. ASSUME NEW r \in Requests, BreakDeadlock(r) \/ Abort(r)
      PROVE  [Promise!Next]_(Promise!contractVars)
  BY <1>1, <1>5, DropKept DEF BreakDeadlock, Abort
<1>6. ASSUME NEW r \in Requests, Present(r) \/ Logout(r) \/ PresentRefresh(r)
      PROVE  [Promise!Next]_(Promise!contractVars)
  BY <1>1, <1>6, MoveKept, PresentRefreshKept
<1>7. CASE UNCHANGED authVars
  BY <1>7, StillPresented DEF authVars, Promise!contractVars, Cards
<1> QED
  BY <1>2, <1>3, <1>4, <1>5, <1>6, <1>7 DEF Next

\* Authentication implements the contract of credentials: whatever a request
\* does with rows it read earlier, a row changes only by being revoked, with
\* rows of its account alone, and a grant goes on only by a request that found
\* its refresh token good.  (That two may have found the same one good is in
\* the contract, because nothing in rotate prevents it.)
THEOREM CredentialsKeepContract == Spec => CredentialsKept
<1>1. Init => NInv /\ Aims /\ Promise!Init
  <2>1. Init => Aims
    BY IdleAimed DEF Init, Aims
  <2> QED
    BY <2>1, InitNInv, InitPromise
<1>2. NInv /\ Aims /\ [Next]_authVars => NInv' /\ Aims'
  BY StepNInv, StepAims DEF NInv
<1>3. NInv /\ Aims /\ [Next]_authVars => [Promise!Next]_(Promise!contractVars)
  BY StepPromise
<1> QED
  BY <1>1, <1>2, <1>3, PTL DEF Spec, CredentialsKept, Promise!Spec

=============================================================================
