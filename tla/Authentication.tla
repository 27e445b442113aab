--------------------------- MODULE Authentication ----------------------------
(***************************************************************************)
(* Who is calling: browser sessions (auth/sessions.py), API credentials    *)
(* (auth/credentials.py), the dependency that tries them (deps.py) and the *)
(* routes that issue, exchange and revoke them (routes/auth.py, tokens.py).*)
(*                                                                         *)
(* creds holds the rows of both tables, sessions and tokens.  A request    *)
(* that authenticates stamps its row and flushes, so it holds the row's    *)
(* lock until it commits or ends; what it flushed is seen by others, and   *)
(* survives, only if it commits.  A revocation locks its rows one by one   *)
(* in the order of their keys: the unit of work sorts them.                *)
(*                                                                         *)
(* No step changes an account's state: nothing in the repository does.     *)
(* last_used_at of a token is only displayed; its UPDATE is modelled as    *)
(* the lock it takes.                                                      *)
(***************************************************************************)
EXTENDS Integers, FiniteSets, RowLocks

CONSTANTS
  Users,
  SessionTTL,   \* session_absolute_ttl_seconds, in ticks
  IdleTTL,      \* session_idle_ttl_seconds
  AccessTTL,    \* access_token_ttl_seconds
  RefreshTTL,   \* refresh_token_ttl_seconds
  MaxIssued,    \* bound: MaxIssued[kind] rows of that kind are issued
  Horizon       \* bound: the clock stops here

Kinds == {"session", "access", "refresh", "pat"}

ASSUME AuthAssumption ==
  /\ Ids \subseteq Nat
  /\ None \notin Requests \cup Nat
  /\ SessionTTL \in Nat \ {0}
  /\ IdleTTL \in Nat \ {0}
  /\ AccessTTL \in Nat \ {0}
  /\ RefreshTTL \in Nat \ {0}
  /\ MaxIssued \in [Kinds -> Nat]
  /\ Horizon \in Nat

VARIABLES
  creds,    \* creds[i]: the row with id i, or Unissued
  req,      \* req[r]: what request r is doing
  now,      \* utcnow()
  answered  \* history: when the last request that a session authenticated
            \* and that was answered had presented it

authVars == <<creds, req, holder, now, answered>>

-----------------------------------------------------------------------------
(* Rows and requests.                                                      *)

Unissued == [kind |-> "unissued"]

Credential ==
  [kind : Kinds, user : Users, chain : Ids \cup {None},
   expires : Nat \cup {None}, seen : Nat, revoked : BOOLEAN]

Idle == [pc |-> "idle"]

\* "touching", "serving": an authenticated request before and after its stamp
\* is flushed; "revoking": DELETE /v1/tokens/{token_id} and logout with the row
\* they found, "leaving": revoke-all with the rows it selected; "exchanging",
\* "breaking": a refresh token presented for the first time, and again.
Steps ==
  {"touching", "serving", "revoking", "leaving", "exchanging", "breaking"}

\* caller: the row presented; seen: the time a session is to be stamped with;
\* doomed: the rows selected to be revoked.
Request ==
  [pc : Steps, caller : Ids \cup {None}, seen : Nat, doomed : SUBSET Ids]

Asking(pc, caller, seen, doomed) ==
  [pc |-> pc, caller |-> caller, seen |-> seen, doomed |-> doomed]

At(r, pc) == req[r].pc = pc

Issued(i) == creds[i] # Unissued

\* A row that is issued, of this kind and account.
Owned(i, kind, user) ==
  /\ Issued(i)
  /\ creds[i].kind = kind
  /\ creds[i].user = user

\* _check_live: neither revoked nor expired.
CheckLive(i) ==
  /\ Issued(i)
  /\ ~ creds[i].revoked
  /\ creds[i].expires # None => now < creds[i].expires

\* _live asks of a session that it was seen within the idle window, too.
Usable(i) ==
  /\ CheckLive(i)
  /\ creds[i].kind = "session" => now < creds[i].seen + IdleTTL

First(S) == CHOOSE i \in S : \A j \in S : i <= j

\* Rows request r has yet to update.
ToLock(r) == req[r].doomed \ Held(r)

\* The row whose lock request r waits for.
Wanted ==
  [r \in Requests |->
    CASE req[r].pc \in {"touching", "exchanging"} -> req[r].caller
      [] req[r].pc \in {"revoking", "leaving", "breaking"} /\ ToLock(r) # {}
           -> First(ToLock(r))
      [] OTHER -> None]

-----------------------------------------------------------------------------
(* Issuing.                                                                *)

\* Whether the bounds leave room for another row of this kind.
Room(kind) ==
  Cardinality({i \in Ids : Issued(i) /\ creds[i].kind = kind}) < MaxIssued[kind]

\* sessions.start, committed by register, login and the provider callback.
NewSession(user) ==
  [kind |-> "session", user |-> user, chain |-> None,
   expires |-> now + SessionTTL, seen |-> now, revoked |-> FALSE]

\* Slip: every token is minted with a chain_id of its own.
Unchained(kind, user, chain, expires) ==
  [kind |-> kind, user |-> user, chain |-> None,
   expires |-> expires, seen |-> 0, revoked |-> FALSE]

\* _mint.  A chain is named after the first access token minted in it.
NewToken(kind, user, chain, expires) ==
  [kind |-> kind, user |-> user, chain |-> chain,
   expires |-> expires, seen |-> 0, revoked |-> FALSE]

\* The rows of issue_pair: access token i and refresh token j.
WithPair(table, i, j, user, chain) ==
  [table EXCEPT ![i] = NewToken("access", user, chain, now + AccessTTL),
                ![j] = NewToken("refresh", user, chain, now + RefreshTTL)]

SignIn(user) ==
  \E i \in Ids :
    /\ ~ Issued(i) /\ Room("session")
    /\ creds' = [creds EXCEPT ![i] = NewSession(user)]
    /\ answered' = [answered EXCEPT ![i] = now]
    /\ UNCHANGED <<req, holder, now>>

\* The first pair of a grant.  issue_pair has no caller but rotate yet: the
\* authorization endpoints it is for are outside the repository.
Grant(user) ==
  \E i, j \in Ids :
    /\ i # j /\ ~ Issued(i) /\ ~ Issued(j) /\ Room("refresh")
    /\ creds' = WithPair(creds, i, j, user, i)
    /\ UNCHANGED <<req, holder, now, answered>>

-----------------------------------------------------------------------------
(* The end of a request.                                                   *)

\* The transaction is over, one way or the other.
Finish(r) ==
  /\ req' = [req EXCEPT ![r] = Idle]
  /\ Release(r)

\* The session that request r presented, if it presented one.
Answer(r) ==
  answered' = [i \in Ids |->
    IF i = req[r].caller /\ creds[i].kind = "session" /\ answered[i] < req[r].seen
    THEN req[r].seen ELSE answered[i]]

\* Slip: a commit sends every column of the copies it read, revoked_at too.
UpdatedWhole(r) ==
  [i \in Ids |->
    IF i # req[r].caller /\ i \notin req[r].doomed THEN creds[i]
    ELSE [creds[i] EXCEPT
           !.seen = IF i = req[r].caller /\ creds[i].kind = "session"
                    THEN req[r].seen ELSE @,
           !.revoked = i \in req[r].doomed]]

\* Slip: a stamp moves the absolute end of its session, too.
UpdatedSliding(r) ==
  [i \in Ids |->
    IF i = req[r].caller /\ creds[i].kind = "session"
    THEN [creds[i] EXCEPT !.seen = req[r].seen, !.expires = now + SessionTTL,
                          !.revoked = @ \/ i \in req[r].doomed]
    ELSE IF i \in req[r].doomed THEN [creds[i] EXCEPT !.revoked = TRUE]
    ELSE creds[i]]

\* The UPDATEs of a request that commits: the stamp on the row it presented
\* and the revocation of the rows it selected.  Only changed columns are sent.
Updated(r) ==
  [i \in Ids |->
    IF ~ Issued(i) THEN creds[i]
    ELSE [creds[i] EXCEPT
           !.seen = IF i = req[r].caller /\ creds[i].kind = "session"
                    THEN req[r].seen ELSE @,
           !.revoked = @ \/ i \in req[r].doomed]]

-----------------------------------------------------------------------------
(* An authenticated request: current_user, then the route.                 *)

\* resolve, up to its flush.  A refresh token authenticates nothing; a bearer
\* token that is refused is not made good by a cookie, so a request presents
\* one credential.
Present(r) ==
  \E i \in Ids :
    /\ At(r, "idle")
    /\ Usable(i)
    /\ creds[i].kind # "refresh"
    /\ req' = [req EXCEPT ![r] =
         Asking("touching", i, IF creds[i].kind = "session" THEN now ELSE 0, {})]
    /\ UNCHANGED <<creds, holder, now, answered>>

\* Slip: the stamp is left to be flushed by the commit.
TouchUnflushed(r) ==
  /\ At(r, "touching")
  /\ req' = [req EXCEPT ![r].pc = "serving"]
  /\ UNCHANGED <<creds, holder, now, answered>>

\* The flush of the stamp.
Touch(r) ==
  /\ At(r, "touching")
  /\ Lock(req[r].caller, r)
  /\ req' = [req EXCEPT ![r].pc = "serving"]
  /\ UNCHANGED <<creds, now, answered>>

\* Slip: a route that does not commit leaves its session open.
LeaveOpen(r) ==
  /\ At(r, "serving")
  /\ req' = [req EXCEPT ![r] = Idle]
  /\ Answer(r)
  /\ UNCHANGED <<creds, holder, now>>

\* A route that does not commit: GET /v1/me, GET /v1/tokens, any refusal.
Leave(r) ==
  /\ At(r, "serving")
  /\ Finish(r)
  /\ Answer(r)
  /\ UNCHANGED <<creds, now>>

\* A route that commits and does not concern credentials: an upload.
Keep(r) ==
  /\ At(r, "serving")
  /\ creds' = Updated(r)
  /\ Finish(r)
  /\ Answer(r)
  /\ UNCHANGED now

\* POST /v1/tokens: issue_pat.
Mint(r) ==
  \E i \in Ids :
    /\ At(r, "serving")
    /\ ~ Issued(i) /\ Room("pat")
    /\ creds' = [Updated(r) EXCEPT ![i] =
         NewToken("pat", creds[req[r].caller].user, None, None)]
    /\ Finish(r)
    /\ Answer(r)
    /\ UNCHANGED now

\* Slip: revoke_all passes over locked rows (SKIP LOCKED).
SignedInUnlocked(user) ==
  {i \in Ids :
    Owned(i, "session", user) /\ ~ creds[i].revoked /\ holder[i] = None}

\* The SELECT of revoke_all.
SignedIn(user) ==
  {i \in Ids : Owned(i, "session", user) /\ ~ creds[i].revoked}

\* DELETE /v1/tokens/{token_id} finds its row only among the caller's PATs.
SelectTarget(r) ==
  \E i \in Ids :
    /\ At(r, "serving")
    /\ Owned(i, "pat", creds[req[r].caller].user)
    /\ req' = [req EXCEPT ![r].pc = "revoking", ![r].doomed = {i}]
    /\ UNCHANGED <<creds, holder, now, answered>>

\* POST /v1/auth/sessions/revoke-all.
SelectAll(r) ==
  /\ At(r, "serving")
  /\ req' = [req EXCEPT ![r].pc = "leaving",
                        ![r].doomed = SignedIn(creds[req[r].caller].user)]
  /\ UNCHANGED <<creds, holder, now, answered>>

\* POST /v1/auth/logout does not authenticate: it looks the cookie's row up.
Logout(r) ==
  \E i \in Ids :
    /\ At(r, "idle")
    /\ Issued(i) /\ creds[i].kind = "session"
    /\ req' = [req EXCEPT ![r] = Asking("revoking", None, 0, {i})]
    /\ UNCHANGED <<creds, holder, now, answered>>

\* One UPDATE of the flush, in the order of the keys.
LockNext(r) ==
  /\ req[r].pc \in {"revoking", "leaving", "breaking"}
  /\ ToLock(r) # {}
  /\ Lock(First(ToLock(r)), r)
  /\ UNCHANGED <<creds, req, now, answered>>

CommitRevocation(r) ==
  /\ At(r, "revoking") \/ At(r, "leaving")
  /\ ToLock(r) = {}
  /\ creds' = Updated(r)
  /\ Finish(r)
  /\ Answer(r)
  /\ UNCHANGED now

-----------------------------------------------------------------------------
(* POST /v1/auth/refresh: rotate.                                          *)

\* The credentials of a grant that are not revoked: _break_chain's SELECT.
LiveInChain(chain) ==
  {i \in Ids : Issued(i) /\ creds[i].chain = chain /\ ~ creds[i].revoked}

\* rotate up to its first UPDATE: the row, and, if it has been exchanged, the
\* rows of its chain.  Between the two nothing is written that is kept.
PresentRefresh(r) ==
  \E i \in Ids :
    /\ At(r, "idle")
    /\ Issued(i) /\ creds[i].kind = "refresh"
    /\ \/ /\ Usable(i)
          /\ req' = [req EXCEPT ![r] = Asking("exchanging", i, 0, {})]
       \/ /\ creds[i].revoked
          /\ req' = [req EXCEPT ![r] =
               Asking("breaking", i, 0, LiveInChain(creds[i].chain))]
    /\ UNCHANGED <<creds, holder, now, answered>>

\* Slip: the token that was exchanged stays as it was.
KeptAlive(t) == creds

\* row.revoked_at = utcnow().
Exchanged(t) == [creds EXCEPT ![t].revoked = TRUE]

\* The UPDATE of the old token, the INSERTs of the pair, the commit.  The
\* request holds no other lock while it waits for the first.
Exchange(r) ==
  LET t == req[r].caller
  IN  \E i, j \in Ids :
        /\ At(r, "exchanging")
        /\ Unlocked(t, r)
        /\ i # j /\ ~ Issued(i) /\ ~ Issued(j) /\ Room("refresh")
        /\ creds' = WithPair(Exchanged(t), i, j, creds[t].user, creds[t].chain)
        /\ Finish(r)
        /\ UNCHANGED <<now, answered>>

\* _check_not_replayed has flushed the revocation of the chain and raises:
\* db_session rolls it back.
RefuseReplay(r) ==
  /\ At(r, "breaking")
  /\ ToLock(r) = {}
  /\ Finish(r)
  /\ UNCHANGED <<creds, now, answered>>

-----------------------------------------------------------------------------
(* What else ends a request.                                               *)

\* The database picks r among the transactions of a circle.
BreakDeadlock(r) ==
  /\ InCircle(r, Wanted)
  /\ Finish(r)
  /\ UNCHANGED <<creds, now, answered>>

\* A disconnect, an exception or a crash: the transaction is rolled back.
\* (A refused replay is ending that way already: RefuseReplay.)
Abort(r) ==
  /\ ~ At(r, "idle")
  /\ ~ (At(r, "breaking") /\ ToLock(r) = {})
  /\ Finish(r)
  /\ UNCHANGED <<creds, now, answered>>

\* Bound: an exchange that finds no room for a pair gives up.
GiveUp(r) ==
  /\ At(r, "exchanging")
  /\ ~ Room("refresh") \/ Cardinality({i \in Ids : ~ Issued(i)}) < 2
  /\ Finish(r)
  /\ UNCHANGED <<creds, now, answered>>

ClockTick ==
  /\ now < Horizon
  /\ now' = now + 1
  /\ UNCHANGED <<creds, req, holder, answered>>

-----------------------------------------------------------------------------

Init ==
  /\ creds = [i \in Ids |-> Unissued]
  /\ req = [r \in Requests |-> Idle]
  /\ now = 0
  /\ answered = [i \in Ids |-> 0]
  /\ LocksInit

\* What request r does next by itself.
Progress(r) ==
  \/ Touch(r) \/ Leave(r) \/ Keep(r) \/ Mint(r)
  \/ SelectTarget(r) \/ SelectAll(r)
  \/ LockNext(r) \/ CommitRevocation(r)
  \/ Exchange(r) \/ RefuseReplay(r) \/ GiveUp(r)

Next ==
  \/ \E user \in Users : SignIn(user) \/ Grant(user)
  \/ \E r \in Requests :
       \/ Present(r) \/ Logout(r) \/ PresentRefresh(r)
       \/ Progress(r) \/ BreakDeadlock(r) \/ Abort(r)
  \/ ClockTick

Spec == Init /\ [][Next]_authVars

\* A statement is answered, a handler runs on, a client that is sending an
\* upload ends or disconnects; the database serves the waiters of a row in
\* turn (hence SF) and finds every deadlock.
FairSpec ==
  /\ Spec
  /\ \A r \in Requests : SF_authVars(Progress(r)) /\ WF_authVars(BreakDeadlock(r))

-----------------------------------------------------------------------------
(* Properties.                                                             *)

(* Rows, requests and locks have the shapes the code gives them, and a      *)
(* token of a grant carries the chain of that grant (model/token.py).       *)
AuthTypeOK ==
  /\ creds \in [Ids -> Credential \cup {Unissued}]
  /\ req \in [Requests -> Request \cup {Idle}]
  /\ LocksTypeOK
  /\ now \in Nat
  /\ answered \in [Ids -> Nat]
  /\ \A i \in Ids : Issued(i) =>
       (creds[i].chain # None) = (creds[i].kind \in {"access", "refresh"})

(* credentials.py, "revocable the moment someone pastes one", and sessions.py, *)
(* "revoke a session now": a revoked credential is never usable again,      *)
(* although requests that read its row before commit their stamps after.    *)
RevokedStaysRevoked ==
  [][\A i \in Ids : Issued(i) /\ creds[i].revoked
       => Issued(i)' /\ creds'[i].revoked]_authVars

(* revoke_all, "sign the account out everywhere": when it revokes anything  *)
(* it revokes every session that was signed in before it began, those that  *)
(* other requests were using included.                                      *)
EverywhereMeansAll ==
  [][\A r \in Requests :
       (/\ At(r, "leaving") /\ At(r, "idle")'
        /\ \E i \in req[r].doomed : ~ creds[i].revoked /\ creds'[i].revoked)
       => \A i \in Ids :
            (/\ Owned(i, "session", creds[req[r].caller].user)
             /\ creds[i].expires - SessionTTL < req[r].seen)
            => creds'[i].revoked]_authVars

(* sessions.py, "an abandoned browser stops being a way in": a session is   *)
(* accepted only within the idle window of its last answered request,       *)
(* however stamps of concurrent requests were ordered or lost.              *)
AbandonedStaysOut ==
  [][\A r \in Requests : LET i == req'[r].caller IN
       (At(r, "idle") /\ At(r, "touching")' /\ creds[i].kind = "session")
       => now < answered[i] + IdleTTL]_authVars

\* The stamp of request r is flushed: its handler runs.
Served(r) ==
  \/ req[r].pc \in {"serving", "leaving"}
  \/ At(r, "revoking") /\ req[r].caller # None

(* deps.py, current_user: the handlers of two requests never run for one    *)
(* credential at a time, although both may have passed its checks: the      *)
(* upload flow counts on it.                                                *)
OneAtATime ==
  \A r, s \in Requests :
    Served(r) /\ Served(s) /\ req[r].caller = req[s].caller => r = s

(* Whatever rows requests lock and in whatever order, every request ends:   *)
(* none waits for ever for a row.                                           *)
RequestsEnd == \A r \in Requests : ~ At(r, "idle") ~> At(r, "idle")

-----------------------------------------------------------------------------
(* What the repository says and the program does not keep.                 *)

(* sessions.resolve, "so the idle window tracks use": a session that nobody *)
(* is presenting, that is not revoked, not at its absolute end, and whose   *)
(* last answered request is within the idle window is still usable.         *)
IdleTracksUse ==
  \A i \in Ids :
    (/\ Issued(i) /\ creds[i].kind = "session"
     /\ \A r \in Requests : ~ At(r, "idle") => req[r].caller # i
     /\ ~ creds[i].revoked /\ now < creds[i].expires
     /\ now < answered[i] + IdleTTL)
    => Usable(i)

(* credentials.rotate, "Exchange a refresh token for a new pair,             *)
(* invalidating the old one": a grant has at most one refresh token that is *)
(* not revoked, whichever requests presented the old one and read its row   *)
(* before the first of them committed.                                      *)
OneLiveRefresh ==
  \A i, j \in Ids :
    (/\ Issued(i) /\ creds[i].kind = "refresh" /\ ~ creds[i].revoked
     /\ Issued(j) /\ creds[j].kind = "refresh" /\ ~ creds[j].revoked
     /\ creds[i].chain = creds[j].chain)
    => i = j

(* credentials.py, "Presenting one that has already been exchanged           *)
(* invalidates its whole chain": when the replay has been refused, the       *)
(* credentials of the chain are revoked.                                     *)
ReplayEndsGrant ==
  [][\A r \in Requests :
       (At(r, "breaking") /\ ToLock(r) = {} /\ At(r, "idle")')
       => \A i \in req[r].doomed : creds'[i].revoked]_authVars

=============================================================================
