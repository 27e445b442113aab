------------------------- MODULE CredentialContract --------------------------
(***************************************************************************)
(* What credentials promise, without requests, locks or stamps.            *)
(*                                                                         *)
(* A credential is issued once, to one account, with an end that is set    *)
(* then and never moved.  An account's access token is minted against a    *)
(* credential of the same account.  The tokens of a grant are a family:    *)
(* whoever presents a refresh token while it is good may exchange it for   *)
(* the pair that continues its family, and it is good no longer.           *)
(* What is revoked in one step is one account's, and stays revoked.        *)
(***************************************************************************)
EXTENDS Naturals

CONSTANTS
  Ids, Users, Requests, None,
  Lifetime   \* Lifetime[kind]: of a session, an access and a refresh token

VARIABLES
  cred,       \* cred[i]: credential i, or Free
  presented,  \* presented[r]: the refresh token r has presented, or None
  now

contractVars == <<cred, presented, now>>

Free == [kind |-> "free"]

Issued(i) == cred[i] # Free

Good(i) ==
  /\ Issued(i) /\ ~ cred[i].revoked
  /\ cred[i].expires # None => now < cred[i].expires

\* A personal access token has no end of its own.
New(kind, user, family) ==
  [kind |-> kind, user |-> user, family |-> family,
   expires |-> IF kind = "pat" THEN None ELSE now + Lifetime[kind],
   revoked |-> FALSE]

Pair(table, i, j, user, family) ==
  [table EXCEPT ![i] = New("access", user, family),
                ![j] = New("refresh", user, family)]

Init ==
  /\ cred = [i \in Ids |-> Free]
  /\ presented = [r \in Requests |-> None]
  /\ now = 0

SignIn(i, user) ==
  /\ ~ Issued(i)
  /\ cred' = [cred EXCEPT ![i] = New("session", user, None)]
  /\ UNCHANGED <<presented, now>>

\* Credential i is minted by whoever presented k.
Mint(i, k) ==
  /\ ~ Issued(i)
  /\ Issued(k) /\ cred[k].kind # "refresh"
  /\ cred' = [cred EXCEPT ![i] = New("pat", cred[k].user, None)]
  /\ UNCHANGED <<presented, now>>

\* A grant begins a family nobody belongs to.
Grant(i, j, user) ==
  /\ i # j /\ ~ Issued(i) /\ ~ Issued(j)
  /\ \A k \in Ids : Issued(k) => cred[k].family # i
  /\ cred' = Pair(cred, i, j, user, i)
  /\ UNCHANGED <<presented, now>>

Present(r, t) ==
  /\ presented[r] = None
  /\ Good(t) /\ cred[t].kind = "refresh"
  /\ presented' = [presented EXCEPT ![r] = t]
  /\ UNCHANGED <<cred, now>>

\* What r has presented, if anything.
Withdraw(r) ==
  /\ presented' = [presented EXCEPT ![r] = None]
  /\ UNCHANGED <<cred, now>>

\* And goes on with the pair of whoever presented a token of it.  Nothing keeps
\* two from presenting the same one before either exchanges it.
Exchange(r, i, j) ==
  LET t == presented[r]
  IN  /\ t # None
      /\ i # j /\ ~ Issued(i) /\ ~ Issued(j)
      /\ cred' = Pair([cred EXCEPT ![t].revoked = TRUE], i, j,
                      cred[t].user, cred[t].family)
      /\ presented' = [presented EXCEPT ![r] = None]
      /\ UNCHANGED now

\* Sessions of one account, or one personal access token.
Revoke(S) ==
  /\ \A i \in S : Issued(i)
  /\ \A i, j \in S : cred[i].user = cred[j].user
  /\ \/ \A i \in S : cred[i].kind = "session"
     \/ \E i \in Ids : S = {i} /\ cred[i].kind = "pat"
  /\ cred' = [i \in Ids |->
                IF i \in S THEN [cred[i] EXCEPT !.revoked = TRUE] ELSE cred[i]]
  /\ UNCHANGED <<presented, now>>

Tick ==
  /\ now' = now + 1
  /\ UNCHANGED <<cred, presented>>

Next ==
  \/ \E r \in Requests :
       \/ Withdraw(r)
       \/ \E t \in Ids : Present(r, t)
       \/ \E i, j \in Ids : Exchange(r, i, j)
  \/ Tick
  \/ \E S \in SUBSET Ids : Revoke(S)
  \/ \E i \in Ids, user \in Users : SignIn(i, user)
  \/ \E i, k \in Ids : Mint(i, k)
  \/ \E i, j \in Ids, user \in Users : Grant(i, j, user)

Spec == Init /\ [][Next]_contractVars

=============================================================================
