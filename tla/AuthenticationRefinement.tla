---------------------- MODULE AuthenticationRefinement -----------------------
(***************************************************************************)
(* Authentication implements CredentialContract: the rows are the          *)
(* credentials, but for the stamps, and a request has presented a refresh  *)
(* token from the SELECT that found it good to its end.                    *)
(***************************************************************************)
EXTENDS Authentication

CardOf(row) ==
  IF row = Unissued THEN [kind |-> "free"]
  ELSE [kind |-> row.kind, user |-> row.user, family |-> row.chain,
        expires |-> row.expires, revoked |-> row.revoked]

Cards == [i \in Ids |-> CardOf(creds[i])]

Presented ==
  [r \in Requests |-> IF At(r, "exchanging") THEN req[r].caller ELSE None]

Lifetimes ==
  [kind \in Kinds \ {"pat"} |->
     CASE kind = "session" -> SessionTTL
       [] kind = "access"  -> AccessTTL
       [] kind = "refresh" -> RefreshTTL]

Promise == INSTANCE CredentialContract WITH
  cred <- Cards, presented <- Presented, Lifetime <- Lifetimes

(* Whatever requests had selected when they committed: nothing but the      *)
(* stamp of a credential changes after it was issued except that it is      *)
(* revoked, a revocation stays within one account, a token is minted for    *)
(* the account it was asked for by, and a grant goes on only by a request   *)
(* that found its refresh token good, which is revoked in that step         *)
(* (sessions.py, credentials.py).                                           *)
CredentialsKept == Promise!Spec

=============================================================================
