-------------------------- MODULE AccountsRefinement -------------------------
(***************************************************************************)
(* Accounts implements Directory: where a way in leads is read off the     *)
(* tables.                                                                 *)
(***************************************************************************)
EXTENDS Accounts

OwnersOf(way) ==
  IF way \in Subjects THEN ByIdentity(way)
  ELSE {a \in Existing : users[a].email = way}

Promise == INSTANCE Directory WITH
  owners <- [way \in Emails \cup Subjects |-> OwnersOf(way)]

(* However sign-ups and provider logins interleave and fail, the tables     *)
(* only ever open an account for an unused address and join a provider      *)
(* account to one; no way in is moved or shared (user.py, identity.py).     *)
DirectoryKept == Promise!Spec

=============================================================================
