------------------------------ MODULE Directory ------------------------------
(***************************************************************************)
(* What accounts promise, without requests, races or handles: a directory  *)
(* of ways in.  A way in, an address or a provider account, leads nowhere  *)
(* or to one account.  An account is opened with an address of its own and *)
(* perhaps a provider account; other provider accounts join it later.      *)
(* Where a way in leads never changes.                                     *)
(***************************************************************************)
CONSTANTS AccountIds, Emails, Subjects

VARIABLE owners   \* owners[way]: the accounts a way in leads to

Ways == Emails \cup Subjects

Init == owners = [way \in Ways |-> {}]

\* An account that owns nothing yet is opened by way of an address and at
\* most one provider account.
Open(a, email, via) ==
  /\ \A way \in Ways : a \notin owners[way]
  /\ \A way \in {email} \cup via : owners[way] = {}
  /\ owners' = [way \in Ways |->
                  IF way \in {email} \cup via THEN {a} ELSE owners[way]]

\* A provider account joins an account that has been opened.
Join(a, p) ==
  /\ \E email \in Emails : owners[email] = {a}
  /\ owners[p] = {}
  /\ owners' = [owners EXCEPT ![p] = {a}]

Next ==
  \E a \in AccountIds :
    \/ \E email \in Emails, via \in {{}} \cup {{p} : p \in Subjects} :
         Open(a, email, via)
    \/ \E p \in Subjects : Join(a, p)

Spec == Init /\ [][Next]_owners

=============================================================================
