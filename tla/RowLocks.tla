------------------------------ MODULE RowLocks -------------------------------
(***************************************************************************)
(* Row locks of the database, as the hub's transactions meet them.         *)
(*                                                                         *)
(* An UPDATE is sent at the flush and locks its row until the transaction  *)
(* ends.  A second UPDATE of the row waits for that end and then goes on,  *)
(* whatever the first one wrote (READ COMMITTED).  When transactions wait  *)
(* for one another in a circle, the database rolls one of them back.       *)
(***************************************************************************)
CONSTANTS
  Ids,       \* primary keys
  Requests,  \* requests that can be in progress at one time, a transaction each
  None

VARIABLE holder  \* holder[i]: the request that has row i locked, or None

LocksTypeOK == holder \in [Ids -> Requests \cup {None}]

LocksInit == holder = [i \in Ids |-> None]

Held(r) == {i \in Ids : holder[i] = r}

Unlocked(i, r) == holder[i] \in {None, r}

Lock(i, r) ==
  /\ Unlocked(i, r)
  /\ holder' = [holder EXCEPT ![i] = r]

\* Commit and rollback.
Release(r) == holder' = [i \in Ids |-> IF holder[i] = r THEN None ELSE holder[i]]

\* Each of S waits for a row that another one of S has locked; wanted[r] is
\* the row request r waits to update, or None.
Waiting(S, wanted) ==
  \A r \in S : wanted[r] # None /\ holder[wanted[r]] \in S \ {r}

\* Request r is on a circle: a smallest set of that kind.
InCircle(r, wanted) ==
  \E S \in SUBSET Requests :
    /\ r \in S
    /\ Waiting(S, wanted)
    /\ \A T \in SUBSET S \ {{}} : Waiting(T, wanted) => T = S

=============================================================================
