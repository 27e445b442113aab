--------------------------- MODULE UploadContract ----------------------------
(***************************************************************************)
(* What the upload service promises, without requests, files or clocks.    *)
(*                                                                         *)
(* A slot is held for an account, then received, then released to the      *)
(* catalog; at any point after it was granted it may be dropped.  An       *)
(* artifact is absent or whole, and once whole it stays.  A slot is        *)
(* received only against a whole artifact, and in that step, and no other, *)
(* the account it was held for is charged, and no other account ever.      *)
(*                                                                         *)
(* The promise is what a publisher and an auditor rely on: what is visible *)
(* is backed by bytes, and the ledger has one charge per received upload.  *)
(***************************************************************************)
EXTENDS Naturals

CONSTANTS
  Slots,    \* upload ids
  Users,    \* accounts
  Bodies,   \* artifacts, named by their digests
  Nothing,  \* the holder and the backing of a slot that has none
  SizeOf    \* SizeOf[b]: what artifact b costs

VARIABLES
  slot,     \* slot[u]: how far the upload has come
  holder,   \* holder[u]: the account the slot is held for
  backing,  \* backing[u]: the artifact a received slot names
  object,   \* object[b]: "absent" or "whole"
  charge    \* charge[user][u]: what the account was charged for the upload

contractVars == <<slot, holder, backing, object, charge>>

Init ==
  /\ slot = [u \in Slots |-> "free"]
  /\ holder = [u \in Slots |-> Nothing]
  /\ backing = [u \in Slots |-> Nothing]
  /\ object = [b \in Bodies |-> "absent"]
  /\ charge = [user \in Users |-> [u \in Slots |-> 0]]

Hold(u, user) ==
  /\ slot[u] = "free"
  /\ slot' = [slot EXCEPT ![u] = "held"]
  /\ holder' = [holder EXCEPT ![u] = user]
  /\ UNCHANGED <<backing, object, charge>>

\* An artifact lands on the volume, whole, whether or not a slot ever names it.
Land(b) ==
  /\ object[b] = "absent"
  /\ object' = [object EXCEPT ![b] = "whole"]
  /\ UNCHANGED <<slot, holder, backing, charge>>

Receive(u, b) ==
  /\ slot[u] = "held"
  /\ object[b] = "whole"
  /\ charge[holder[u]][u] = 0
  /\ slot' = [slot EXCEPT ![u] = "received"]
  /\ backing' = [backing EXCEPT ![u] = b]
  /\ charge' = [charge EXCEPT ![holder[u]][u] = SizeOf[b]]
  /\ UNCHANGED <<holder, object>>

Release(u) ==
  /\ slot[u] = "received"
  /\ slot' = [slot EXCEPT ![u] = "released"]
  /\ UNCHANGED <<holder, backing, object, charge>>

\* The sweep drops a set of slots at once.  It means to drop held ones, but
\* one received since it looked is dropped too, and its charge stays.
Drop(U) ==
  /\ \A u \in U : slot[u] # "free"
  /\ slot' = [u \in Slots |-> IF u \in U THEN "dropped" ELSE slot[u]]
  /\ holder' = [u \in Slots |-> IF u \in U THEN Nothing ELSE holder[u]]
  /\ backing' = [u \in Slots |-> IF u \in U THEN Nothing ELSE backing[u]]
  /\ UNCHANGED <<object, charge>>

Next ==
  \/ \E U \in SUBSET Slots : Drop(U)
  \/ \E u \in Slots, user \in Users : Hold(u, user)
  \/ \E u \in Slots : Release(u)
  \/ \E b \in Bodies : Land(b)
  \/ \E u \in Slots, b \in Bodies : Receive(u, b)

Spec == Init /\ [][Next]_contractVars

=============================================================================
