-------------------------- MODULE UploadRefinement ---------------------------
(***************************************************************************)
(* UploadFlow implements UploadContract for accounts that work with one    *)
(* credential at a time.                                                   *)
(***************************************************************************)
EXTENDS UploadFlow

\* How far a slot has come, read off its row.
SlotOf(row) ==
  CASE row.state = "unissued" -> "free"
    [] row.state = "reserved" -> "held"
    [] row.state = "uploaded" -> "received"
    [] row.state \in {"verifying", "published"} -> "released"
    [] row.state = "gone" -> "dropped"

HolderOf(row) ==
  IF row.state \in {"reserved"} \cup STORED THEN row.owner ELSE None

BackingOf(row) == IF row.state \in STORED THEN row.key ELSE None

\* A file under a final name that is not the whole artifact is neither absent
\* nor whole: the contract has no such object.
ObjectOf(b) ==
  CASE disk[Final(b)] = None -> "absent"
    [] disk[Final(b)] = Image(b) -> "whole"
    [] OTHER -> "broken"

Slot == [u \in Uploads |-> SlotOf(rows[u])]

Holder == [u \in Uploads |-> HolderOf(rows[u])]

Backing == [u \in Uploads |-> BackingOf(rows[u])]

Object == [b \in Bodies |-> ObjectOf(b)]

Contract == INSTANCE UploadContract WITH
  Slots <- Uploads, Nothing <- None, SizeOf <- Size,
  slot <- Slot, holder <- Holder, backing <- Backing, object <- Object,
  charge <- ledger

\* Every behaviour of the service is one the contract allows: a slot goes
\* through its states in order, is received against a whole artifact, and its
\* owner is charged in that step alone.
ContractKept == Contract!Spec

=============================================================================
