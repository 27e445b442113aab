--------------------------- MODULE ContractProofs ----------------------------
(***************************************************************************)
(* The upload flow keeps the contract, for any number of accounts that     *)
(* work with one credential each.                                          *)
(*                                                                         *)
(* Under XInv an artifact is absent or whole, and artifacts stay, so a     *)
(* step that touches one final name lands that artifact or changes         *)
(* nothing.  The tables change in four steps, one for each of the other    *)
(* steps of the contract.                                                  *)
(***************************************************************************)
EXTENDS ExclusiveProofs, UploadRefinement

ContractVars == <<Slot, Holder, Backing, Object, ledger>>

KeepsContract == Contract!Next \/ UNCHANGED ContractVars

-----------------------------------------------------------------------------
(* The mapping.                                                            *)

LEMMA SlotFacts ==
  /\ SlotOf(Unissued) = "free" /\ SlotOf(Gone) = "dropped"
  /\ HolderOf(Unissued) = None /\ HolderOf(Gone) = None
  /\ BackingOf(Unissued) = None /\ BackingOf(Gone) = None
  /\ \A row \in Row :
       /\ row.state = "reserved" =>
            SlotOf(row) = "held" /\ BackingOf(row) = None
       /\ row.state = "uploaded" => SlotOf(row) = "received"
       /\ row.state \in {"verifying", "published"} => SlotOf(row) = "released"
       /\ row.state # "reserved" => BackingOf(row) = row.key
       /\ HolderOf(row) = row.owner
       /\ SlotOf(row) # "free"
<1>1. Gone.state = "gone" /\ Unissued.state = "unissued"
  BY RowFacts
<1>2. \A row \in Row :
        row.state \in {"reserved", "uploaded", "verifying", "published"}
  BY DEF Row, STORED
<1>3. /\ SlotOf(Unissued) = "free" /\ SlotOf(Gone) = "dropped"
      /\ HolderOf(Unissued) = None /\ HolderOf(Gone) = None
      /\ BackingOf(Unissued) = None /\ BackingOf(Gone) = None
  BY <1>1 DEF SlotOf, HolderOf, BackingOf, STORED
<1>4. \A row \in Row :
        /\ row.state = "reserved" =>
             SlotOf(row) = "held" /\ BackingOf(row) = None
        /\ row.state = "uploaded" => SlotOf(row) = "received"
        /\ row.state \in {"verifying", "published"} => SlotOf(row) = "released"
        /\ row.state # "reserved" => BackingOf(row) = row.key
        /\ HolderOf(row) = row.owner
        /\ SlotOf(row) # "free"
  BY <1>2 DEF SlotOf, HolderOf, BackingOf, STORED
<1> QED
  BY <1>3, <1>4

\* An artifact is absent or whole, and never both.
LEMMA ObjectFacts ==
  ASSUME ArtifactsComplete, NEW b \in Bodies
  PROVE  /\ ObjectOf(b) \in {"absent", "whole"}
         /\ ObjectOf(b) = "whole" <=> disk[Final(b)] = Image(b)
         /\ ObjectOf(b) = "whole" <=> Exists(Final(b))
<1>1. Image(b) # None
  BY StorageAssumption DEF Image
<1>2. disk[Final(b)] = None \/ disk[Final(b)] = Image(b)
  BY DEF ArtifactsComplete
<1> HIDE DEF Image
<1> QED
  BY <1>1, <1>2 DEF ObjectOf, Exists

\* A step that leaves the tables alone and touches one final name at most.
LEMMA Landing ==
  ASSUME XInv, XInv', ArtifactsKept, UNCHANGED <<rows, ledger>>,
         NEW b \in Bodies,
         \A a \in Bodies : a # b => disk'[Final(a)] = disk[Final(a)]
  PROVE  KeepsContract
<1>1. UNCHANGED <<Slot, Holder, Backing, ledger>>
  BY DEF Slot, Holder, Backing
<1>2. /\ ObjectOf(b) \in {"absent", "whole"}
      /\ ObjectOf(b)' \in {"absent", "whole"}
      /\ ObjectOf(b) = "whole" => ObjectOf(b)' = "whole"
  <2>1. /\ ObjectOf(b) \in {"absent", "whole"}
        /\ ObjectOf(b) = "whole" <=> Exists(Final(b))
    BY ObjectFacts DEF XInv
  <2>2. /\ ObjectOf(b)' \in {"absent", "whole"}
        /\ ObjectOf(b)' = "whole" <=> Exists(Final(b))'
    <3>1. Image(b) # None
      BY StorageAssumption DEF Image
    <3>2. disk'[Final(b)] = None \/ disk'[Final(b)] = Image(b)
      BY DEF XInv, ArtifactsComplete, Image
    <3> HIDE DEF Image
    <3> QED
      BY <3>1, <3>2 DEF ObjectOf, Exists, Image
  <2> QED
    BY <2>1, <2>2 DEF ArtifactsKept
<1>3. \A a \in Bodies : a # b => ObjectOf(a)' = ObjectOf(a)
  BY DEF ObjectOf
<1>4. CASE ObjectOf(b)' = ObjectOf(b)
  BY <1>1, <1>3, <1>4 DEF Object, KeepsContract, ContractVars
<1>5. CASE ObjectOf(b)' # ObjectOf(b)
  <2>1. Object[b] = "absent" /\ Object' = [Object EXCEPT ![b] = "whole"]
    BY <1>2, <1>3, <1>5 DEF Object
  <2>2. Contract!Land(b)
    BY <1>1, <2>1 DEF Contract!Land
  <2> QED
    BY <2>2 DEF Contract!Next, KeepsContract
<1> QED
  BY <1>4, <1>5

\* A step that touches no final name.
LEMMA NothingLands ==
  ASSUME \A b \in Bodies : disk'[Final(b)] = disk[Final(b)]
  PROVE  UNCHANGED Object
BY DEF Object, ObjectOf

LEMMA NothingSeen ==
  ASSUME UNCHANGED <<rows, ledger>>,
         \A b \in Bodies : disk'[Final(b)] = disk[Final(b)]
  PROVE  KeepsContract
BY NothingLands DEF KeepsContract, ContractVars, Slot, Holder, Backing

\* What changes with one row.
LEMMA OneRowChanges ==
  ASSUME XInv, NEW u \in Uploads, NEW row, rows' = [rows EXCEPT ![u] = row]
  PROVE  /\ Slot' = [Slot EXCEPT ![u] = SlotOf(row)]
         /\ Holder' = [Holder EXCEPT ![u] = HolderOf(row)]
         /\ Backing' = [Backing EXCEPT ![u] = BackingOf(row)]
<1>1. /\ rows'[u] = row
      /\ \A v \in Uploads : v # u => rows'[v] = rows[v]
  BY DEF XInv, IInv, TypeOK, QuotaTypeOK
<1>2. Slot' = [Slot EXCEPT ![u] = SlotOf(row)]
  <2>1. \A v \in Uploads :
          SlotOf(rows'[v]) = IF v = u THEN SlotOf(row) ELSE SlotOf(rows[v])
    BY <1>1
  <2> QED
    BY <2>1 DEF Slot
<1>3. Holder' = [Holder EXCEPT ![u] = HolderOf(row)]
  <2>1. \A v \in Uploads :
          HolderOf(rows'[v]) = IF v = u THEN HolderOf(row) ELSE HolderOf(rows[v])
    BY <1>1
  <2> QED
    BY <2>1 DEF Holder
<1>4. Backing' = [Backing EXCEPT ![u] = BackingOf(row)]
  <2>1. \A v \in Uploads :
          BackingOf(rows'[v]) = IF v = u THEN BackingOf(row) ELSE BackingOf(rows[v])
    BY <1>1
  <2> QED
    BY <2>1 DEF Backing
<1> QED
  BY <1>2, <1>3, <1>4

-----------------------------------------------------------------------------
(* The steps.                                                              *)

LEMMA InsertHolds ==
  ASSUME XInv, XInv', NEW c \in Callers, ReserveInsert(c)
  PROVE  KeepsContract
<1> DEFINE user == Account[c]
           row == Reserved(user, req[c])
<1>1. UNCHANGED <<disk, ledger>> /\ user \in Users
  BY FlowAssumption DEF ReserveInsert, storageVars
<1>2. CASE UNCHANGED rows
  BY <1>1, <1>2, NothingSeen
<1>3. CASE rows' # rows
  <2>1. PICK u \in Uploads :
          rows[u] = Unissued /\ rows' = [rows EXCEPT ![u] = row]
    BY <1>3 DEF ReserveInsert
  <2>2. /\ row.state = "reserved" /\ row.owner = user
    BY DEF Reserved
  <2> HIDE DEF row
  <2>3. rows'[u] = row
    BY <2>1 DEF XInv, IInv, TypeOK, QuotaTypeOK
  <2>4. row \in Row
    BY <2>2, <2>3, RowFacts DEF XInv, IInv, TypeOK, QuotaTypeOK
  <2>5. /\ SlotOf(row) = "held" /\ HolderOf(row) = user
        /\ BackingOf(row) = None
    BY <2>2, <2>4, SlotFacts
  <2>6. Slot[u] = "free" /\ Backing[u] = None
    BY <2>1, SlotFacts DEF Slot, Backing
  <2>7. /\ Slot' = [Slot EXCEPT ![u] = "held"]
        /\ Holder' = [Holder EXCEPT ![u] = user]
        /\ Backing' = [Backing EXCEPT ![u] = Backing[u]]
    <3>1. /\ Slot' = [Slot EXCEPT ![u] = SlotOf(row)]
          /\ Holder' = [Holder EXCEPT ![u] = HolderOf(row)]
          /\ Backing' = [Backing EXCEPT ![u] = BackingOf(row)]
      BY <2>1, OneRowChanges
    <3> QED
      BY <2>5, <2>6, <3>1
  <2>8. Backing' = Backing
    BY <2>7 DEF Backing
  <2>9. UNCHANGED Object
    BY <1>1, NothingLands
  <2>10. Contract!Hold(u, user)
    BY <1>1, <2>6, <2>7, <2>8, <2>9 DEF Contract!Hold
  <2> QED
    BY <1>1, <2>10 DEF Contract!Next, KeepsContract
<1> QED
  BY <1>2, <1>3

LEMMA ChargeReceives ==
  ASSUME XInv, XInv', NEW c \in Callers, PutCharge(c)
  PROVE  KeepsContract
<1> DEFINE r == req[c]
           u == req[c].upload
           b == req[c].body
           user == Account[c]
           row == [rows[u] EXCEPT !.key = b, !.state = "uploaded"]
<1>1. r.pc = "charging" /\ UNCHANGED disk
  BY DEF PutCharge, At, storageVars
<1>2. CASE rows[u] = Gone
  BY <1>1, <1>2, NothingSeen DEF PutCharge, tables
<1>3. CASE rows[u] # Gone
  <2>1. /\ u \in Uploads /\ b \in Bodies /\ user \in Users
        /\ rows[u] \in Row /\ rows[u].owner = user
        /\ rows[u].state = "reserved" /\ ledger[user][u] = 0
        /\ Exists(Final(b))
    BY <1>1, <1>3, RowHeld, FlowAssumption
    DEF XInv, IInv, TypeOK, QuotaTypeOK, OwnRow, Promised, PutSteps, HoldsRow,
        Uncharged
  <2>2. /\ rows' = [rows EXCEPT ![u] = row]
        /\ ledger' = [ledger EXCEPT ![user] =
                        [ledger[user] EXCEPT ![u] = @ + Size[b]]]
    BY <1>3, <2>1 DEF PutCharge, Charge, XInv, IInv, TypeOK, QuotaTypeOK
  <2>3. /\ row \in Row /\ row.owner = user
        /\ row.state = "uploaded" /\ row.key = b
    BY <2>1 DEF Row, STORED
  <2> HIDE DEF row, u, b, user
  <2>4. /\ SlotOf(row) = "received" /\ HolderOf(row) = user
        /\ BackingOf(row) = b
    BY <2>3, SlotFacts
  <2>5. Slot[u] = "held" /\ Holder[u] = user
    BY <2>1, SlotFacts DEF Slot, Holder
  <2>6. /\ Slot' = [Slot EXCEPT ![u] = "received"]
        /\ Holder' = [Holder EXCEPT ![u] = Holder[u]]
        /\ Backing' = [Backing EXCEPT ![u] = b]
    <3>1. /\ Slot' = [Slot EXCEPT ![u] = SlotOf(row)]
          /\ Holder' = [Holder EXCEPT ![u] = HolderOf(row)]
          /\ Backing' = [Backing EXCEPT ![u] = BackingOf(row)]
      BY <2>1, <2>2, OneRowChanges
    <3> QED
      BY <2>4, <2>5, <3>1
  <2>7. UNCHANGED Holder
    BY <2>6 DEF Holder
  <2>8. UNCHANGED Object
    BY <1>1, NothingLands
  <2>9. Object[b] = "whole"
    BY <2>1, ObjectFacts DEF XInv, Object
  <2>10. ledger' = [ledger EXCEPT ![Holder[u]][u] = Size[b]]
    <3>1. Size[b] \in Nat
      BY <2>1, StorageAssumption
    <3>2. ledger' = [ledger EXCEPT ![user] =
                       [ledger[user] EXCEPT ![u] = Size[b]]]
      <4>1. ledger[user][u] + Size[b] = Size[b]
        BY <2>1, <3>1
      <4> QED
        BY <2>2, <4>1
    <3>3. Holder[u] = user
      BY <2>5
    <3> HIDE DEF Holder
    <3> QED
      BY <3>2, <3>3
  <2>11. ledger[Holder[u]][u] = 0
    BY <2>1, <2>5
  <2>12. Contract!Receive(u, b)
    BY <2>5, <2>6, <2>7, <2>8, <2>9, <2>10, <2>11 DEF Contract!Receive
  <2> QED
    BY <2>1, <2>12 DEF Contract!Next, KeepsContract
<1> QED
  BY <1>2, <1>3

LEMMA CommitReleases ==
  ASSUME XInv, XInv', NEW c \in Callers, CommitWrite(c)
  PROVE  KeepsContract
<1> DEFINE u == req[c].upload
           row == [rows[u] EXCEPT !.state = CommittedState]
<1>1. req[c].pc = "publishing" /\ UNCHANGED <<disk, ledger>>
  BY DEF CommitWrite, At, storageVars
<1>2. CASE rows[u] = Gone
  BY <1>1, <1>2, NothingSeen DEF CommitWrite
<1>3. CASE rows[u] # Gone
  <2>1. /\ u \in Uploads /\ rows[u] \in Row /\ rows[u].state = "uploaded"
    <3>1. u \in Uploads /\ HoldsRow(c)
      BY <1>1, RequestOfStep DEF XInv, IInv, TypeOK, CommitRequests
    <3>2. rows[u].state = "uploaded"
      BY <1>1, <1>3, <3>1 DEF HoldsRow
    <3> QED
      BY <1>3, <3>1, <3>2, RowFacts DEF XInv, IInv, TypeOK, QuotaTypeOK
  <2>2. rows' = [rows EXCEPT ![u] = row]
    BY <1>3, <2>1 DEF CommitWrite, Row
  <2>3. /\ row \in Row /\ row.owner = rows[u].owner /\ row.key = rows[u].key
        /\ row.state \in {"verifying", "published"}
    BY <2>1 DEF Row, STORED, CommittedState
  <2> HIDE DEF row, u
  <2>4. /\ SlotOf(row) = "released"
        /\ HolderOf(row) = HolderOf(rows[u])
        /\ BackingOf(row) = BackingOf(rows[u])
        /\ SlotOf(rows[u]) = "received"
    BY <2>1, <2>3, SlotFacts
  <2>5. /\ Slot' = [Slot EXCEPT ![u] = "released"]
        /\ Holder' = [Holder EXCEPT ![u] = Holder[u]]
        /\ Backing' = [Backing EXCEPT ![u] = Backing[u]]
        /\ Slot[u] = "received"
    <3>1. /\ Slot' = [Slot EXCEPT ![u] = SlotOf(row)]
          /\ Holder' = [Holder EXCEPT ![u] = HolderOf(row)]
          /\ Backing' = [Backing EXCEPT ![u] = BackingOf(row)]
      BY <2>1, <2>2, OneRowChanges
    <3>2. /\ Holder[u] = HolderOf(rows[u]) /\ Backing[u] = BackingOf(rows[u])
          /\ Slot[u] = SlotOf(rows[u])
      BY <2>1 DEF Slot, Holder, Backing
    <3> QED
      BY <2>4, <3>1, <3>2
  <2>6. UNCHANGED <<Holder, Backing>>
    BY <2>5 DEF Holder, Backing
  <2>7. UNCHANGED Object
    BY <1>1, NothingLands
  <2>8. Contract!Release(u)
    BY <1>1, <2>5, <2>6, <2>7 DEF Contract!Release
  <2> QED
    BY <2>1, <2>8 DEF Contract!Next, KeepsContract
<1> QED
  BY <1>2, <1>3

LEMMA SweepDrops ==
  ASSUME XInv, XInv', SweepDelete
  PROVE  KeepsContract
<1> DEFINE U == sweep.doomed
<1>1. /\ UNCHANGED <<disk, ledger>>
      /\ \A u \in Uploads : rows'[u] = IF u \in U THEN Gone ELSE rows[u]
      /\ U \in SUBSET Uploads
  BY DEF SweepDelete, storageVars, XInv, IInv, TypeOK, Sweeps
<1>2. \A u \in U : Slot[u] # "free"
  BY <1>1, SlotFacts
  DEF XInv, SweepSound, Slot, IInv, TypeOK, QuotaTypeOK
<1> HIDE DEF U
<1>3. /\ Slot' = [u \in Uploads |-> IF u \in U THEN "dropped" ELSE Slot[u]]
      /\ Holder' = [u \in Uploads |-> IF u \in U THEN None ELSE Holder[u]]
      /\ Backing' = [u \in Uploads |-> IF u \in U THEN None ELSE Backing[u]]
  BY <1>1, SlotFacts DEF Slot, Holder, Backing
<1>4. UNCHANGED Object
  BY <1>1, NothingLands
<1>5. Contract!Drop(U)
  BY <1>1, <1>2, <1>3, <1>4 DEF Contract!Drop
<1> QED
  BY <1>1, <1>5 DEF Contract!Next, KeepsContract

\* The steps of a transfer before its charge.
LEMMA TransferLands ==
  ASSUME XInv, XInv', ArtifactsKept, NEW c \in Callers, Put(c), ~ PutCharge(c)
  PROVE  KeepsContract
<1> DEFINE r == req[c]
<1>1. UNCHANGED <<rows, ledger>>
  BY DEF Put, PutSelect, PutOpen, PutChunk, PutOverrun, PutMeasure, PutDiscard,
         PutUnwind, AfterRefusal, PutPromote, PutDrop, PutReplace, quotaVars
<1>2. StorageInv
  BY DEF XInv, IInv, TypeOK, StorageInv
<1>3. CASE UNCHANGED disk
  BY <1>1, <1>3, NothingSeen
<1>4. CASE r.pc \in PutSteps /\ OpenStaging(c, r.upload)
  BY <1>1, <1>2, <1>4, RowHeld, OpenFiles, NothingSeen DEF OnlyStaging
<1>5. CASE PutChunk(c)
  <2>1. /\ r.pc = "streaming" /\ WriteChunk(c, r.body)
    BY <1>5 DEF PutChunk, At
  <2>2. /\ r.upload \in Uploads /\ r.body \in Bodies /\ HoldsFile(c)
    BY <2>1, RowHeld DEF PutSteps
  <2>3. handle[c].path \in {Staging(r.upload), Unlinked}
    BY <2>1, <2>2 DEF HoldsFile
  <2> QED
    BY <1>1, <1>2, <2>1, <2>2, <2>3, WriteFiles, NothingSeen DEF OnlyStaging
<1>6. CASE r.pc \in PutSteps /\ Discard(r.upload)
  BY <1>1, <1>2, <1>6, RowHeld, DiscardFiles, NothingSeen DEF OnlyStaging
<1>7. CASE r.pc \in PutSteps /\ Replace(r.upload, r.body)
  BY <1>1, <1>2, <1>7, RowHeld, ReplaceFiles, Landing
<1> QED
  BY <1>3, <1>4, <1>5, <1>6, <1>7
  DEF Put, PutSelect, PutOpen, PutOverrun, PutMeasure, PutDiscard, PutUnwind,
      PutPromote, PutDrop, PutReplace, CloseHandle, storageVars, At, PutSteps

LEMMA StepKeepsContract ==
  OneCredential /\ XInv /\ [Next]_vars => KeepsContract
<1> SUFFICES ASSUME OneCredential, XInv, [Next]_vars PROVE KeepsContract
  OBVIOUS
<1>1. XInv' /\ ArtifactsKept
  BY StepXInv, StepIInv DEF XInv
<1>2. ASSUME NEW c \in Callers, Reserve(c) PROVE KeepsContract
  BY <1>1, <1>2, InsertHolds, NothingSeen
  DEF Reserve, ReserveBegin, ReserveCheck, storageVars, quotaVars
<1>3. ASSUME NEW c \in Callers, Put(c) PROVE KeepsContract
  BY <1>1, <1>3, ChargeReceives, TransferLands
<1>4. ASSUME NEW c \in Callers, Commit(c) \/ Abort(c) PROVE KeepsContract
  BY <1>1, <1>4, CommitReleases, NothingSeen
  DEF Commit, CommitSelect, Abort, CloseHandle, storageVars, quotaVars
<1>5. CASE Sweep
  <2>1. ASSUME NEW u \in Uploads, SweepDiscard(u) PROVE KeepsContract
    <3>1. Discard(u) /\ UNCHANGED <<rows, ledger>> /\ StorageInv
      BY <2>1 DEF SweepDiscard, quotaVars, XInv, IInv, TypeOK, StorageInv
    <3> QED
      BY <3>1, DiscardFiles, NothingSeen DEF OnlyStaging
  <2> QED
    BY <1>1, <1>5, <2>1, SweepDrops, NothingSeen
    DEF Sweep, SweepSelect, SweepAbort, storageVars, quotaVars
<1>6. CASE ClockTick \/ UNCHANGED vars
  BY <1>6, NothingSeen DEF ClockTick, Tick, vars, storageVars
<1> QED
  BY <1>2, <1>3, <1>4, <1>5, <1>6 DEF Next

\* Whatever requests, crashes and sweeps do, a slot goes through its states in
\* order, is received against a whole artifact, and its owner is charged in
\* that step alone.
THEOREM UploadsKeepContract ==
  ASSUME OneCredential PROVE Spec => ContractKept
<1>1. Init => Contract!Init
  <2> SUFFICES ASSUME Init PROVE Contract!Init
    OBVIOUS
  <2>1. /\ \A u \in Uploads : rows[u] = Unissued
        /\ \A b \in Bodies : disk[Final(b)] = None
        /\ ledger = [user \in Users |-> [u \in Uploads |-> 0]]
    BY PathFacts DEF Init, StorageInit, QuotaInit
  <2>2. Object = [b \in Bodies |-> "absent"]
    <3>1. ASSUME NEW b \in Bodies PROVE ObjectOf(b) = "absent"
      BY <2>1, InitXInv, ObjectFacts DEF XInv, Exists
    <3> QED
      BY <3>1 DEF Object
  <2> QED
    BY <2>1, <2>2, SlotFacts DEF Contract!Init, Slot, Holder, Backing
<1>2. XInv /\ [Next]_vars => [Contract!Next]_ContractVars
  BY StepKeepsContract DEF KeepsContract
<1>3. XInv /\ [Next]_vars => XInv'
  BY StepXInv
<1> QED
  BY <1>1, <1>2, <1>3, InitXInv, PTL
  DEF Spec, ContractKept, Contract!Spec, Contract!contractVars, ContractVars

=============================================================================
