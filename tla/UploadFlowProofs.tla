-------------------------- MODULE UploadFlowProofs ---------------------------
(***************************************************************************)
(* What holds of UploadFlow for every number of accounts, credentials,     *)
(* uploads and artifacts, for any limits and any horizon.                  *)
(*                                                                         *)
(* A stored version is backed by bytes and charged for.  Neither fact is   *)
(* inductive: the step that makes a version "stored" relies on what its    *)
(* transfer learned steps earlier, when other requests and the sweep could *)
(* run in between.  IInv adds what survives that wait.                     *)
(***************************************************************************)
EXTENDS UploadFlow, TLAPS

\* An open handle that has a path is on a file that exists.
HandleOnFile ==
  \A c \in Callers : handle[c].path \in Paths => Exists(handle[c].path)

StorageInv == StorageTypeOK /\ HandleOnFile

\* A request knows its upload by a row of the caller's own.  The row may be
\* gone by now, but whatever is still there is what the handler's copy says.
OwnRow(c) ==
  LET r == req[c]
  IN  /\ r.pc \in PutSteps =>
           /\ rows[r.upload] # Unissued
           /\ rows[r.upload] # Gone =>
                /\ rows[r.upload].owner = Account[c]
                /\ rows[r.upload].sha256 = r.row.sha256
                /\ rows[r.upload].size = r.row.size
      /\ r.pc = "publishing" => rows[r.upload] = Gone \/ Stored(r.upload)

\* What a transfer past its measurement has established, and what one about
\* to be charged has put on the volume.
Promised(c) ==
  LET r == req[c]
  IN  /\ r.pc \in {"promoting", "dropping", "replacing", "charging"} =>
           Measured(r)
      /\ r.pc \in {"dropping", "charging"} => Exists(Final(r.body))

IInv ==
  /\ TypeOK
  /\ HandleOnFile
  /\ \A c \in Callers : OwnRow(c) /\ Promised(c)
  /\ StoredHasBytes
  /\ StoredIsCharged

\* Every artifact on the volume is still there after the step.
ArtifactsKept ==
  \A b \in Bodies : Exists(Final(b)) => Exists(Final(b))'

-----------------------------------------------------------------------------
(* The volume.                                                             *)

\* The two directories are disjoint, and no path stands for a handle that has
\* none: what Staging and Final of volume.py give every operation below.
LEMMA PathFacts ==
  /\ \A u \in Uploads : Staging(u) \in Paths
  /\ \A b \in Bodies : Final(b) \in Paths
  /\ \A u, b : Staging(u) # Final(b)
  /\ \A b, d : Final(b) = Final(d) => b = d
  /\ Nowhere \notin Paths
  /\ Unlinked \notin Paths
BY DEF Staging, Final, Paths, Nowhere, Unlinked

\* open("wb") on a staging path: the file it creates is well formed, and the
\* handles another transfer had on the path are still on a file.
LEMMA OpenKeeps ==
  ASSUME StorageInv, NEW c \in Callers, NEW u \in Uploads, OpenStaging(c, u)
  PROVE  StorageInv' /\ ArtifactsKept
<1>1. Blank \in Contents
  BY DEF Blank, Contents
<1>2. None # Blank
  BY <1>1, StorageAssumption DEF Contents
<1>3. StorageTypeOK'
  BY <1>1, PathFacts, StorageAssumption
  DEF StorageInv, StorageTypeOK, OpenStaging, Handles
<1>4. HandleOnFile'
  BY <1>2, PathFacts
  DEF StorageInv, StorageTypeOK, HandleOnFile, OpenStaging, Exists
<1>5. ArtifactsKept
  BY PathFacts DEF StorageInv, StorageTypeOK, ArtifactsKept, OpenStaging, Exists
<1> QED
  BY <1>3, <1>4, <1>5 DEF StorageInv

\* A write goes to a file that exists or to one that no path leads to.
LEMMA WriteKeeps ==
  ASSUME StorageInv, NEW c \in Callers, NEW b \in Bodies, WriteChunk(c, b),
         handle[c].at < MaxBytes
  PROVE  StorageInv' /\ ArtifactsKept
<1> DEFINE p == handle[c].path
           n == handle[c].at + 1
<1>1. n \in 1..MaxBytes /\ handle[c] \in Handles
  BY StorageAssumption DEF StorageInv, StorageTypeOK, Handles
<1>2. p \in Paths => disk[p] \in Contents
  BY DEF StorageInv, StorageTypeOK, HandleOnFile, Exists
<1>3. p \in Paths => [disk[p] EXCEPT ![n] = b] \in Contents
  BY <1>1, <1>2 DEF Contents
<1>4. /\ disk' = IF p \in Paths
                 THEN [disk EXCEPT ![p] = [disk[p] EXCEPT ![n] = b]]
                 ELSE disk
      /\ handle' = [handle EXCEPT ![c].at = n]
  BY DEF WriteChunk
<1> HIDE DEF n
<1>5. StorageTypeOK'
  BY <1>1, <1>3, <1>4 DEF StorageInv, StorageTypeOK, Handles
<1>6. \A q \in Paths : disk[q] # None => disk'[q] # None
  BY <1>3, <1>4, StorageAssumption DEF StorageInv, StorageTypeOK, Contents
<1>7. HandleOnFile'
  BY <1>1, <1>4, <1>6
  DEF StorageInv, StorageTypeOK, HandleOnFile, Exists, Handles
<1>8. ArtifactsKept
  BY <1>6, PathFacts DEF ArtifactsKept, Exists
<1> QED
  BY <1>5, <1>7, <1>8 DEF StorageInv

LEMMA CloseKeeps ==
  ASSUME StorageInv, NEW c \in Callers, CloseHandle(c)
  PROVE  StorageInv' /\ ArtifactsKept
<1>1. Closed \in Handles
  BY StorageAssumption DEF Closed, Handles
<1>2. StorageTypeOK'
  BY <1>1 DEF StorageInv, StorageTypeOK, CloseHandle
<1>3. HandleOnFile'
  BY PathFacts
  DEF StorageInv, StorageTypeOK, HandleOnFile, CloseHandle, Closed, Exists
<1>4. ArtifactsKept
  BY DEF CloseHandle, ArtifactsKept, Exists
<1> QED
  BY <1>2, <1>3, <1>4 DEF StorageInv

\* Unlinking a staging file takes its handles off every path.
LEMMA DiscardKeeps ==
  ASSUME StorageInv, NEW u \in Uploads, Discard(u)
  PROVE  StorageInv' /\ ArtifactsKept
<1>1. StorageTypeOK'
  BY PathFacts DEF StorageInv, StorageTypeOK, Discard, Follow, Handles
<1>2. HandleOnFile'
  BY PathFacts
  DEF StorageInv, StorageTypeOK, HandleOnFile, Discard, Follow, Handles, Exists
<1>3. ArtifactsKept
  BY PathFacts DEF StorageInv, StorageTypeOK, Discard, ArtifactsKept, Exists
<1> QED
  BY <1>1, <1>2, <1>3 DEF StorageInv

\* The rename puts a file under the final name, and takes none away.
LEMMA ReplaceKeeps ==
  ASSUME StorageInv, NEW u \in Uploads, NEW b \in Bodies, Replace(u, b)
  PROVE  StorageInv' /\ ArtifactsKept /\ Exists(Final(b))'
<1> DEFINE src == Staging(u)
           dst == Final(b)
<1>1. src \in Paths /\ dst \in Paths /\ src # dst
  BY PathFacts
<1>2. disk[src] \in Contents /\ disk[src] # None
  BY <1>1 DEF StorageInv, StorageTypeOK, Replace, Exists
<1>3. /\ disk' = [disk EXCEPT ![dst] = disk[src], ![src] = None]
      /\ handle' = [c \in Callers |->
                      Follow(Follow(handle[c], dst, Unlinked), src, dst)]
  BY DEF Replace
<1>4. \A b2 \in Bodies : Final(b2) # src
  BY PathFacts
<1> HIDE DEF src, dst
<1>5. StorageTypeOK'
  BY <1>1, <1>2, <1>3 DEF StorageInv, StorageTypeOK, Follow, Handles
<1>6. HandleOnFile'
  BY <1>1, <1>2, <1>3, PathFacts
  DEF StorageInv, StorageTypeOK, HandleOnFile, Follow, Handles, Exists
<1>7. disk'[dst] # None
  BY <1>1, <1>2, <1>3 DEF StorageInv, StorageTypeOK
<1>8. ArtifactsKept
  BY <1>1, <1>2, <1>3, <1>4, PathFacts
  DEF StorageInv, StorageTypeOK, ArtifactsKept, Exists
<1> QED
  BY <1>5, <1>6, <1>7, <1>8 DEF StorageInv, Exists, dst

LEMMA StillVolume ==
  ASSUME StorageInv, UNCHANGED storageVars
  PROVE  StorageInv' /\ ArtifactsKept
BY DEF storageVars, StorageInv, StorageTypeOK, HandleOnFile, ArtifactsKept,
       Exists

-----------------------------------------------------------------------------
(* The requests.                                                           *)

\* The step a request is at says which record it is.
LEMMA RequestOfStep ==
  ASSUME req \in [Callers -> Requests], NEW c \in Callers
  PROVE  /\ req[c].pc \in PutSteps => req[c] \in PutRequests
         /\ req[c].pc = "checking" => req[c] \in ReserveRequests
         /\ req[c].pc = "inserting" => req[c] \in InsertRequests
         /\ req[c].pc = "publishing" => req[c] \in CommitRequests
BY DEF Requests, Idle, PutSteps, PutRequests, ReserveRequests,
       InsertRequests, CommitRequests

\* No request but c's changes.
OthersWait(c) == \A d \in Callers : d # c => req'[d] = req[d]

\* A transfer that goes on to its next step keeps everything it knows.
LEMMA PutGoesOn ==
  ASSUME req \in [Callers -> Requests], NEW c \in Callers,
         req[c].pc \in PutSteps, NEW pc \in PutSteps, Goto(c, pc)
  PROVE  /\ req' \in [Callers -> Requests]
         /\ OthersWait(c)
         /\ req'[c] \in PutRequests
         /\ req'[c].pc = pc
         /\ req'[c].upload = req[c].upload
         /\ req'[c].row = req[c].row
         /\ req'[c].body = req[c].body
<1>1. req[c] \in PutRequests
  BY RequestOfStep
<1>2. /\ req' = [req EXCEPT ![c] = [req[c] EXCEPT !.pc = pc]]
      /\ [req[c] EXCEPT !.pc = pc] \in PutRequests
  BY <1>1 DEF Goto, PutRequests
<1> QED
  BY <1>1, <1>2 DEF OthersWait, Requests, PutRequests

LEMMA RequestEnds ==
  ASSUME req \in [Callers -> Requests], NEW c \in Callers, Finish(c)
  PROVE  /\ req' \in [Callers -> Requests]
         /\ OthersWait(c)
         /\ OwnRow(c)'
         /\ Promised(c)'
<1>1. req' \in [Callers -> Requests] /\ OthersWait(c) /\ req'[c] = Idle
  BY DEF Finish, Requests, OthersWait
<1> QED
  BY <1>1 DEF OwnRow, Promised, Idle, PutSteps

-----------------------------------------------------------------------------
(* What a step does to the rows other requests know about.                 *)

\* A row may go away, but while it is there its identity does not change and
\* a stored version stays stored.
RowsKept ==
  \A u \in Uploads : rows[u] # Unissued =>
    /\ rows'[u] # Unissued
    /\ rows'[u] # Gone =>
         /\ rows[u] # Gone
         /\ rows'[u].owner = rows[u].owner
         /\ rows'[u].sha256 = rows[u].sha256
         /\ rows'[u].size = rows[u].size
         /\ Stored(u) => Stored(u)'

\* What a request relied on still holds after somebody else's step.
LEMMA RequestUndisturbed ==
  ASSUME IInv, NEW d \in Callers, req'[d] = req[d], RowsKept, ArtifactsKept
  PROVE  OwnRow(d)' /\ Promised(d)'
<1> DEFINE r == req[d]
<1>1. OwnRow(d) /\ Promised(d) /\ req \in [Callers -> Requests]
  BY DEF IInv, TypeOK
<1>2. CASE r.pc \in PutSteps
  <2>1. r \in PutRequests
    BY <1>1, <1>2, RequestOfStep
  <2>2. r.upload \in Uploads /\ r.body \in Bodies
    BY <2>1 DEF PutRequests
  <2>3. OwnRow(d)'
    BY <1>1, <1>2, <2>2 DEF OwnRow, RowsKept, PutSteps
  <2>4. Promised(d)'
    BY <1>1, <1>2, <2>2 DEF Promised, ArtifactsKept, Measured
  <2> QED
    BY <2>3, <2>4
<1>3. CASE r.pc = "publishing"
  <2>1. r.upload \in Uploads
    BY <1>1, <1>3, RequestOfStep DEF CommitRequests
  <2>2. rows[r.upload] # Unissued
    BY <1>1, <1>3 DEF OwnRow, Stored, STORED, Unissued, Gone
  <2> QED
    BY <1>1, <1>3, <2>1, <2>2 DEF OwnRow, Promised, RowsKept, PutSteps
<1>4. CASE r.pc \notin PutSteps \cup {"publishing"}
  BY <1>4 DEF OwnRow, Promised, PutSteps
<1> QED
  BY <1>2, <1>3, <1>4

\* Everything IInv says is kept by a step of one caller that keeps the parts.
LEMMA CallerStep ==
  ASSUME IInv, NEW c \in Callers,
         StorageInv', ArtifactsKept, QuotaTypeOK', RowsKept,
         req' \in [Callers -> Requests], OthersWait(c), sweep' \in Sweeps,
         OwnRow(c)', Promised(c)', StoredHasBytes', StoredIsCharged'
  PROVE  IInv' /\ ArtifactsKept
<1>1. ASSUME NEW d \in Callers PROVE OwnRow(d)' /\ Promised(d)'
  <2>1. CASE d = c
    BY <2>1
  <2>2. CASE d # c
    BY <2>2, RequestUndisturbed DEF OthersWait
  <2> QED
    BY <2>1, <2>2
<1> QED
  BY <1>1 DEF IInv, TypeOK, StorageInv

\* A step that leaves the rows and the ledger alone keeps what they say.
LEMMA TablesStill ==
  ASSUME IInv, ArtifactsKept, UNCHANGED <<rows, models, ledger>>, now' \in Nat
  PROVE  QuotaTypeOK' /\ RowsKept /\ StoredHasBytes' /\ StoredIsCharged'
<1>1. QuotaTypeOK'
  BY DEF IInv, TypeOK, QuotaTypeOK
<1>2. RowsKept
  BY DEF RowsKept, Stored
<1>3. StoredIsCharged'
  BY DEF IInv, StoredIsCharged, Stored
<1>4. StoredHasBytes'
  <2> SUFFICES ASSUME NEW u \in Uploads, Stored(u)
               PROVE  /\ rows[u].key = rows[u].sha256
                      /\ Exists(Final(rows[u].key))'
    BY DEF StoredHasBytes, Stored, Exists
  <2>1. rows[u] \in Row
    BY DEF IInv, TypeOK, QuotaTypeOK, Stored, STORED, Unissued, Gone
  <2>2. rows[u].key = rows[u].sha256 /\ Exists(Final(rows[u].key))
    BY DEF IInv, StoredHasBytes
  <2>3. rows[u].key \in Bodies
    BY <2>1, <2>2 DEF Row
  <2> QED
    BY <2>2, <2>3 DEF ArtifactsKept
<1> QED
  BY <1>1, <1>2, <1>3, <1>4

-----------------------------------------------------------------------------
(* One lemma per handler.                                                  *)

\* The steps of a request that leave the volume and the tables alone.
LEMMA ReserveReads ==
  ASSUME IInv, NEW c \in Callers, ReserveBegin(c) \/ ReserveCheck(c)
  PROVE  IInv' /\ ArtifactsKept
<1>1. StorageInv' /\ ArtifactsKept
  BY StillVolume DEF ReserveBegin, ReserveCheck, IInv, TypeOK, StorageInv
<1>2. QuotaTypeOK' /\ RowsKept /\ StoredHasBytes' /\ StoredIsCharged'
  BY <1>1, TablesStill
  DEF ReserveBegin, ReserveCheck, quotaVars, IInv, TypeOK, QuotaTypeOK
<1>3. /\ req' \in [Callers -> Requests] /\ OthersWait(c)
      /\ OwnRow(c)' /\ Promised(c)'
  <2>1. CASE Finish(c)
    BY <2>1, RequestEnds DEF IInv, TypeOK
  <2>2. CASE ReserveBegin(c)
    <3>1. PICK slug \in Slugs, version \in Versions, claim \in Claims :
            req' = [req EXCEPT ![c] =
              [pc |-> "checking", slug |-> slug, version |-> version,
               sha256 |-> claim[1], size |-> claim[2],
               entries |-> ledger[Account[c]]]]
      BY <2>2 DEF ReserveBegin
    <3>2. claim[1] \in Bodies /\ claim[2] \in Nat \ {0}
      BY FlowAssumption
    <3>3. ledger[Account[c]] \in [Uploads -> Nat]
      BY FlowAssumption DEF IInv, TypeOK, QuotaTypeOK
    <3>4. req'[c] \in ReserveRequests
      BY <3>1, <3>2, <3>3 DEF ReserveRequests, IInv, TypeOK
    <3> QED
      BY <3>1, <3>4
      DEF IInv, TypeOK, Requests, ReserveRequests, OthersWait, OwnRow,
          Promised, PutSteps
  <2>3. CASE ReserveCheck(c) /\ ~ Finish(c)
    <3> DEFINE r == req[c]
               new == [pc |-> "inserting", slug |-> r.slug,
                       version |-> r.version, sha256 |-> r.sha256,
                       size |-> r.size,
                       newModel |-> <<Account[c], r.slug>> \notin models]
    <3>1. r \in ReserveRequests
      BY <2>3, RequestOfStep DEF ReserveCheck, At, IInv, TypeOK
    <3>2. new \in InsertRequests
      BY <3>1 DEF ReserveRequests, InsertRequests
    <3>3. req' = [req EXCEPT ![c] = new]
      BY <2>3 DEF ReserveCheck
    <3>4. new.pc = "inserting"
      OBVIOUS
    <3> HIDE DEF new
    <3> QED
      BY <3>2, <3>3, <3>4
      DEF IInv, TypeOK, Requests, OthersWait, OwnRow, Promised, PutSteps
  <2> QED
    BY <2>1, <2>2, <2>3
<1>4. sweep' \in Sweeps
  BY DEF ReserveBegin, ReserveCheck, IInv, TypeOK
<1> QED
  BY <1>1, <1>2, <1>3, <1>4, CallerStep

\* The row that is inserted was unissued: no request knows its id yet.
LEMMA ReserveWrites ==
  ASSUME IInv, NEW c \in Callers, ReserveInsert(c)
  PROVE  IInv' /\ ArtifactsKept
<1> DEFINE r == req[c]
           user == Account[c]
<1>1. StorageInv' /\ ArtifactsKept
  BY StillVolume DEF ReserveInsert, IInv, TypeOK, StorageInv
<1>2. /\ req' \in [Callers -> Requests] /\ OthersWait(c)
      /\ OwnRow(c)' /\ Promised(c)'
  BY RequestEnds DEF ReserveInsert, IInv, TypeOK
<1>3. sweep' \in Sweeps
  BY DEF ReserveInsert, IInv, TypeOK
<1>4. CASE UNCHANGED <<rows, models>>
  BY <1>1, <1>2, <1>3, <1>4, TablesStill, CallerStep
  DEF ReserveInsert, IInv, TypeOK, QuotaTypeOK
<1>5. CASE ~ UNCHANGED <<rows, models>>
  <2>1. r \in InsertRequests /\ user \in Users
    BY RequestOfStep, FlowAssumption DEF ReserveInsert, At, IInv, TypeOK
  <2>2. PICK u \in Uploads :
          /\ rows[u] = Unissued
          /\ rows' = [rows EXCEPT ![u] = Reserved(user, r)]
    BY <1>5 DEF ReserveInsert
  <2>3. /\ models' = models \cup {<<user, r.slug>>}
        /\ UNCHANGED <<ledger, now>>
    BY <1>5 DEF ReserveInsert
  <2>4. /\ Reserved(user, r) \in Row
        /\ Reserved(user, r).state = "reserved"
    BY <2>1, QuotaAssumption
    DEF Reserved, Row, InsertRequests, IInv, TypeOK, QuotaTypeOK
  <2>5. QuotaTypeOK'
    BY <2>1, <2>2, <2>3, <2>4
    DEF QuotaTypeOK, InsertRequests, IInv, TypeOK
  <2>6. \A v \in Uploads : v # u => rows'[v] = rows[v]
    BY <2>2 DEF IInv, TypeOK, QuotaTypeOK
  <2>7. RowsKept
    BY <2>2, <2>6 DEF RowsKept, Stored
  <2>8. \A v \in Uploads : Stored(v)' => v # u /\ Stored(v)
    BY <2>2, <2>4, <2>6 DEF Stored, STORED, IInv, TypeOK, QuotaTypeOK
  <2>9. StoredHasBytes' /\ StoredIsCharged'
    BY <2>3, <2>6, <2>8
    DEF StoredHasBytes, StoredIsCharged, ReserveInsert, storageVars, Exists,
        IInv
  <2> QED
    BY <1>1, <1>2, <1>3, <2>5, <2>7, <2>9, CallerStep
<1> QED
  BY <1>4, <1>5

\* A transfer that ends, or goes on to a step whose promise it can keep,
\* without touching the tables.
LEMMA PutEnds ==
  ASSUME IInv, NEW c \in Callers, StorageInv', ArtifactsKept, Finish(c),
         UNCHANGED <<quotaVars, sweep>>
  PROVE  IInv' /\ ArtifactsKept
<1>1. QuotaTypeOK' /\ RowsKept /\ StoredHasBytes' /\ StoredIsCharged'
  BY TablesStill DEF quotaVars, IInv, TypeOK, QuotaTypeOK
<1> QED
  BY <1>1, RequestEnds, CallerStep DEF IInv, TypeOK

LEMMA PutAdvances ==
  ASSUME IInv, NEW c \in Callers, StorageInv', ArtifactsKept,
         req[c].pc \in PutSteps, NEW pc \in PutSteps, Goto(c, pc),
         pc \in {"promoting", "dropping", "replacing", "charging"} =>
           Measured(req[c]),
         pc \in {"dropping", "charging"} => disk'[Final(req[c].body)] # None,
         UNCHANGED <<quotaVars, sweep>>
  PROVE  IInv' /\ ArtifactsKept
<1>1. QuotaTypeOK' /\ RowsKept /\ StoredHasBytes' /\ StoredIsCharged'
  BY TablesStill DEF quotaVars, IInv, TypeOK, QuotaTypeOK
<1>2. /\ req' \in [Callers -> Requests]
      /\ OthersWait(c)
      /\ req'[c].pc = pc
      /\ req'[c].upload = req[c].upload
      /\ req'[c].row = req[c].row
      /\ req'[c].body = req[c].body
  BY PutGoesOn DEF IInv, TypeOK
<1>3. OwnRow(c)'
  BY <1>2 DEF OwnRow, quotaVars, IInv, PutSteps
<1>4. Promised(c)'
  BY <1>2 DEF Promised, Measured, Exists
<1> QED
  BY <1>1, <1>2, <1>3, <1>4, CallerStep DEF IInv, TypeOK

\* Selecting, opening, receiving and refusing: nothing is promised yet.
LEMMA PutReceives ==
  ASSUME IInv, NEW c \in Callers,
         \/ PutSelect(c) \/ PutOpen(c) \/ PutChunk(c) \/ PutOverrun(c)
         \/ PutMeasure(c) \/ PutDiscard(c) \/ PutUnwind(c)
  PROVE  IInv' /\ ArtifactsKept
<1> DEFINE r == req[c]
<1>1. StorageInv /\ req \in [Callers -> Requests] /\ handle[c] \in Handles
  BY DEF IInv, TypeOK, StorageInv, StorageTypeOK
<1>2. r.pc \in PutSteps =>
        r \in PutRequests /\ r.upload \in Uploads /\ r.body \in Bodies
  BY <1>1, RequestOfStep DEF PutRequests
<1>3. CASE PutSelect(c)
  <2>1. PICK u \in OwnedBy(Account[c]), body \in Bodies :
          req' = [req EXCEPT ![c] = [pc |-> "opening", upload |-> u,
                                     row |-> rows[u], body |-> body]]
    BY <1>3 DEF PutSelect
  <2>2. /\ u \in Uploads /\ rows[u] \in Row /\ rows[u].owner = Account[c]
        /\ rows[u] # Unissued
    BY DEF OwnedBy, Live, Unissued, Gone, IInv, TypeOK, QuotaTypeOK
  <2>3. /\ req'[c] = [pc |-> "opening", upload |-> u,
                      row |-> rows[u], body |-> body]
        /\ req'[c] \in PutRequests
        /\ OthersWait(c)
        /\ req' \in [Callers -> Requests]
    BY <1>1, <2>1, <2>2 DEF PutRequests, PutSteps, OthersWait, Requests
  <2>4. UNCHANGED <<storageVars, quotaVars, sweep>>
    BY <1>3 DEF PutSelect
  <2>5. StorageInv' /\ ArtifactsKept
    BY <1>1, <2>4, StillVolume
  <2>6. QuotaTypeOK' /\ RowsKept /\ StoredHasBytes' /\ StoredIsCharged'
    BY <2>4, <2>5, TablesStill DEF quotaVars, IInv, TypeOK, QuotaTypeOK
  <2>7. OwnRow(c)' /\ Promised(c)'
    BY <2>2, <2>3, <2>4 DEF OwnRow, Promised, quotaVars
  <2> QED
    BY <2>3, <2>4, <2>5, <2>6, <2>7, CallerStep DEF IInv, TypeOK
<1>4. CASE PutOpen(c)
  <2>1. r.pc \in PutSteps /\ UNCHANGED <<quotaVars, sweep>>
    BY <1>4 DEF PutOpen, At, PutSteps
  <2>2. CASE OpenStaging(c, r.upload) /\ Goto(c, "streaming")
    BY <1>1, <1>2, <2>1, <2>2, OpenKeeps, PutAdvances DEF PutSteps
  <2>3. CASE UNCHANGED storageVars /\ Finish(c)
    BY <1>1, <2>1, <2>3, StillVolume, PutEnds
  <2> QED
    BY <1>4, <2>2, <2>3 DEF PutOpen
<1>5. CASE PutChunk(c)
  <2>1. /\ r.pc \in PutSteps /\ WriteChunk(c, r.body)
        /\ handle[c].at < Size[r.body]
        /\ UNCHANGED <<quotaVars, req, sweep>>
    BY <1>5 DEF PutChunk, At, PutSteps, MoreToCome
  <2>2. handle[c].at < MaxBytes
    BY <1>1, <1>2, <2>1, StorageAssumption DEF Handles
  <2>3. StorageInv' /\ ArtifactsKept
    BY <1>1, <1>2, <2>1, <2>2, WriteKeeps
  <2>4. QuotaTypeOK' /\ RowsKept /\ StoredHasBytes' /\ StoredIsCharged'
    BY <2>1, <2>3, TablesStill DEF quotaVars, IInv, TypeOK, QuotaTypeOK
  <2>5. OwnRow(c)' /\ Promised(c)'
    BY <2>1, <2>3, <2>4, RequestUndisturbed
  <2> QED
    BY <1>1, <2>1, <2>3, <2>4, <2>5, CallerStep DEF OthersWait, IInv, TypeOK
<1>6. CASE PutOverrun(c)
  BY <1>1, <1>6, CloseKeeps, PutAdvances DEF PutOverrun, At, PutSteps
<1>7. CASE PutMeasure(c)
  <2> DEFINE next == IF Measured(r) THEN "promoting" ELSE "mismatch"
  <2>1. next \in PutSteps /\ (next = "promoting" => Measured(r))
        /\ next \notin {"dropping", "replacing", "charging"}
    BY DEF PutSteps
  <2>2. /\ r.pc \in PutSteps /\ CloseHandle(c) /\ Goto(c, next)
        /\ UNCHANGED <<quotaVars, sweep>>
    BY <1>7 DEF PutMeasure, At, PutSteps
  <2>3. StorageInv' /\ ArtifactsKept
    BY <1>1, <2>2, CloseKeeps
  <2> HIDE DEF next
  <2> QED
    BY <2>1, <2>2, <2>3, PutAdvances
<1>8. CASE PutDiscard(c)
  <2>1. /\ r.pc \in PutSteps /\ Discard(r.upload)
        /\ UNCHANGED <<quotaVars, sweep>>
    BY <1>8 DEF PutDiscard, PutSteps
  <2>2. StorageInv' /\ ArtifactsKept
    BY <1>1, <1>2, <2>1, DiscardKeeps
  <2>3. CASE Goto(c, "refused")
    BY <2>1, <2>2, <2>3, PutAdvances DEF PutSteps
  <2>4. CASE Finish(c)
    BY <2>1, <2>2, <2>4, PutEnds
  <2> QED
    BY <1>8, <2>3, <2>4 DEF PutDiscard
<1>9. CASE PutUnwind(c)
  <2>1. StorageInv' /\ ArtifactsKept
    BY <1>1, <1>9, StillVolume DEF PutUnwind
  <2> QED
    BY <1>9, <2>1, PutEnds DEF PutUnwind, AfterRefusal, quotaVars
<1> QED
  BY <1>3, <1>4, <1>5, <1>6, <1>7, <1>8, <1>9

\* From the existence check to the rename or the discard: either way the
\* artifact is on the volume when the transfer comes to be charged.
LEMMA PutLands ==
  ASSUME IInv, NEW c \in Callers,
         PutPromote(c) \/ PutDrop(c) \/ PutReplace(c)
  PROVE  IInv' /\ ArtifactsKept
<1> DEFINE r == req[c]
<1>1. StorageInv /\ r.pc \in PutSteps
  BY DEF IInv, TypeOK, StorageInv, PutPromote, PutDrop, PutReplace, At,
         PutSteps
<1>2. r.upload \in Uploads /\ r.body \in Bodies
  BY <1>1, RequestOfStep DEF PutRequests, IInv, TypeOK
<1>3. Measured(r) /\ (r.pc = "dropping" => Exists(Final(r.body)))
  BY DEF IInv, Promised, PutPromote, PutDrop, PutReplace, At
<1>4. UNCHANGED <<quotaVars, sweep>>
  BY DEF PutPromote, PutDrop, PutReplace
<1>5. CASE PutPromote(c)
  <2>1. UNCHANGED storageVars
    BY <1>5 DEF PutPromote
  <2>2. StorageInv' /\ ArtifactsKept
    BY <1>1, <2>1, StillVolume
  <2>3. CASE Exists(Final(r.body)) /\ Goto(c, "dropping")
    BY <1>1, <1>3, <1>4, <2>1, <2>2, <2>3, PutAdvances
    DEF PutSteps, Exists, storageVars
  <2>4. CASE Goto(c, "replacing")
    BY <1>1, <1>3, <1>4, <2>2, <2>4, PutAdvances DEF PutSteps
  <2> QED
    BY <1>5, <2>3, <2>4 DEF PutPromote
<1>6. CASE PutDrop(c)
  <2>1. r.pc = "dropping" /\ Discard(r.upload) /\ Goto(c, "charging")
    BY <1>6 DEF PutDrop, At
  <2>2. StorageInv' /\ ArtifactsKept
    BY <1>1, <1>2, <2>1, DiscardKeeps
  <2>3. disk'[Final(r.body)] # None
    BY <1>2, <1>3, <2>1, <2>2 DEF ArtifactsKept, Exists
  <2> QED
    BY <1>1, <1>3, <1>4, <2>1, <2>2, <2>3, PutAdvances DEF PutSteps
<1>7. CASE PutReplace(c)
  <2>1. CASE Replace(r.upload, r.body) /\ Goto(c, "charging")
    <3> DEFINE u == r.upload
               b == r.body
    <3>1. StorageInv' /\ ArtifactsKept /\ disk'[Final(b)] # None
      <4>1. u \in Uploads /\ b \in Bodies /\ Replace(u, b)
        BY <1>2, <2>1
      <4> HIDE DEF u, b
      <4>2. StorageInv' /\ ArtifactsKept
        BY <1>1, <4>1, ReplaceKeeps
      <4>3. disk'[Final(b)] # None
        BY <1>1, <4>1, PathFacts
        DEF Replace, Exists, StorageInv, StorageTypeOK
      <4> QED
        BY <4>2, <4>3
    <3> QED
      BY <1>1, <1>3, <1>4, <2>1, <3>1, PutAdvances DEF PutSteps
  <2>2. CASE UNCHANGED storageVars /\ Finish(c)
    BY <1>1, <1>4, <2>2, StillVolume, PutEnds
  <2> QED
    BY <1>7, <2>1, <2>2 DEF PutReplace
<1> QED
  BY <1>5, <1>6, <1>7

\* The commit of a transfer: the row becomes stored against an artifact that
\* was promoted earlier and is charged in the same step.
LEMMA PutCharges ==
  ASSUME IInv, NEW c \in Callers, PutCharge(c)
  PROVE  IInv' /\ ArtifactsKept
<1> DEFINE r == req[c]
           u == req[c].upload
           user == Account[c]
<1>1. /\ r \in PutRequests /\ r.pc = "charging"
      /\ u \in Uploads /\ r.body \in Bodies /\ user \in Users
  BY RequestOfStep, FlowAssumption
  DEF PutCharge, At, PutSteps, PutRequests, IInv, TypeOK
<1>2. StorageInv' /\ ArtifactsKept
  BY StillVolume DEF PutCharge, IInv, TypeOK, StorageInv
<1>3. /\ req' \in [Callers -> Requests] /\ OthersWait(c)
      /\ OwnRow(c)' /\ Promised(c)'
  BY RequestEnds DEF PutCharge, IInv, TypeOK
<1>4. sweep' \in Sweeps
  BY DEF PutCharge, IInv, TypeOK
<1>5. CASE rows[u] = Gone
  BY <1>2, <1>3, <1>4, <1>5, TablesStill, CallerStep
  DEF PutCharge, tables, IInv, TypeOK, QuotaTypeOK
<1>6. CASE rows[u] # Gone
  <2>1. /\ rows[u] \in Row /\ rows[u].owner = user
        /\ rows[u].sha256 = r.body /\ rows[u].size = Size[r.body]
        /\ Exists(Final(r.body))
    BY <1>1, <1>6
    DEF IInv, TypeOK, QuotaTypeOK, OwnRow, Promised, Measured, PutSteps
  <2>2. /\ rows' = [rows EXCEPT ![u] = [rows[u] EXCEPT !.key = r.body,
                                             !.state = "uploaded"]]
        /\ ledger' = [ledger EXCEPT ![user] =
                        [ledger[user] EXCEPT ![u] = @ + Size[r.body]]]
        /\ UNCHANGED <<models, now, storageVars>>
    BY <1>6 DEF PutCharge, Charge
  <2>3. /\ rows'[u] \in Row /\ rows'[u].key = r.body
        /\ rows'[u].state = "uploaded" /\ rows'[u].owner = user
        /\ rows'[u].sha256 = r.body /\ rows'[u].size = Size[r.body]
        /\ \A v \in Uploads : v # u => rows'[v] = rows[v]
        /\ rows' \in [Uploads -> Row \cup {Unissued, Gone}]
    BY <1>1, <2>1, <2>2 DEF Row, STORED, IInv, TypeOK, QuotaTypeOK
  <2>4. Size[r.body] \in Nat /\ ledger \in [Users -> [Uploads -> Nat]]
    BY <1>1, StorageAssumption DEF IInv, TypeOK, QuotaTypeOK
  <2>5. /\ ledger' \in [Users -> [Uploads -> Nat]]
        /\ ledger'[user][u] >= Size[r.body]
        /\ \A w \in Users, v \in Uploads : ledger'[w][v] >= ledger[w][v]
    BY <1>1, <2>2, <2>4
  <2>6. QuotaTypeOK'
    BY <2>2, <2>3, <2>5 DEF IInv, TypeOK, QuotaTypeOK
  <2>7. RowsKept
    BY <2>1, <2>3 DEF RowsKept, Stored, STORED, Row, Unissued, Gone
  <2>8. StoredHasBytes'
    BY <2>1, <2>2, <2>3
    DEF IInv, StoredHasBytes, Stored, Exists, storageVars
  <2>9. StoredIsCharged'
    <3> SUFFICES ASSUME NEW v \in Uploads, Stored(v)'
                 PROVE  ledger'[rows'[v].owner][v] >= rows'[v].size
      BY DEF StoredIsCharged
    <3>1. CASE v = u
      BY <2>3, <2>5, <3>1
    <3>2. CASE v # u
      <4>1. rows'[v] = rows[v] /\ Stored(v)
        BY <2>3, <3>2 DEF Stored
      <4>2. rows[v] \in Row
        BY <4>1 DEF IInv, TypeOK, QuotaTypeOK, Stored, STORED, Unissued, Gone
      <4>3. rows[v].owner \in Users /\ rows[v].size \in Nat
        BY <4>2 DEF Row
      <4>4. ledger[rows[v].owner][v] >= rows[v].size
        BY <4>1 DEF IInv, StoredIsCharged
      <4> QED
        BY <2>4, <2>5, <4>1, <4>3, <4>4
    <3> QED
      BY <3>1, <3>2
  <2> QED
    BY <1>2, <1>3, <1>4, <2>6, <2>7, <2>8, <2>9, CallerStep
<1> QED
  BY <1>5, <1>6

\* Publishing moves a stored row to another stored state, or finds it gone.
LEMMA CommitPublishes ==
  ASSUME IInv, NEW c \in Callers, CommitSelect(c) \/ CommitWrite(c)
  PROVE  IInv' /\ ArtifactsKept
<1>1. StorageInv' /\ ArtifactsKept
  BY StillVolume DEF CommitSelect, CommitWrite, IInv, TypeOK, StorageInv
<1>2. sweep' \in Sweeps
  BY DEF CommitSelect, CommitWrite, IInv, TypeOK
<1>3. CASE CommitSelect(c)
  <2>1. PICK u \in OwnedBy(Account[c]) :
          /\ rows[u].state = "uploaded"
          /\ req' = [req EXCEPT ![c] = [pc |-> "publishing", upload |-> u]]
    BY <1>3 DEF CommitSelect
  <2>2. u \in Uploads
    BY DEF OwnedBy, Live
  <2>3. /\ req'[c] = [pc |-> "publishing", upload |-> u]
        /\ req' \in [Callers -> Requests] /\ OthersWait(c)
    BY <2>1, <2>2 DEF IInv, TypeOK, Requests, CommitRequests, OthersWait
  <2>4. UNCHANGED quotaVars
    BY <1>3 DEF CommitSelect
  <2>5. OwnRow(c)' /\ Promised(c)'
    BY <2>1, <2>3, <2>4
    DEF OwnRow, Promised, PutSteps, Stored, STORED, quotaVars
  <2>6. QuotaTypeOK' /\ RowsKept /\ StoredHasBytes' /\ StoredIsCharged'
    BY <1>1, <2>4, TablesStill DEF quotaVars, IInv, TypeOK, QuotaTypeOK
  <2> QED
    BY <1>1, <1>2, <2>3, <2>5, <2>6, CallerStep
<1>4. CASE CommitWrite(c)
  <2> DEFINE u == req[c].upload
  <2>1. req[c] \in CommitRequests /\ req[c].pc = "publishing"
    BY <1>4, RequestOfStep DEF CommitWrite, At, IInv, TypeOK
  <2>2. u \in Uploads /\ (rows[u] = Gone \/ Stored(u))
    BY <2>1 DEF CommitRequests, IInv, OwnRow
  <2>3. /\ req' \in [Callers -> Requests] /\ OthersWait(c)
        /\ OwnRow(c)' /\ Promised(c)'
    BY <1>4, RequestEnds DEF CommitWrite, IInv, TypeOK
  <2>4. UNCHANGED <<storageVars, models, ledger, now>>
    BY <1>4 DEF CommitWrite
  <2>5. CASE rows[u] = Gone
    BY <1>1, <1>2, <1>4, <2>3, <2>4, <2>5, TablesStill, CallerStep
    DEF CommitWrite, IInv, TypeOK, QuotaTypeOK
  <2>6. CASE Stored(u) /\ rows[u] # Gone
    <3>1. rows' = [rows EXCEPT ![u] = [rows[u] EXCEPT
                                         !.state = CommittedState]]
      BY <1>4, <2>6 DEF CommitWrite
    <3>2. rows[u] \in Row /\ CommittedState \in STORED
      BY <2>2, <2>6
      DEF IInv, TypeOK, QuotaTypeOK, Stored, STORED, Unissued, CommittedState
    <3>3. /\ rows'[u] \in Row /\ rows'[u].state \in STORED
          /\ rows'[u].key = rows[u].key
          /\ rows'[u].owner = rows[u].owner
          /\ rows'[u].sha256 = rows[u].sha256
          /\ rows'[u].size = rows[u].size
          /\ \A v \in Uploads : v # u => rows'[v] = rows[v]
          /\ rows' \in [Uploads -> Row \cup {Unissued, Gone}]
      BY <2>2, <3>1, <3>2 DEF Row, IInv, TypeOK, QuotaTypeOK
    <3>4. QuotaTypeOK'
      BY <2>4, <3>3 DEF IInv, TypeOK, QuotaTypeOK
    <3>5. RowsKept
      BY <2>6, <3>3 DEF RowsKept, Stored, STORED, Row, Unissued, Gone
    <3>6. StoredHasBytes'
      BY <2>2, <2>4, <2>6, <3>3
      DEF IInv, StoredHasBytes, Stored, Exists, storageVars
    <3>7. StoredIsCharged'
      BY <2>2, <2>4, <2>6, <3>3 DEF IInv, StoredIsCharged, Stored
    <3> QED
      BY <1>1, <1>2, <2>3, <3>4, <3>5, <3>6, <3>7, CallerStep
  <2> QED
    BY <2>2, <2>5, <2>6
<1> QED
  BY <1>3, <1>4

LEMMA AbortEnds ==
  ASSUME IInv, NEW c \in Callers, Abort(c)
  PROVE  IInv' /\ ArtifactsKept
<1>1. StorageInv' /\ ArtifactsKept
  BY CloseKeeps DEF Abort, IInv, TypeOK, StorageInv
<1> QED
  BY <1>1, PutEnds DEF Abort

\* A step of the sweep or the clock: every request waits.
LEMMA NobodysStep ==
  ASSUME IInv, StorageInv', ArtifactsKept, QuotaTypeOK', RowsKept,
         req' = req, sweep' \in Sweeps, StoredHasBytes', StoredIsCharged'
  PROVE  IInv' /\ ArtifactsKept
<1>1. ASSUME NEW d \in Callers PROVE OwnRow(d)' /\ Promised(d)'
  BY RequestUndisturbed
<1> QED
  BY <1>1 DEF IInv, TypeOK, StorageInv

\* The sweep takes rows away, never artifacts: what is left is still backed.
LEMMA SweepReclaims ==
  ASSUME IInv, Sweep
  PROVE  IInv' /\ ArtifactsKept
<1>1. StorageInv /\ sweep \in Sweeps /\ req' = req
  BY DEF Sweep, SweepSelect, SweepDiscard, SweepDelete, SweepAbort, IInv,
         TypeOK, StorageInv
<1>2. CASE SweepSelect \/ SweepAbort
  <2>1. StorageInv' /\ ArtifactsKept
    BY <1>1, <1>2, StillVolume DEF SweepSelect, SweepAbort
  <2>2. QuotaTypeOK' /\ RowsKept /\ StoredHasBytes' /\ StoredIsCharged'
    BY <1>2, <2>1, TablesStill
    DEF SweepSelect, SweepAbort, quotaVars, IInv, TypeOK, QuotaTypeOK
  <2>3. sweep' \in Sweeps
    BY <1>2
    DEF SweepSelect, SweepAbort, Sweeps, NoSweep, ExpiredReservations, Live
  <2> QED
    BY <1>1, <2>1, <2>2, <2>3, NobodysStep
<1>3. ASSUME NEW u \in Uploads, SweepDiscard(u)
      PROVE  IInv' /\ ArtifactsKept
  <2>1. StorageInv' /\ ArtifactsKept
    BY <1>1, <1>3, DiscardKeeps DEF SweepDiscard
  <2>2. QuotaTypeOK' /\ RowsKept /\ StoredHasBytes' /\ StoredIsCharged'
    BY <1>3, <2>1, TablesStill
    DEF SweepDiscard, quotaVars, IInv, TypeOK, QuotaTypeOK
  <2>3. sweep' \in Sweeps
    BY <1>1, <1>3 DEF SweepDiscard, Sweeps
  <2> QED
    BY <1>1, <2>1, <2>2, <2>3, NobodysStep
<1>4. CASE SweepDelete
  <2>1. /\ StorageInv' /\ ArtifactsKept
        /\ UNCHANGED <<storageVars, models, ledger, now>>
    BY <1>1, <1>4, StillVolume DEF SweepDelete
  <2>2. \A u \in Uploads : rows'[u] = Gone \/ rows'[u] = rows[u]
    BY <1>4 DEF SweepDelete
  <2>3. Gone # Unissued /\ Gone.state \notin STORED
    BY DEF Gone, Unissued, STORED
  <2>4. QuotaTypeOK'
    BY <1>4, <2>1 DEF SweepDelete, IInv, TypeOK, QuotaTypeOK
  <2>5. RowsKept
    BY <2>2, <2>3 DEF RowsKept, Stored
  <2>6. StoredHasBytes' /\ StoredIsCharged'
    BY <2>1, <2>2, <2>3
    DEF IInv, StoredHasBytes, StoredIsCharged, Stored, Exists, storageVars
  <2>7. sweep' \in Sweeps
    BY <1>4 DEF SweepDelete, NoSweep, Sweeps
  <2> QED
    BY <1>1, <2>1, <2>4, <2>5, <2>6, <2>7, NobodysStep
<1> QED
  BY <1>2, <1>3, <1>4 DEF Sweep

LEMMA ClockAdvances ==
  ASSUME IInv, ClockTick
  PROVE  IInv' /\ ArtifactsKept
<1>1. StorageInv' /\ ArtifactsKept
  BY StillVolume DEF ClockTick, IInv, TypeOK, StorageInv
<1>2. now' \in Nat
  BY DEF ClockTick, Tick, IInv, TypeOK, QuotaTypeOK
<1>3. QuotaTypeOK' /\ RowsKept /\ StoredHasBytes' /\ StoredIsCharged'
  BY <1>1, <1>2, TablesStill DEF ClockTick, Tick
<1> QED
  BY <1>1, <1>3, NobodysStep DEF ClockTick, IInv, TypeOK

LEMMA NothingHappens ==
  ASSUME IInv, UNCHANGED vars
  PROVE  IInv' /\ ArtifactsKept
<1>1. StorageInv' /\ ArtifactsKept
  BY StillVolume DEF vars, storageVars, IInv, TypeOK, StorageInv
<1>2. QuotaTypeOK' /\ RowsKept /\ StoredHasBytes' /\ StoredIsCharged'
  BY <1>1, TablesStill DEF vars, IInv, TypeOK, QuotaTypeOK
<1> QED
  BY <1>1, <1>2, NobodysStep DEF vars, IInv, TypeOK

-----------------------------------------------------------------------------
(* The theorems.                                                           *)

LEMMA InitIInv == Init => IInv
<1> SUFFICES ASSUME Init PROVE IInv
  OBVIOUS
<1>1. StorageTypeOK
  BY StorageAssumption
  DEF Init, StorageInit, StorageTypeOK, Closed, Handles
<1>2. HandleOnFile
  BY PathFacts DEF Init, StorageInit, HandleOnFile, Closed
<1>3. QuotaTypeOK
  BY DEF Init, QuotaInit, QuotaTypeOK
<1>4. TypeOK
  BY <1>1, <1>3 DEF Init, TypeOK, Requests, NoSweep, Sweeps
<1>5. \A c \in Callers : OwnRow(c) /\ Promised(c)
  BY DEF Init, OwnRow, Promised, Idle, PutSteps
<1>6. \A u \in Uploads : ~ Stored(u)
  BY DEF Init, QuotaInit, Unissued, Stored, STORED
<1> QED
  BY <1>2, <1>4, <1>5, <1>6 DEF IInv, StoredHasBytes, StoredIsCharged

LEMMA StepIInv == IInv /\ [Next]_vars => IInv' /\ ArtifactsKept
<1> SUFFICES ASSUME IInv, [Next]_vars PROVE IInv' /\ ArtifactsKept
  OBVIOUS
<1>1. CASE UNCHANGED vars
  BY <1>1, NothingHappens
<1>2. ASSUME NEW c \in Callers, Reserve(c) PROVE IInv' /\ ArtifactsKept
  BY <1>2, ReserveReads, ReserveWrites DEF Reserve
<1>3. ASSUME NEW c \in Callers, Put(c) PROVE IInv' /\ ArtifactsKept
  BY <1>3, PutReceives, PutLands, PutCharges DEF Put
<1>4. ASSUME NEW c \in Callers, Commit(c) PROVE IInv' /\ ArtifactsKept
  BY <1>4, CommitPublishes DEF Commit
<1>5. ASSUME NEW c \in Callers, Abort(c) PROVE IInv' /\ ArtifactsKept
  BY <1>5, AbortEnds
<1>6. CASE Sweep
  BY <1>6, SweepReclaims
<1>7. CASE ClockTick
  BY <1>7, ClockAdvances
<1> QED
  BY <1>1, <1>2, <1>3, <1>4, <1>5, <1>6, <1>7 DEF Next

\* What is true of the tables, the volume and every request at all times.
THEOREM Invariance == Spec => []IInv
BY InitIInv, StepIInv, PTL DEF Spec

\* Every variable of the upload flow keeps its type: a write never goes past
\* the end of a file or to a path that has none.
THEOREM TypeCorrect == Spec => []TypeOK
<1>1. IInv => TypeOK
  BY DEF IInv
<1> QED
  BY <1>1, Invariance, PTL

\* However many credentials, crashes, sweeps and equal artifacts: a version
\* that is past "reserved" has its bytes on the volume under its own digest.
THEOREM StoredVersionsHaveBytes == Spec => []StoredHasBytes
<1>1. IInv => StoredHasBytes
  BY DEF IInv
<1> QED
  BY <1>1, Invariance, PTL

\* ... and its owner has been charged for all of them.
THEOREM StoredVersionsAreCharged == Spec => []StoredIsCharged
<1>1. IInv => StoredIsCharged
  BY DEF IInv
<1> QED
  BY <1>1, Invariance, PTL

\* No step takes an artifact off the volume.
THEOREM ArtifactsNeverVanish == Spec => ArtifactsStay
<1>1. IInv /\ [Next]_vars
        => [\A b \in Bodies : Exists(Final(b)) => Exists(Final(b))']_vars
  BY StepIInv DEF ArtifactsKept
<1> QED
  BY <1>1, Invariance, PTL DEF Spec, ArtifactsStay

\* No row takes on another name, and none but an insert brings a name in.
SameNames ==
  \A u \in Uploads : u \in Live' =>
    /\ u \in Live
    /\ rows'[u].owner = rows[u].owner
    /\ rows'[u].slug = rows[u].slug
    /\ rows'[u].version = rows[u].version

LEMMA OnlyInsertsName ==
  ASSUME IInv, [Next]_vars
  PROVE  SameNames \/ \E c \in Callers : ReserveInsert(c)
<1>1. CASE UNCHANGED rows
  BY <1>1 DEF SameNames, Live
<1>2. ASSUME NEW c \in Callers, PutCharge(c), rows' # rows PROVE SameNames
  <2> DEFINE u == req[c].upload
             new == [rows[u] EXCEPT !.key = req[c].body, !.state = "uploaded"]
  <2>1. u \in Uploads /\ rows[u] \in Row
    BY <1>2, RequestOfStep
    DEF PutCharge, At, tables, PutSteps, PutRequests, OwnRow, IInv, TypeOK,
        QuotaTypeOK
  <2>2. rows' = [rows EXCEPT ![u] = new]
    BY <1>2 DEF PutCharge, tables
  <2>3. /\ new.owner = rows[u].owner /\ new.slug = rows[u].slug
        /\ new.version = rows[u].version /\ u \in Live
    BY <2>1 DEF Row, STORED, Live
  <2> HIDE DEF new
  <2> QED
    BY <2>1, <2>2, <2>3 DEF SameNames, Live, IInv, TypeOK, QuotaTypeOK
<1>3. ASSUME NEW c \in Callers, CommitWrite(c), rows' # rows PROVE SameNames
  <2> DEFINE u == req[c].upload
             new == [rows[u] EXCEPT !.state = CommittedState]
  <2>1. u \in Uploads /\ rows[u] \in Row
    BY <1>3, RequestOfStep
    DEF CommitWrite, At, CommitRequests, OwnRow, Stored, STORED, Unissued,
        IInv, TypeOK, QuotaTypeOK
  <2>2. rows' = [rows EXCEPT ![u] = new]
    BY <1>3 DEF CommitWrite
  <2>3. /\ new.owner = rows[u].owner /\ new.slug = rows[u].slug
        /\ new.version = rows[u].version /\ u \in Live
    BY <2>1 DEF Row, STORED, Live
  <2> HIDE DEF new
  <2> QED
    BY <2>1, <2>2, <2>3 DEF SameNames, Live, IInv, TypeOK, QuotaTypeOK
<1>4. CASE SweepDelete
  BY <1>4 DEF SweepDelete, SameNames, Live, Gone
<1>5. ASSUME NEW c \in Callers, Put(c) PROVE PutCharge(c) \/ UNCHANGED rows
  BY <1>5
  DEF Put, PutSelect, PutOpen, PutChunk, PutOverrun, PutMeasure, PutDiscard,
      PutUnwind, AfterRefusal, PutPromote, PutDrop, PutReplace, quotaVars
<1>6. ASSUME NEW c \in Callers, Reserve(c) \/ Commit(c) \/ Abort(c)
      PROVE  ReserveInsert(c) \/ CommitWrite(c) \/ UNCHANGED rows
  BY <1>6
  DEF Reserve, ReserveBegin, ReserveCheck, Commit, CommitSelect, Abort,
      quotaVars
<1>7. Sweep \/ ClockTick => SweepDelete \/ UNCHANGED rows
  BY DEF Sweep, SweepSelect, SweepDiscard, SweepAbort, ClockTick, Tick,
         quotaVars
<1> QED
  BY <1>1, <1>2, <1>3, <1>4, <1>5, <1>6, <1>7 DEF Next, vars

\* Two rows never share a version name, although two requests may both have
\* found it free: the insert of the second collides.
THEOREM VersionNamesUnique == Spec => []NamesUnique
<1>1. Init => NamesUnique
  BY DEF Init, QuotaInit, Unissued, NamesUnique, Live
<1>2. ASSUME IInv, NamesUnique, [Next]_vars PROVE NamesUnique'
  <2>1. CASE SameNames
    BY <1>2, <2>1 DEF NamesUnique, SameNames, Live
  <2>2. ASSUME NEW c \in Callers, ReserveInsert(c), rows' # rows
        PROVE  NamesUnique'
    <3> DEFINE r == req[c]
               new == Reserved(Account[c], r)
    <3>1. ~ NameTaken(Account[c], r.slug, r.version)
      BY <2>2 DEF ReserveInsert, Collides
    <3>2. PICK w \in Uploads : rows' = [rows EXCEPT ![w] = new]
      BY <2>2 DEF ReserveInsert
    <3>3. /\ new.owner = Account[c] /\ new.slug = r.slug
          /\ new.version = r.version
      BY DEF Reserved
    <3> HIDE DEF new
    <3>4. /\ rows'[w] = new
          /\ \A v \in Uploads : v # w => rows'[v] = rows[v]
      BY <1>2, <3>2 DEF IInv, TypeOK, QuotaTypeOK
    <3>5. ASSUME NEW v \in Live, rows[v].owner = Account[c],
                 rows[v].slug = r.slug
          PROVE  rows[v].version # r.version
      BY <3>1, <3>5 DEF NameTaken, VersionsOf, OwnedBy
    <3> QED
      BY <1>2, <3>3, <3>4, <3>5 DEF NamesUnique, Live
  <2>3. ASSUME UNCHANGED rows PROVE NamesUnique'
    BY <1>2, <2>3 DEF NamesUnique, Live
  <2> QED
    BY <1>2, <2>1, <2>2, <2>3, OnlyInsertsName
<1> QED
  BY <1>1, <1>2, Invariance, PTL DEF Spec

=============================================================================
