--------------------------- MODULE ExclusiveProofs ---------------------------
(***************************************************************************)
(* What holds of UploadFlow when no two credentials act for one account,   *)
(* for any number of accounts, uploads and artifacts.                      *)
(*                                                                         *)
(* With two credentials on one upload these facts are false (the run       *)
(* shared_upload).  With one, a transfer is alone with its row and its     *)
(* staging file, except for the sweep; XInv says what the sweep leaves it. *)
(***************************************************************************)
EXTENDS UploadFlowProofs

\* An account works with one credential at a time.
OneCredential ==
  \A c, d \in Callers : Account[c] = Account[d] => c = d

\* The first n chunks of body b: what a transfer has written so far.
Prefix(b, n) == [i \in 1..MaxBytes |-> IF i <= n THEN b ELSE Hole]

Staged(u) == disk[Staging(u)]

\* The row a request knows is as the handler's SELECT saw it, or the sweep has
\* taken it, after its expiry.
HoldsRow(c) ==
  LET r == req[c]
  IN  /\ r.pc \in PutSteps =>
           /\ \/ rows[r.upload] = r.row
              \/ rows[r.upload] = Gone /\ r.row.expires <= now
           /\ r.pc # "opening" => r.row.state = "reserved"
      /\ r.pc = "publishing" =>
           \/ rows[r.upload] = Gone
           \/ /\ rows[r.upload].owner = Account[c]
              /\ rows[r.upload].state = "uploaded"

\* A transfer's staging file holds what the transfer has sent, or the sweep
\* has unlinked it.
HoldsFile(c) ==
  LET r == req[c]
  IN  /\ r.pc # "streaming" => handle[c] = Closed
      /\ r.pc = "streaming" =>
           /\ handle[c].at <= Size[r.body]
           /\ \/ /\ handle[c].path = Staging(r.upload)
                 /\ Staged(r.upload) = Prefix(r.body, handle[c].at)
              \/ /\ handle[c].path = Unlinked
                 /\ Staged(r.upload) = None
      /\ r.pc \in {"promoting", "dropping", "replacing"} =>
           Staged(r.upload) \in {None, Image(r.body)}
      /\ r.pc = "charging" => Staged(r.upload) = None

\* No two transfers are of one upload.
SoleTransfers ==
  \A c, d \in Callers :
    req[c].pc \in PutSteps /\ req[d].pc \in PutSteps /\ c # d
      => req[c].upload # req[d].upload

\* The rows the sweep is about to delete have expired, and those whose staged
\* bytes it has discarded have none.
SweepSound ==
  \A u \in sweep.doomed :
    /\ rows[u] # Unissued
    /\ rows[u] # Gone => rows[u].expires <= now
    /\ u \notin sweep.left => Staged(u) = None

\* Nothing is charged for an upload that has not been received.
Uncharged ==
  \A u \in Uploads :
    /\ rows[u] = Unissued => \A user \in Users : ledger[user][u] = 0
    /\ rows[u].state = "reserved" => ledger[rows[u].owner][u] = 0

XInv ==
  /\ IInv
  /\ \A c \in Callers : HoldsRow(c) /\ HoldsFile(c)
  /\ SoleTransfers
  /\ SweepSound
  /\ Uncharged
  /\ ChargedOnce
  /\ ArtifactsComplete
  /\ NothingStranded

-----------------------------------------------------------------------------
(* What a step of one caller leaves to the others.                         *)

\* Only staging files of c's own upload, and c's own handle, are touched.
FilesOfOthersKept(c) ==
  /\ \A d \in Callers : d # c => handle'[d] = handle[d]
  /\ \A u \in Uploads :
       (req[c].pc \in PutSteps => u # req[c].upload) =>
         disk'[Staging(u)] = disk[Staging(u)]

\* Only rows of c's own account, and unissued ones, are touched.
RowsOfOthersKept(c) ==
  \A u \in Uploads :
    \/ rows'[u] = rows[u]
    \/ rows[u] = Unissued
    \/ rows[u] # Gone /\ rows[u].owner = Account[c]

LEMMA StagingDistinct ==
  \A u, v : Staging(u) = Staging(v) => u = v
BY DEF Staging

LEMMA RowFacts ==
  /\ Gone # Unissued
  /\ \A row \in Row : row # Gone /\ row # Unissued
  /\ Gone.state = "gone" /\ Unissued.state = "unissued"
<1>1. Gone.state = "gone" /\ Unissued.state = "unissued"
  BY DEF Gone, Unissued
<1>2. \A row \in Row : row.state \notin {"gone", "unissued"}
  BY DEF Row, STORED
<1> QED
  BY <1>1, <1>2

\* What the other requests hold, they still hold.
LEMMA OthersHold ==
  ASSUME OneCredential, XInv, NEW c \in Callers, OthersWait(c),
         FilesOfOthersKept(c), RowsOfOthersKept(c), now' = now,
         NEW d \in Callers, d # c
  PROVE  HoldsRow(d)' /\ HoldsFile(d)'
<1> DEFINE r == req[d]
<1>1. /\ req'[d] = r /\ handle'[d] = handle[d]
      /\ HoldsRow(d) /\ HoldsFile(d) /\ OwnRow(d)
      /\ Account[c] # Account[d]
  BY DEF OthersWait, FilesOfOthersKept, XInv, IInv, OneCredential
<1>2. CASE r.pc \in PutSteps
  <2>1. r.upload \in Uploads /\ r \in PutRequests
    BY <1>2, RequestOfStep DEF XInv, IInv, TypeOK, PutRequests
  <2>2. disk'[Staging(r.upload)] = disk[Staging(r.upload)]
    BY <1>2, <2>1 DEF FilesOfOthersKept, XInv, SoleTransfers
  <2>3. rows'[r.upload] = rows[r.upload]
    BY <1>1, <1>2, <2>1 DEF RowsOfOthersKept, OwnRow
  <2>4. HoldsRow(d)'
    BY <1>1, <1>2, <2>3 DEF HoldsRow, PutSteps
  <2>5. HoldsFile(d)'
    BY <1>1, <1>2, <2>2 DEF HoldsFile, Staged
  <2> QED
    BY <2>4, <2>5
<1>3. CASE r.pc = "publishing"
  <2>1. r.upload \in Uploads
    BY <1>3, RequestOfStep DEF XInv, IInv, TypeOK, CommitRequests
  <2>2. rows[r.upload] # Unissued
    BY <1>1, <1>3, RowFacts DEF HoldsRow
  <2>3. rows'[r.upload] = rows[r.upload]
    BY <1>1, <1>3, <2>1, <2>2 DEF RowsOfOthersKept, HoldsRow
  <2> QED
    BY <1>1, <1>3, <2>3 DEF HoldsRow, HoldsFile, PutSteps
<1>4. CASE r.pc \notin PutSteps \cup {"publishing"}
  BY <1>1, <1>4 DEF HoldsRow, HoldsFile, PutSteps
<1> QED
  BY <1>2, <1>3, <1>4

\* Everything XInv says is kept by a step of one caller that keeps the parts.
LEMMA ExclusiveStep ==
  ASSUME OneCredential, XInv, IInv', NEW c \in Callers, OthersWait(c),
         FilesOfOthersKept(c), RowsOfOthersKept(c), now' = now,
         HoldsRow(c)', HoldsFile(c)', SweepSound', Uncharged', ChargedOnce',
         ArtifactsComplete', NothingStranded',
         req'[c].pc \in PutSteps =>
           req[c].pc \in PutSteps /\ req'[c].upload = req[c].upload
  PROVE  XInv'
<1>1. ASSUME NEW d \in Callers PROVE HoldsRow(d)' /\ HoldsFile(d)'
  BY OthersHold
<1>2. SoleTransfers'
  BY DEF SoleTransfers, OthersWait, XInv
<1> QED
  BY <1>1, <1>2 DEF XInv

-----------------------------------------------------------------------------
(* The volume.  What each operation does to the files, staged and final.   *)

LEMMA PrefixFacts ==
  ASSUME NEW b \in Bodies
  PROVE  /\ Prefix(b, 0) = Blank
         /\ Prefix(b, Size[b]) = Image(b)
         /\ \A n \in Nat : Prefix(b, n) \in Contents
         /\ \A n \in Nat : n < MaxBytes =>
              [Prefix(b, n) EXCEPT ![n + 1] = b] = Prefix(b, n + 1)
<1>1. MaxBytes \in Nat /\ Size[b] \in Nat
  BY StorageAssumption
<1>2. Prefix(b, 0) = Blank /\ Prefix(b, Size[b]) = Image(b)
  BY <1>1 DEF Prefix, Blank, Image
<1>3. \A n \in Nat : Prefix(b, n) \in Contents
  BY <1>1 DEF Prefix, Contents
<1>4. ASSUME NEW n \in Nat, n < MaxBytes
      PROVE  [Prefix(b, n) EXCEPT ![n + 1] = b] = Prefix(b, n + 1)
  <2>1. \A i \in 1..MaxBytes : i <= n + 1 <=> i <= n \/ i = n + 1
    BY <1>1, <1>4
  <2> QED
    BY <1>1, <1>4, <2>1 DEF Prefix
<1> QED
  BY <1>2, <1>3, <1>4

\* Every file the step may change is the staging file of u.
OnlyStaging(u) ==
  /\ \A v \in Uploads : v # u => disk'[Staging(v)] = disk[Staging(v)]
  /\ \A b \in Bodies : disk'[Final(b)] = disk[Final(b)]

LEMMA OpenFiles ==
  ASSUME StorageInv, NEW c \in Callers, NEW u \in Uploads, OpenStaging(c, u)
  PROVE  /\ OnlyStaging(u) /\ disk'[Staging(u)] = Blank
         /\ handle'[c] = [path |-> Staging(u), at |-> 0]
         /\ \A d \in Callers : d # c => handle'[d] = handle[d]
BY PathFacts, StagingDistinct
DEF StorageInv, StorageTypeOK, OpenStaging, OnlyStaging

LEMMA WriteFiles ==
  ASSUME StorageInv, NEW c \in Callers, NEW u \in Uploads, NEW b \in Bodies,
         WriteChunk(c, b), handle[c].path \in {Staging(u), Unlinked}
  PROVE  /\ OnlyStaging(u)
         /\ disk'[Staging(u)] =
              IF handle[c].path = Unlinked THEN disk[Staging(u)]
              ELSE [disk[Staging(u)] EXCEPT ![handle[c].at + 1] = b]
         /\ handle'[c].path = handle[c].path
         /\ handle'[c].at = handle[c].at + 1
         /\ \A d \in Callers : d # c => handle'[d] = handle[d]
<1> DEFINE p == handle[c].path
           n == handle[c].at + 1
           s == Staging(u)
<1>1. /\ disk' = IF p \in Paths
                 THEN [disk EXCEPT ![p] = [disk[p] EXCEPT ![n] = b]]
                 ELSE disk
      /\ handle' = [handle EXCEPT ![c] = [handle[c] EXCEPT !.at = n]]
  BY DEF WriteChunk
<1>2. /\ s \in Paths /\ Unlinked \notin Paths /\ s # Unlinked
      /\ handle[c] \in Handles /\ disk \in [Paths -> Contents \cup {None}]
      /\ handle \in [Callers -> Handles]
      /\ \A v \in Uploads : Staging(v) \in Paths /\ (v # u => Staging(v) # s)
      /\ \A a \in Bodies : Final(a) \in Paths /\ Final(a) # s
  BY PathFacts, StagingDistinct DEF StorageInv, StorageTypeOK
<1>3. p \in {s, Unlinked}
  OBVIOUS
<1> HIDE DEF n, s
<1>4. handle'[c].path = p /\ handle'[c].at = n
  BY <1>1, <1>2 DEF Handles
<1>5. \A d \in Callers : d # c => handle'[d] = handle[d]
  BY <1>1, <1>2
<1>6. /\ \A v \in Uploads : v # u => disk'[Staging(v)] = disk[Staging(v)]
      /\ \A a \in Bodies : disk'[Final(a)] = disk[Final(a)]
      /\ disk'[s] = IF p = Unlinked THEN disk[s] ELSE [disk[s] EXCEPT ![n] = b]
  BY <1>1, <1>2, <1>3
<1> QED
  BY <1>4, <1>5, <1>6 DEF OnlyStaging, n, s

LEMMA DiscardFiles ==
  ASSUME StorageInv, NEW u \in Uploads, Discard(u)
  PROVE  /\ OnlyStaging(u) /\ disk'[Staging(u)] = None
         /\ \A d \in Callers : handle'[d] = Follow(handle[d], Staging(u), Unlinked)
BY PathFacts, StagingDistinct
DEF StorageInv, StorageTypeOK, Discard, OnlyStaging

LEMMA ReplaceFiles ==
  ASSUME StorageInv, NEW u \in Uploads, NEW b \in Bodies, Replace(u, b)
  PROVE  /\ \A v \in Uploads : v # u => disk'[Staging(v)] = disk[Staging(v)]
         /\ disk'[Staging(u)] = None
         /\ disk'[Final(b)] = disk[Staging(u)]
         /\ \A a \in Bodies : a # b => disk'[Final(a)] = disk[Final(a)]
         /\ \A d \in Callers :
              /\ handle[d].path # Final(b)
              /\ handle[d].path # Staging(u)
              => handle'[d] = handle[d]
<1> DEFINE src == Staging(u)
           dst == Final(b)
<1>1. /\ src \in Paths /\ dst \in Paths /\ src # dst
      /\ \A v \in Uploads : Staging(v) \in Paths /\ (v # u => Staging(v) # src)
                             /\ Staging(v) # dst
      /\ \A a \in Bodies : Final(a) \in Paths /\ (a # b => Final(a) # dst)
                            /\ Final(a) # src
  BY PathFacts, StagingDistinct
<1>2. /\ disk' = [disk EXCEPT ![dst] = disk[src], ![src] = None]
      /\ handle' = [c \in Callers |->
                      Follow(Follow(handle[c], dst, Unlinked), src, dst)]
      /\ disk \in [Paths -> Contents \cup {None}]
  BY DEF Replace, StorageInv, StorageTypeOK
<1> HIDE DEF src, dst
<1>3. /\ \A v \in Uploads : v # u => disk'[Staging(v)] = disk[Staging(v)]
      /\ disk'[src] = None /\ disk'[dst] = disk[src]
      /\ \A a \in Bodies : a # b => disk'[Final(a)] = disk[Final(a)]
  BY <1>1, <1>2
<1>4. ASSUME NEW d \in Callers, handle[d].path # dst, handle[d].path # src
      PROVE  handle'[d] = handle[d]
  BY <1>2, <1>4 DEF Follow
<1> QED
  BY <1>3, <1>4 DEF src, dst

\* Where a handle can be: nowhere but on its own transfer's staging file.
LEMMA HandlePlaces ==
  ASSUME XInv, NEW c \in Callers
  PROVE  /\ \A b \in Bodies : handle[c].path # Final(b)
         /\ \A u \in Uploads : handle[c].path = Staging(u) =>
              req[c].pc = "streaming" /\ req[c].upload = u
         /\ Closed.path = Nowhere
<1>1. HoldsFile(c)
  BY DEF XInv
<1>2. /\ \A b : Nowhere # Final(b) /\ Unlinked # Final(b)
      /\ \A u : Nowhere # Staging(u) /\ Unlinked # Staging(u)
      /\ \A u, b : Staging(u) # Final(b)
  BY DEF Nowhere, Unlinked, Final, Staging
<1>3. Closed.path = Nowhere
  BY DEF Closed
<1> QED
  BY <1>1, <1>2, <1>3, StagingDistinct DEF HoldsFile

\* A discard of another transfer's staging file, or of none, leaves c's handle.
LEMMA DiscardOfOthers ==
  ASSUME XInv, NEW u \in Uploads, Discard(u), NEW c \in Callers,
         req[c].pc = "streaming" => req[c].upload # u
  PROVE  handle'[c] = handle[c]
BY HandlePlaces, DiscardFiles DEF XInv, IInv, TypeOK, StorageInv, Follow

-----------------------------------------------------------------------------
(* A transfer at work: the tables, the clock and the sweep wait.           *)

\* The row of a transfer that is not yet charged.
LEMMA RowHeld ==
  ASSUME XInv, NEW c \in Callers, req[c].pc \in PutSteps
  PROVE  /\ req[c] \in PutRequests
         /\ req[c].upload \in Uploads /\ req[c].body \in Bodies
         /\ req[c].row \in Row
         /\ Size[req[c].body] \in 1..MaxBytes
         /\ handle[c] \in Handles
         /\ HoldsRow(c) /\ HoldsFile(c)
         /\ StorageInv
BY RequestOfStep, StorageAssumption
DEF XInv, IInv, TypeOK, PutRequests, StorageInv, StorageTypeOK

\* XInv is kept by a step of a transfer that keeps to its own staging file,
\* promotes nothing but whole artifacts and stages nothing for a row that the
\* sweep may delete.
LEMMA TransferStep ==
  ASSUME OneCredential, XInv, IInv', NEW c \in Callers,
         req[c].pc \in PutSteps, OthersWait(c),
         UNCHANGED <<rows, ledger, now, sweep>>,
         \A d \in Callers : d # c => handle'[d] = handle[d],
         \A v \in Uploads : v # req[c].upload =>
           disk'[Staging(v)] = disk[Staging(v)],
         \A b \in Bodies :
           \/ disk'[Final(b)] = disk[Final(b)]
           \/ disk'[Final(b)] = Image(b),
         disk[Staging(req[c].upload)] = None =>
           \/ disk'[Staging(req[c].upload)] = None
           \/ /\ rows[req[c].upload].state = "reserved"
              /\ rows[req[c].upload].expires > now,
         req'[c].pc # "publishing",
         req'[c].pc \in PutSteps =>
           /\ req'[c].upload = req[c].upload
           /\ req'[c].row = req[c].row
           /\ req'[c].pc # "opening" => req[c].row.state = "reserved",
         HoldsFile(c)'
  PROVE  XInv'
<1> DEFINE r == req[c]
<1>1. r.upload \in Uploads /\ HoldsRow(c)
  BY RowHeld
<1>2. HoldsRow(c)'
  BY <1>1 DEF HoldsRow, PutSteps
<1>3. FilesOfOthersKept(c) /\ RowsOfOthersKept(c)
  BY DEF FilesOfOthersKept, RowsOfOthersKept
<1>4. Uncharged' /\ ChargedOnce'
  BY DEF XInv, Uncharged, ChargedOnce, Stored
<1>5. SweepSound'
  <2> SUFFICES ASSUME NEW u \in sweep.doomed
               PROVE  /\ rows[u] # Unissued
                      /\ rows[u] # Gone => rows[u].expires <= now
                      /\ u \notin sweep.left => disk'[Staging(u)] = None
    BY DEF SweepSound, Staged
  <2>1. u \in Uploads
    BY DEF XInv, IInv, TypeOK, Sweeps
  <2>2. /\ rows[u] # Unissued
        /\ rows[u] # Gone => rows[u].expires <= now
        /\ u \notin sweep.left => disk[Staging(u)] = None
    BY DEF XInv, SweepSound, Staged
  <2>3. ~ (rows[u].state = "reserved" /\ rows[u].expires > now)
    <3> SUFFICES ASSUME rows[u].state = "reserved" PROVE rows[u].expires <= now
                                                   /\ rows[u] \in Row
      BY DEF XInv, IInv, TypeOK, QuotaTypeOK, Row
    <3> QED
      BY <2>1, <2>2, RowFacts DEF XInv, IInv, TypeOK, QuotaTypeOK
  <2> QED
    BY <2>1, <2>2, <2>3
<1>6. ArtifactsComplete'
  BY DEF XInv, ArtifactsComplete, Image
<1>7. NothingStranded'
  <2> SUFFICES ASSUME NEW u \in Uploads, disk'[Staging(u)] # None
               PROVE  rows[u].state = "reserved"
    BY DEF NothingStranded, Exists
  <2>1. disk[Staging(u)] # None => rows[u].state = "reserved"
    BY DEF XInv, NothingStranded, Exists
  <2> QED
    BY <2>1
<1> QED
  BY <1>2, <1>3, <1>4, <1>5, <1>6, <1>7, ExclusiveStep

\* A transfer that ends has closed its handle; whatever it staged stays staged
\* for the sweep.
LEMMA TransferEnds ==
  ASSUME OneCredential, XInv, IInv', NEW c \in Callers,
         req[c].pc \in PutSteps, Finish(c),
         UNCHANGED <<rows, ledger, now, sweep>>,
         \A d \in Callers : d # c => handle'[d] = handle[d],
         handle'[c] = Closed,
         \A v \in Uploads : v # req[c].upload =>
           disk'[Staging(v)] = disk[Staging(v)],
         \A b \in Bodies : disk'[Final(b)] = disk[Final(b)],
         disk[Staging(req[c].upload)] = None =>
           disk'[Staging(req[c].upload)] = None
  PROVE  XInv'
<1>1. req' = [req EXCEPT ![c] = Idle] /\ req \in [Callers -> Requests]
  BY DEF Finish, XInv, IInv, TypeOK
<1>2. req'[c] = Idle /\ OthersWait(c)
  BY <1>1 DEF OthersWait
<1>3. req'[c].pc = "idle"
  BY <1>2 DEF Idle
<1>4. HoldsFile(c)'
  BY <1>3 DEF HoldsFile
<1> QED
  BY <1>2, <1>3, <1>4, TransferStep DEF PutSteps

\* A transfer goes on to step pc with what it has on the volume.
LEMMA TransferGoesOn ==
  ASSUME OneCredential, XInv, IInv', NEW c \in Callers,
         req[c].pc \in PutSteps, req[c].row.state = "reserved",
         NEW pc \in PutSteps \ {"opening"}, Goto(c, pc),
         UNCHANGED <<rows, ledger, now, sweep>>,
         \A d \in Callers : d # c => handle'[d] = handle[d],
         \A v \in Uploads : v # req[c].upload =>
           disk'[Staging(v)] = disk[Staging(v)],
         \A b \in Bodies :
           \/ disk'[Final(b)] = disk[Final(b)]
           \/ disk'[Final(b)] = Image(b),
         disk[Staging(req[c].upload)] = None =>
           \/ disk'[Staging(req[c].upload)] = None
           \/ /\ rows[req[c].upload].state = "reserved"
              /\ rows[req[c].upload].expires > now,
         pc # "streaming" => handle'[c] = Closed,
         pc = "streaming" =>
           /\ handle'[c] = [path |-> Staging(req[c].upload), at |-> 0]
           /\ disk'[Staging(req[c].upload)] = Blank,
         pc \in {"promoting", "dropping", "replacing"} =>
           disk'[Staging(req[c].upload)] \in {None, Image(req[c].body)},
         pc = "charging" => disk'[Staging(req[c].upload)] = None
  PROVE  XInv'
<1> DEFINE r == req[c]
<1>1. /\ OthersWait(c) /\ req'[c].pc = pc /\ req'[c].upload = r.upload
      /\ req'[c].row = r.row /\ req'[c].body = r.body
  BY PutGoesOn DEF XInv, IInv, TypeOK
<1>2. Size[r.body] \in 1..MaxBytes /\ Blank = Prefix(r.body, 0)
  BY RowHeld, PrefixFacts
<1>3. ASSUME pc = "streaming" PROVE HoldsFile(c)'
  <2>1. handle'[c].path = Staging(r.upload) /\ handle'[c].at = 0
    BY <1>3
  <2> QED
    BY <1>1, <1>2, <1>3, <2>1 DEF HoldsFile, Staged
<1>4. HoldsFile(c)'
  BY <1>1, <1>3 DEF HoldsFile, Staged
<1> QED
  BY <1>1, <1>4, TransferStep DEF PutSteps

LEMMA ExclusivePutOpen ==
  ASSUME OneCredential, XInv, IInv', NEW c \in Callers, PutOpen(c)
  PROVE  XInv'
<1> DEFINE r == req[c]
<1>1. r.pc = "opening" /\ UNCHANGED <<rows, ledger, now, sweep>>
  BY DEF PutOpen, At, quotaVars
<1>2. /\ r.pc \in PutSteps /\ r.upload \in Uploads /\ r.row \in Row
      /\ HoldsRow(c) /\ HoldsFile(c) /\ StorageInv /\ now \in Nat
  BY <1>1, RowHeld DEF PutSteps, XInv, IInv, TypeOK, QuotaTypeOK
<1>3. CASE LiveReservation(r.row) /\ OpenStaging(c, r.upload)
           /\ Goto(c, "streaming")
  <2>1. r.row.state = "reserved" /\ r.row.expires > now /\ r.row.expires \in Nat
    BY <1>2, <1>3 DEF LiveReservation, Row
  <2>2. rows[r.upload] = r.row
    BY <1>1, <1>2, <2>1 DEF HoldsRow
  <2>3. /\ OnlyStaging(r.upload) /\ disk'[Staging(r.upload)] = Blank
        /\ handle'[c] = [path |-> Staging(r.upload), at |-> 0]
        /\ \A d \in Callers : d # c => handle'[d] = handle[d]
    BY <1>2, <1>3, OpenFiles
  <2> QED
    BY <1>1, <1>2, <1>3, <2>1, <2>2, <2>3, TransferGoesOn
    DEF PutSteps, OnlyStaging
<1>4. CASE UNCHANGED storageVars /\ Finish(c)
  BY <1>1, <1>2, <1>4, TransferEnds DEF storageVars, HoldsFile
<1> QED
  BY <1>3, <1>4 DEF PutOpen

\* A chunk goes on top of what was sent, or to a file the sweep has unlinked.
LEMMA ExclusivePutChunk ==
  ASSUME OneCredential, XInv, IInv', NEW c \in Callers, PutChunk(c)
  PROVE  XInv'
<1> DEFINE r == req[c]
           n == handle[c].at
           s == disk[Staging(r.upload)]
<1>1. /\ r.pc = "streaming" /\ n < Size[r.body] /\ WriteChunk(c, r.body)
      /\ UNCHANGED <<rows, ledger, now, req, sweep>>
  BY DEF PutChunk, At, MoreToCome, quotaVars
<1>2. /\ r.pc \in PutSteps /\ r.upload \in Uploads /\ r.body \in Bodies
      /\ HoldsRow(c) /\ HoldsFile(c) /\ StorageInv
      /\ n \in 0..MaxBytes /\ Size[r.body] \in 1..MaxBytes
  BY <1>1, RowHeld DEF PutSteps, Handles
<1>3. /\ handle[c].path \in {Staging(r.upload), Unlinked}
      /\ handle[c].path = Staging(r.upload) => s = Prefix(r.body, n)
      /\ handle[c].path = Unlinked => s = None
  BY <1>1, <1>2, PathFacts DEF HoldsFile, Staged
<1>4. /\ OnlyStaging(r.upload)
      /\ disk'[Staging(r.upload)] =
           IF handle[c].path = Unlinked THEN s ELSE [s EXCEPT ![n + 1] = r.body]
      /\ handle'[c].path = handle[c].path /\ handle'[c].at = n + 1
      /\ \A d \in Callers : d # c => handle'[d] = handle[d]
  BY <1>1, <1>2, <1>3, WriteFiles
<1>5. Staging(r.upload) # Unlinked
  BY PathFacts, <1>2
<1>6. [Prefix(r.body, n) EXCEPT ![n + 1] = r.body] = Prefix(r.body, n + 1)
  <2>1. n \in Nat /\ n < MaxBytes
    BY <1>1, <1>2, StorageAssumption
  <2> HIDE DEF n
  <2> QED
    BY <1>2, <2>1, PrefixFacts
<1>7. n + 1 <= Size[r.body]
  BY <1>1, <1>2, StorageAssumption
<1>8. HoldsFile(c)'
  BY <1>1, <1>3, <1>4, <1>5, <1>6, <1>7 DEF HoldsFile, Staged
<1>9. OthersWait(c)
  BY <1>1 DEF OthersWait
<1>10. r.row.state = "reserved"
  BY <1>1, <1>2 DEF HoldsRow
<1>11. s = None => disk'[Staging(r.upload)] = None
  <2> SUFFICES ASSUME s = None, handle[c].path # Unlinked PROVE FALSE
    BY <1>4
  <2>1. Prefix(r.body, n) \in Contents
    BY <1>2, PrefixFacts
  <2> QED
    BY <1>3, <2>1, StorageAssumption DEF Contents
<1> QED
  BY <1>1, <1>2, <1>4, <1>8, <1>9, <1>10, <1>11, TransferStep DEF OnlyStaging

LEMMA CloseFiles ==
  ASSUME XInv, NEW c \in Callers, CloseHandle(c)
  PROVE  /\ handle'[c] = Closed /\ disk' = disk
         /\ \A d \in Callers : d # c => handle'[d] = handle[d]
BY DEF CloseHandle, XInv, IInv, TypeOK, StorageTypeOK

\* A transfer past "streaming" discards what it has staged, and nobody's handle
\* is on it.
LEMMA OwnDiscard ==
  ASSUME XInv, NEW c \in Callers, req[c].pc \in PutSteps \ {"streaming"},
         Discard(req[c].upload)
  PROVE  /\ \A d \in Callers : handle'[d] = handle[d]
         /\ handle[c] = Closed
         /\ OnlyStaging(req[c].upload)
         /\ disk'[Staging(req[c].upload)] = None
<1> DEFINE u == req[c].upload
<1>1. u \in Uploads /\ HoldsFile(c) /\ StorageInv
  BY RowHeld
<1>2. \A d \in Callers : req[d].pc = "streaming" => req[d].upload # u
  BY DEF XInv, SoleTransfers, PutSteps
<1>3. \A d \in Callers : handle'[d] = handle[d]
  BY <1>1, <1>2, DiscardOfOthers
<1>4. OnlyStaging(u) /\ disk'[Staging(u)] = None
  BY <1>1, DiscardFiles
<1> QED
  BY <1>1, <1>3, <1>4 DEF HoldsFile

LEMMA ExclusivePutOverrun ==
  ASSUME OneCredential, XInv, IInv', NEW c \in Callers, PutOverrun(c)
  PROVE  XInv'
<1>1. /\ req[c].pc = "streaming" /\ CloseHandle(c) /\ Goto(c, "overrun")
      /\ UNCHANGED <<rows, ledger, now, sweep>>
  BY DEF PutOverrun, At, quotaVars
<1>2. req[c].pc \in PutSteps /\ req[c].row.state = "reserved"
  BY <1>1, RowHeld DEF PutSteps, HoldsRow
<1> QED
  BY <1>1, <1>2, CloseFiles, TransferGoesOn DEF PutSteps

\* Nothing more to come: the file is the whole body, or it was unlinked.
LEMMA ExclusivePutMeasure ==
  ASSUME OneCredential, XInv, IInv', NEW c \in Callers, PutMeasure(c)
  PROVE  XInv'
<1> DEFINE r == req[c]
           next == IF Measured(r) THEN "promoting" ELSE "mismatch"
<1>1. /\ r.pc = "streaming" /\ CloseHandle(c) /\ Goto(c, next)
      /\ ~ (handle[c].at < Size[r.body])
      /\ UNCHANGED <<rows, ledger, now, sweep>>
  BY DEF PutMeasure, At, MoreToCome, quotaVars
<1>2. /\ r.pc \in PutSteps /\ r.row.state = "reserved" /\ HoldsFile(c)
      /\ r.body \in Bodies /\ Size[r.body] \in Nat /\ handle[c].at \in Nat
  BY <1>1, RowHeld, StorageAssumption DEF PutSteps, HoldsRow, Handles
<1>3. handle[c].at = Size[r.body]
  BY <1>1, <1>2 DEF HoldsFile
<1>4. disk[Staging(r.upload)] \in {None, Image(r.body)}
  BY <1>1, <1>2, <1>3, PrefixFacts DEF HoldsFile, Staged
<1>5. next \in {"promoting", "mismatch"}
  OBVIOUS
<1> HIDE DEF next
<1> QED
  BY <1>1, <1>2, <1>4, <1>5, CloseFiles, TransferGoesOn DEF PutSteps

LEMMA ExclusivePutRefuses ==
  ASSUME OneCredential, XInv, IInv', NEW c \in Callers,
         PutDiscard(c) \/ PutUnwind(c)
  PROVE  XInv'
<1> DEFINE r == req[c]
<1>1. r.pc \in PutSteps \ {"streaming", "opening"}
  BY DEF PutDiscard, PutUnwind, At, PutSteps
<1>2. r.row.state = "reserved" /\ handle[c] = Closed
  BY <1>1, RowHeld DEF HoldsRow, HoldsFile
<1>3. UNCHANGED <<rows, ledger, now, sweep>>
  BY DEF PutDiscard, PutUnwind, AfterRefusal, quotaVars
<1>4. CASE PutDiscard(c)
  <2>1. Discard(r.upload) /\ (Goto(c, "refused") \/ Finish(c))
    BY <1>4 DEF PutDiscard
  <2>2. /\ \A d \in Callers : handle'[d] = handle[d]
        /\ OnlyStaging(r.upload) /\ disk'[Staging(r.upload)] = None
    BY <1>1, <2>1, OwnDiscard
  <2>3. CASE Goto(c, "refused")
    BY <1>1, <1>2, <1>3, <2>2, <2>3, TransferGoesOn DEF PutSteps, OnlyStaging
  <2>4. CASE Finish(c)
    BY <1>1, <1>2, <1>3, <2>2, <2>4, TransferEnds DEF OnlyStaging
  <2> QED
    BY <2>1, <2>3, <2>4
<1>5. CASE PutUnwind(c)
  BY <1>1, <1>2, <1>3, <1>5, TransferEnds DEF PutUnwind, storageVars
<1> QED
  BY <1>4, <1>5

\* What gets the final name is what was staged: the whole artifact.
LEMMA ExclusivePutLands ==
  ASSUME OneCredential, XInv, IInv', NEW c \in Callers,
         PutPromote(c) \/ PutDrop(c) \/ PutReplace(c)
  PROVE  XInv'
<1> DEFINE r == req[c]
           u == req[c].upload
           b == req[c].body
<1>1. r.pc \in {"promoting", "dropping", "replacing"}
  BY DEF PutPromote, PutDrop, PutReplace, At
<1>2. /\ r.pc \in PutSteps \ {"streaming", "opening"}
      /\ u \in Uploads /\ b \in Bodies /\ StorageInv
      /\ r.row.state = "reserved" /\ handle[c] = Closed
      /\ disk[Staging(u)] \in {None, Image(b)}
  BY <1>1, RowHeld DEF PutSteps, HoldsRow, HoldsFile, Staged
<1>3. UNCHANGED <<rows, ledger, now, sweep>>
  BY DEF PutPromote, PutDrop, PutReplace, quotaVars
<1>4. CASE PutPromote(c)
  <2>1. PICK pc \in {"dropping", "replacing"} : Goto(c, pc)
    BY <1>4 DEF PutPromote
  <2>2. UNCHANGED storageVars
    BY <1>4 DEF PutPromote
  <2> QED
    BY <1>2, <1>3, <2>1, <2>2, TransferGoesOn DEF PutSteps, storageVars
<1>5. CASE PutDrop(c)
  <2>1. Discard(u) /\ Goto(c, "charging")
    BY <1>5 DEF PutDrop
  <2>2. /\ \A d \in Callers : handle'[d] = handle[d]
        /\ OnlyStaging(u) /\ disk'[Staging(u)] = None
    BY <1>2, <2>1, OwnDiscard
  <2> QED
    BY <1>2, <1>3, <2>1, <2>2, TransferGoesOn DEF PutSteps, OnlyStaging
<1>6. CASE PutReplace(c) /\ Finish(c) /\ UNCHANGED storageVars
  BY <1>2, <1>3, <1>6, TransferEnds DEF storageVars
<1>7. CASE Replace(u, b) /\ Goto(c, "charging")
  <2>1. /\ \A v \in Uploads : v # u => disk'[Staging(v)] = disk[Staging(v)]
        /\ disk'[Staging(u)] = None
        /\ disk'[Final(b)] = disk[Staging(u)]
        /\ \A a \in Bodies : a # b => disk'[Final(a)] = disk[Final(a)]
        /\ \A d \in Callers :
             handle[d].path # Final(b) /\ handle[d].path # Staging(u)
             => handle'[d] = handle[d]
    BY <1>2, <1>7, ReplaceFiles
  <2>2. \A d \in Callers : req[d].pc = "streaming" => req[d].upload # u
    BY <1>2 DEF XInv, SoleTransfers, PutSteps
  <2>3. \A d \in Callers : handle'[d] = handle[d]
    BY <1>2, <2>1, <2>2, HandlePlaces
  <2>4. disk'[Final(b)] = Image(b)
    BY <1>2, <1>7, <2>1 DEF Replace, Exists
  <2> QED
    BY <1>2, <1>3, <1>7, <2>1, <2>3, <2>4, TransferGoesOn DEF PutSteps
<1> QED
  BY <1>4, <1>5, <1>6, <1>7 DEF PutReplace

-----------------------------------------------------------------------------
(* A transfer begins and ends; the other requests.                         *)

\* The row is the caller's own, so no other transfer is on it.
LEMMA ExclusivePutSelect ==
  ASSUME OneCredential, XInv, IInv', NEW c \in Callers, PutSelect(c)
  PROVE  XInv'
<1>1. PICK u \in OwnedBy(Account[c]), body \in Bodies :
        /\ req[c].pc = "idle"
        /\ req' = [req EXCEPT ![c] =
             [pc |-> "opening", upload |-> u, row |-> rows[u], body |-> body]]
        /\ UNCHANGED <<storageVars, quotaVars, sweep>>
  BY DEF PutSelect, At
<1>2. UNCHANGED <<disk, handle, rows, models, ledger, now, sweep>>
  BY <1>1 DEF storageVars, quotaVars
<1>3. /\ u \in Uploads /\ rows[u] # Gone /\ rows[u].owner = Account[c]
      /\ req \in [Callers -> Requests]
  BY RowFacts DEF OwnedBy, Live, XInv, IInv, TypeOK
<1>4. /\ req'[c].pc = "opening" /\ req'[c].upload = u
      /\ req'[c].row = rows[u] /\ OthersWait(c)
  BY <1>1, <1>3 DEF OthersWait
<1>5. HoldsRow(c)' /\ HoldsFile(c)'
  BY <1>1, <1>2, <1>4 DEF HoldsRow, HoldsFile, XInv
<1>6. ASSUME NEW d \in Callers, d # c PROVE HoldsRow(d)' /\ HoldsFile(d)'
  BY <1>2, <1>4, <1>6, OthersHold DEF FilesOfOthersKept, RowsOfOthersKept
<1>7. ASSUME NEW d \in Callers, d # c, req[d].pc \in PutSteps
      PROVE  req[d].upload # u
  BY <1>3, <1>7 DEF XInv, IInv, OwnRow, OneCredential
<1>8. SoleTransfers'
  BY <1>4, <1>7 DEF SoleTransfers, OthersWait, XInv
<1>9. /\ SweepSound' /\ Uncharged' /\ ChargedOnce' /\ ArtifactsComplete'
      /\ NothingStranded'
  BY <1>2
  DEF XInv, SweepSound, Staged, Uncharged, ChargedOnce, Stored,
      ArtifactsComplete, NothingStranded, Exists
<1> QED
  BY <1>5, <1>6, <1>8, <1>9 DEF XInv

\* A request that is over, or has not got a row yet, holds nothing.
LEMMA HoldsNothing ==
  ASSUME NEW c \in Callers, handle'[c] = Closed,
         req'[c].pc \in {"idle", "checking", "inserting"}
  PROVE  HoldsRow(c)' /\ HoldsFile(c)'
BY DEF HoldsRow, HoldsFile, PutSteps

\* A request's step that leaves the tables and the volume alone.
LEMMA QuietStep ==
  ASSUME OneCredential, XInv, IInv', NEW c \in Callers, OthersWait(c),
         UNCHANGED <<rows, ledger, now, sweep, disk>>,
         \A d \in Callers : d # c => handle'[d] = handle[d],
         HoldsRow(c)', HoldsFile(c)', req'[c].pc \notin PutSteps
  PROVE  XInv'
<1>1. FilesOfOthersKept(c) /\ RowsOfOthersKept(c)
  BY DEF FilesOfOthersKept, RowsOfOthersKept
<1>2. /\ SweepSound' /\ Uncharged' /\ ChargedOnce' /\ ArtifactsComplete'
      /\ NothingStranded'
  BY DEF XInv, SweepSound, Staged, Uncharged, ChargedOnce, Stored,
         ArtifactsComplete, NothingStranded, Exists
<1> QED
  BY <1>1, <1>2, ExclusiveStep

LEMMA EndOfRequest ==
  ASSUME XInv, NEW c \in Callers, Finish(c)
  PROVE  req'[c].pc = "idle" /\ OthersWait(c)
BY DEF Finish, XInv, IInv, TypeOK, OthersWait, Idle

LEMMA ExclusiveReads ==
  ASSUME OneCredential, XInv, IInv', NEW c \in Callers,
         ReserveBegin(c) \/ ReserveCheck(c)
  PROVE  XInv'
<1>1. /\ UNCHANGED <<rows, ledger, now, sweep, disk, handle>>
      /\ req[c].pc \in {"idle", "checking"}
  BY DEF ReserveBegin, ReserveCheck, At, storageVars, quotaVars
<1>2. req'[c].pc \in {"idle", "checking", "inserting"} /\ OthersWait(c)
  BY EndOfRequest
  DEF ReserveBegin, ReserveCheck, OthersWait, XInv, IInv, TypeOK
<1>3. handle'[c] = Closed
  BY <1>1 DEF XInv, HoldsFile
<1> QED
  BY <1>1, <1>2, <1>3, HoldsNothing, QuietStep DEF PutSteps

LEMMA ExclusiveAbort ==
  ASSUME OneCredential, XInv, IInv', NEW c \in Callers, Abort(c)
  PROVE  XInv'
<1>1. Finish(c) /\ UNCHANGED <<rows, ledger, now, sweep>> /\ CloseHandle(c)
  BY DEF Abort, quotaVars
<1>2. /\ handle'[c] = Closed /\ disk' = disk
      /\ \A d \in Callers : d # c => handle'[d] = handle[d]
      /\ req'[c].pc = "idle" /\ OthersWait(c)
  BY <1>1, CloseFiles, EndOfRequest
<1> QED
  BY <1>1, <1>2, HoldsNothing, QuietStep DEF PutSteps

\* The row turns from reserved to received as the ledger takes its bytes, once:
\* the sweep may have taken the row, and then nothing is charged.
LEMMA ExclusivePutCharge ==
  ASSUME OneCredential, XInv, IInv', NEW c \in Callers, PutCharge(c)
  PROVE  XInv'
<1> DEFINE r == req[c]
           u == req[c].upload
           user == Account[c]
<1>1. /\ r.pc = "charging" /\ Finish(c)
      /\ UNCHANGED <<disk, handle, models, now, sweep>>
  BY DEF PutCharge, At, storageVars, tables
<1>2. /\ r \in PutRequests /\ u \in Uploads /\ r.body \in Bodies
      /\ HoldsRow(c) /\ HoldsFile(c) /\ user \in Users
  BY <1>1, RowHeld, FlowAssumption DEF PutSteps
<1>3. handle'[c] = Closed /\ Staged(u) = None
  BY <1>1, <1>2 DEF HoldsFile
<1>4. req'[c].pc = "idle" /\ OthersWait(c)
  BY <1>1, EndOfRequest
<1>5. HoldsRow(c)' /\ HoldsFile(c)'
  BY <1>3, <1>4, HoldsNothing
<1>6. CASE rows[u] = Gone
  BY <1>1, <1>3, <1>4, <1>5, <1>6, QuietStep DEF PutCharge, tables, PutSteps
<1>7. CASE rows[u] # Gone
  <2>1. /\ rows[u] \in Row /\ rows[u].owner = user
        /\ rows[u].size = Size[r.body] /\ rows[u].state = "reserved"
        /\ ledger[user][u] = 0
    BY <1>1, <1>2, <1>7
    DEF XInv, IInv, TypeOK, QuotaTypeOK, OwnRow, Promised, Measured, PutSteps,
        HoldsRow, Uncharged
  <2>2. /\ rows' = [rows EXCEPT ![u] = [rows[u] EXCEPT !.key = r.body,
                                             !.state = "uploaded"]]
        /\ ledger' = [ledger EXCEPT ![user] =
                        [ledger[user] EXCEPT ![u] = @ + Size[r.body]]]
    BY <1>7 DEF PutCharge, Charge
  <2>3. /\ rows'[u].state = "uploaded" /\ rows'[u].owner = user
        /\ rows'[u].size = Size[r.body] /\ rows'[u].expires = rows[u].expires
        /\ \A v \in Uploads : v # u => rows'[v] = rows[v]
    BY <1>2, <2>1, <2>2 DEF Row, XInv, IInv, TypeOK, QuotaTypeOK
  <2>4. Size[r.body] \in Nat /\ ledger \in [Users -> [Uploads -> Nat]]
    BY <1>2, StorageAssumption DEF XInv, IInv, TypeOK, QuotaTypeOK
  <2>5. /\ ledger'[user][u] = Size[r.body]
        /\ \A w \in Users, v \in Uploads : v # u => ledger'[w][v] = ledger[w][v]
    BY <1>2, <2>1, <2>2, <2>4
  <2>6. FilesOfOthersKept(c) /\ RowsOfOthersKept(c)
    BY <1>1, <1>7, <2>1, <2>3 DEF FilesOfOthersKept, RowsOfOthersKept
  <2>7. \A v \in Uploads : rows[v] \in Row => rows[v].owner \in Users
    BY DEF Row
  <2>8. rows'[u] # Unissued /\ rows'[u].state # "reserved"
    BY <2>3, RowFacts
  <2>9. Uncharged'
    <3> SUFFICES ASSUME NEW v \in Uploads, v # u
                 PROVE  /\ rows[v] = Unissued =>
                             \A w \in Users : ledger'[w][v] = 0
                        /\ rows[v].state = "reserved" =>
                             ledger'[rows[v].owner][v] = 0
      BY <2>3, <2>8 DEF Uncharged
    <3>1. rows[v].state = "reserved" => rows[v] \in Row
      BY RowFacts DEF XInv, IInv, TypeOK, QuotaTypeOK
    <3> QED
      BY <2>5, <2>7, <3>1 DEF XInv, Uncharged
  <2>10. ChargedOnce'
    <3> SUFFICES ASSUME NEW v \in Uploads, Stored(v)'
                 PROVE  ledger'[rows'[v].owner][v] = rows'[v].size
      BY DEF ChargedOnce
    <3>1. CASE v = u
      BY <2>3, <2>5, <3>1
    <3>2. CASE v # u
      <4>1. rows'[v] = rows[v] /\ Stored(v)
        BY <2>3, <3>2 DEF Stored
      <4>2. rows[v] \in Row
        BY <4>1, RowFacts
        DEF XInv, IInv, TypeOK, QuotaTypeOK, Stored, STORED
      <4> QED
        BY <2>5, <2>7, <3>2, <4>1, <4>2 DEF XInv, ChargedOnce
    <3> QED
      BY <3>1, <3>2
  <2>11. SweepSound'
    <3> SUFFICES ASSUME NEW v \in sweep.doomed
                 PROVE  /\ rows'[v] # Unissued
                        /\ rows'[v] # Gone => rows'[v].expires <= now
                        /\ v \notin sweep.left => disk[Staging(v)] = None
      BY <1>1 DEF SweepSound, Staged
    <3>1. v \in Uploads
      BY DEF XInv, IInv, TypeOK, Sweeps
    <3> QED
      BY <1>7, <2>3, <2>8, <3>1 DEF XInv, SweepSound, Staged
  <2>12. ArtifactsComplete' /\ NothingStranded'
    BY <1>1, <1>3, <2>3
    DEF XInv, ArtifactsComplete, NothingStranded, Exists, Staged
  <2> QED
    BY <1>1, <1>4, <1>5, <2>6, <2>9, <2>10, <2>11, <2>12, ExclusiveStep
    DEF PutSteps
<1> QED
  BY <1>6, <1>7

\* A new row: nothing is staged under its id and nothing charged for it.
LEMMA ExclusiveInsert ==
  ASSUME OneCredential, XInv, IInv', NEW c \in Callers, ReserveInsert(c)
  PROVE  XInv'
<1> DEFINE r == req[c]
           user == Account[c]
<1>1. /\ r.pc = "inserting" /\ Finish(c)
      /\ UNCHANGED <<disk, handle, ledger, now, sweep>>
  BY DEF ReserveInsert, At, storageVars
<1>2. req'[c].pc = "idle" /\ OthersWait(c) /\ user \in Users
  BY <1>1, EndOfRequest, FlowAssumption
<1>3. handle'[c] = Closed
  BY <1>1 DEF XInv, HoldsFile
<1>4. HoldsRow(c)' /\ HoldsFile(c)'
  BY <1>2, <1>3, HoldsNothing
<1>5. CASE UNCHANGED rows
  BY <1>1, <1>2, <1>4, <1>5, QuietStep DEF PutSteps
<1>6. CASE ~ UNCHANGED rows
  <2>1. PICK u \in Uploads :
          /\ rows[u] = Unissued
          /\ rows' = [rows EXCEPT ![u] = Reserved(user, r)]
    BY <1>6 DEF ReserveInsert
  <2>2. /\ rows'[u] = Reserved(user, r)
        /\ \A v \in Uploads : v # u => rows'[v] = rows[v]
    BY <2>1 DEF XInv, IInv, TypeOK, QuotaTypeOK
  <2>3. rows'[u].state = "reserved" /\ rows'[u].owner = user
    BY <2>2 DEF Reserved
  <2>4. FilesOfOthersKept(c) /\ RowsOfOthersKept(c)
    BY <1>1, <2>1, <2>2 DEF FilesOfOthersKept, RowsOfOthersKept
  <2>5. Uncharged'
    BY <1>1, <1>2, <2>1, <2>2, <2>3, RowFacts DEF XInv, Uncharged
  <2>6. ChargedOnce'
    BY <1>1, <2>1, <2>2, <2>3 DEF XInv, ChargedOnce, Stored, STORED
  <2>7. u \notin sweep.doomed /\ sweep.doomed \subseteq Uploads
    BY <2>1 DEF XInv, SweepSound, IInv, TypeOK, Sweeps
  <2>8. SweepSound'
    BY <1>1, <2>2, <2>7 DEF XInv, SweepSound, Staged
  <2>9. ArtifactsComplete' /\ NothingStranded'
    BY <1>1, <2>2, <2>3
    DEF XInv, ArtifactsComplete, NothingStranded, Exists
  <2> QED
    BY <1>1, <1>2, <1>4, <2>4, <2>5, <2>6, <2>8, <2>9, ExclusiveStep
    DEF PutSteps
<1> QED
  BY <1>5, <1>6

\* Publishing: the row is the one selected, or the sweep has taken it.
LEMMA ExclusiveCommit ==
  ASSUME OneCredential, XInv, IInv', NEW c \in Callers, Commit(c)
  PROVE  XInv'
<1>1. CASE CommitSelect(c)
  <2>1. PICK u \in OwnedBy(Account[c]) :
          /\ req[c].pc = "idle" /\ rows[u].state = "uploaded"
          /\ req' = [req EXCEPT ![c] = [pc |-> "publishing", upload |-> u]]
    BY <1>1 DEF CommitSelect, At
  <2>2. UNCHANGED <<rows, ledger, now, sweep, disk, handle>>
    BY <1>1 DEF CommitSelect, storageVars, quotaVars
  <2>3. /\ req'[c] = [pc |-> "publishing", upload |-> u] /\ OthersWait(c)
        /\ rows[u].owner = Account[c]
    BY <2>1 DEF XInv, IInv, TypeOK, OthersWait, OwnedBy
  <2>4. HoldsRow(c)' /\ HoldsFile(c)'
    BY <2>1, <2>2, <2>3 DEF HoldsRow, HoldsFile, PutSteps, XInv
  <2> QED
    BY <2>2, <2>3, <2>4, QuietStep DEF PutSteps
<1>2. CASE CommitWrite(c)
  <2> DEFINE u == req[c].upload
             new == [rows[u] EXCEPT !.state = CommittedState]
  <2>1. /\ req[c].pc = "publishing" /\ Finish(c)
        /\ UNCHANGED <<ledger, now, sweep, disk, handle>>
    BY <1>2 DEF CommitWrite, At, storageVars
  <2>2. /\ u \in Uploads /\ handle'[c] = Closed
        /\ \/ rows[u] = Gone
           \/ rows[u].owner = Account[c] /\ rows[u].state = "uploaded"
    BY <2>1, RequestOfStep
    DEF XInv, IInv, TypeOK, CommitRequests, HoldsRow, HoldsFile
  <2>3. req'[c].pc = "idle" /\ OthersWait(c)
    BY <2>1, EndOfRequest
  <2>4. HoldsRow(c)' /\ HoldsFile(c)'
    BY <2>2, <2>3, HoldsNothing
  <2>5. CASE rows[u] = Gone
    <3>1. rows' = rows
      BY <1>2, <2>5 DEF CommitWrite
    <3> QED
      BY <2>1, <2>2, <2>3, <2>4, <3>1, QuietStep DEF PutSteps
  <2>6. CASE rows[u] # Gone
    <3>1. rows' = [rows EXCEPT ![u] = new]
      BY <1>2, <2>6 DEF CommitWrite
    <3>2. /\ rows[u] \in Row /\ rows[u].owner = Account[c]
          /\ rows[u].state = "uploaded"
      BY <2>2, <2>6, RowFacts DEF XInv, IInv, TypeOK, QuotaTypeOK
    <3>3. /\ new.state \in STORED \ {"uploaded"}
          /\ new.owner = rows[u].owner
          /\ new.size = rows[u].size /\ new.expires = rows[u].expires
      BY <3>2 DEF Row, STORED, CommittedState
    <3>4. new # Unissued /\ new.state # "reserved" /\ new.state \in STORED
      BY <3>3, RowFacts DEF STORED
    <3> HIDE DEF new
    <3>5. rows'[u] = new /\ \A v \in Uploads : v # u => rows'[v] = rows[v]
      BY <2>2, <3>1 DEF XInv, IInv, TypeOK, QuotaTypeOK
    <3>6. FilesOfOthersKept(c) /\ RowsOfOthersKept(c)
      BY <2>1, <2>6, <3>2, <3>5 DEF FilesOfOthersKept, RowsOfOthersKept
    <3>7. Uncharged'
      BY <2>1, <3>4, <3>5 DEF XInv, Uncharged
    <3>8. ChargedOnce'
      BY <2>1, <2>2, <3>2, <3>3, <3>5
      DEF XInv, ChargedOnce, Stored, STORED
    <3>9. SweepSound'
      <4>1. sweep.doomed \subseteq Uploads
        BY DEF XInv, IInv, TypeOK, Sweeps
      <4> QED
        BY <2>1, <2>6, <3>3, <3>4, <3>5, <4>1 DEF XInv, SweepSound, Staged
    <3>10. ArtifactsComplete' /\ NothingStranded'
      BY <2>1, <3>2, <3>5
      DEF XInv, ArtifactsComplete, NothingStranded, Exists
    <3> QED
      BY <2>1, <2>3, <2>4, <3>6, <3>7, <3>8, <3>9, <3>10, ExclusiveStep
      DEF PutSteps
  <2> QED
    BY <2>5, <2>6
<1> QED
  BY <1>1, <1>2 DEF Commit

-----------------------------------------------------------------------------
(* The sweep and the clock: every request waits.                           *)

\* A step that leaves the requests, the tables and the volume alone.
LEMMA StillStep ==
  ASSUME XInv, IInv', SweepSound',
         UNCHANGED <<disk, handle, rows, ledger, req>>,
         now' = now \/ now' = now + 1
  PROVE  XInv'
<1>1. now \in Nat /\ now' \in Nat /\ now <= now'
  BY DEF XInv, IInv, TypeOK, QuotaTypeOK
<1>2. ASSUME NEW c \in Callers PROVE HoldsRow(c)' /\ HoldsFile(c)'
  <2>1. req[c].pc \in PutSteps => req[c].row.expires \in Nat
    BY RowHeld DEF Row
  <2> QED
    BY <1>1, <2>1 DEF XInv, HoldsRow, HoldsFile, Staged
<1>3. /\ SoleTransfers' /\ Uncharged' /\ ChargedOnce'
      /\ ArtifactsComplete' /\ NothingStranded'
  BY DEF XInv, SoleTransfers, Uncharged, ChargedOnce, Stored,
         ArtifactsComplete, NothingStranded, Exists
<1> QED
  BY <1>2, <1>3 DEF XInv

LEMMA ExclusiveClock ==
  ASSUME XInv, IInv', ClockTick \/ UNCHANGED vars
  PROVE  XInv'
<1>1. /\ UNCHANGED <<disk, handle, rows, ledger, req, sweep>>
      /\ now' = now \/ now' = now + 1
  BY DEF ClockTick, Tick, storageVars, vars
<1>2. SweepSound'
  <2> SUFFICES ASSUME NEW u \in sweep.doomed
               PROVE  /\ rows[u] # Unissued
                      /\ rows[u] # Gone => rows[u].expires <= now'
                      /\ u \notin sweep.left => disk[Staging(u)] = None
    BY <1>1 DEF SweepSound, Staged
  <2>1. u \in Uploads /\ now \in Nat /\ now' \in Nat /\ now <= now'
    BY <1>1 DEF XInv, IInv, TypeOK, Sweeps, QuotaTypeOK
  <2>2. rows[u] \notin {Gone, Unissued} => rows[u].expires \in Nat
    BY <2>1 DEF XInv, IInv, TypeOK, QuotaTypeOK, Row
  <2> QED
    BY <2>1, <2>2 DEF XInv, SweepSound, Staged
<1> QED
  BY <1>1, <1>2, StillStep

\* The sweep unlinks the staging file of a doomed row, under the open handle
\* of the transfer that fills it.
LEMMA ExclusiveDiscard ==
  ASSUME XInv, IInv', NEW u \in Uploads, SweepDiscard(u)
  PROVE  XInv'
<1>1. /\ Discard(u) /\ UNCHANGED <<rows, ledger, now, req>>
      /\ sweep' = [sweep EXCEPT !.left = @ \ {u}] /\ sweep \in Sweeps
  BY DEF SweepDiscard, quotaVars, XInv, IInv, TypeOK
<1>2. StorageInv
  BY DEF XInv, IInv, TypeOK, StorageInv
<1>3. /\ OnlyStaging(u) /\ disk'[Staging(u)] = None
      /\ \A d \in Callers : handle'[d] = Follow(handle[d], Staging(u), Unlinked)
  BY <1>1, <1>2, DiscardFiles
<1>4. ASSUME NEW c \in Callers PROVE HoldsRow(c)' /\ HoldsFile(c)'
  <2> DEFINE r == req[c]
  <2>1. HoldsRow(c)'
    BY <1>1 DEF XInv, HoldsRow
  <2>2. CASE r.pc = "streaming" /\ r.upload = u
    <3>1. /\ HoldsFile(c) /\ handle[c] \in Handles
          /\ handle'[c] = IF handle[c].path = Staging(u)
                          THEN [handle[c] EXCEPT !.path = Unlinked]
                          ELSE handle[c]
      BY <1>2, <1>3 DEF XInv, Follow, StorageInv, StorageTypeOK
    <3>2. handle'[c].path = Unlinked /\ handle'[c].at = handle[c].at
      BY <2>2, <3>1 DEF HoldsFile, Handles
    <3>3. HoldsFile(c)'
      BY <1>1, <1>3, <2>2, <3>1, <3>2 DEF HoldsFile, Staged
    <3> QED
      BY <2>1, <3>3
  <2>3. CASE ~ (r.pc = "streaming" /\ r.upload = u)
    <3>1. handle'[c] = handle[c] /\ HoldsFile(c)
      BY <1>1, <2>3, DiscardOfOthers DEF XInv
    <3>2. r.pc \in PutSteps => r.upload \in Uploads
      BY RowHeld
    <3>3. \A v \in Uploads : Staged(v)' = None \/ Staged(v)' = Staged(v)
      BY <1>3 DEF OnlyStaging, Staged
    <3>4. r.pc = "streaming" => Staged(r.upload)' = Staged(r.upload)
      BY <1>1, <1>3, <2>3, <3>2 DEF OnlyStaging, Staged, PutSteps
    <3>5. HoldsFile(c)'
      BY <1>1, <3>1, <3>2, <3>3, <3>4 DEF HoldsFile, PutSteps
    <3> QED
      BY <2>1, <3>5
  <2> QED
    BY <2>2, <2>3
<1>5. /\ SoleTransfers' /\ Uncharged' /\ ChargedOnce'
      /\ ArtifactsComplete' /\ NothingStranded'
  BY <1>1, <1>3
  DEF XInv, SoleTransfers, Uncharged, ChargedOnce, Stored,
      ArtifactsComplete, NothingStranded, Exists, OnlyStaging
<1>6. SweepSound'
  <2>1. /\ sweep'.doomed = sweep.doomed /\ sweep'.left = sweep.left \ {u}
        /\ sweep.doomed \subseteq Uploads
    BY <1>1 DEF Sweeps
  <2> QED
    BY <1>1, <1>3, <2>1 DEF XInv, SweepSound, Staged, OnlyStaging
<1> QED
  BY <1>4, <1>5, <1>6 DEF XInv

\* A row that is deleted had expired, and what was staged for it is discarded.
LEMMA ExclusiveDelete ==
  ASSUME XInv, IInv', SweepDelete
  PROVE  XInv'
<1>1. /\ UNCHANGED <<disk, handle, ledger, now, req>>
      /\ \A u \in Uploads :
           rows'[u] = IF u \in sweep.doomed THEN Gone ELSE rows[u]
      /\ sweep' = NoSweep /\ sweep.left = {}
  BY DEF SweepDelete, storageVars
<1>2. ASSUME NEW c \in Callers PROVE HoldsRow(c)' /\ HoldsFile(c)'
  <2>1. HoldsRow(c) /\ HoldsFile(c)
    BY DEF XInv
  <2>2. HoldsFile(c)'
    BY <1>1, <2>1 DEF HoldsFile, Staged
  <2>3. req[c].pc \in PutSteps \cup {"publishing"} => req[c].upload \in Uploads
    BY RequestOfStep
    DEF XInv, IInv, TypeOK, PutRequests, CommitRequests
  <2>4. \A u \in sweep.doomed : rows[u] # Gone => rows[u].expires <= now
    BY DEF XInv, SweepSound
  <2>5. HoldsRow(c)'
    BY <1>1, <2>1, <2>3, <2>4 DEF HoldsRow
  <2> QED
    BY <2>2, <2>5
<1>3. SoleTransfers' /\ ArtifactsComplete'
  BY <1>1 DEF XInv, SoleTransfers, ArtifactsComplete
<1>4. Uncharged' /\ ChargedOnce'
  BY <1>1, RowFacts DEF XInv, Uncharged, ChargedOnce, Stored, STORED
<1>5. NothingStranded'
  BY <1>1 DEF XInv, NothingStranded, Exists, SweepSound, Staged
<1>6. SweepSound'
  BY <1>1 DEF SweepSound, NoSweep
<1> QED
  BY <1>2, <1>3, <1>4, <1>5, <1>6 DEF XInv

LEMMA ExclusiveSweep ==
  ASSUME XInv, IInv', Sweep
  PROVE  XInv'
<1>1. CASE SweepSelect
  <2>1. /\ UNCHANGED <<disk, handle, rows, ledger, req, now>>
        /\ sweep'.doomed = ExpiredReservations
        /\ sweep'.left = ExpiredReservations
    BY <1>1 DEF SweepSelect, storageVars, quotaVars
  <2>2. SweepSound'
    BY <2>1, RowFacts DEF SweepSound, ExpiredReservations, Live
  <2> QED
    BY <2>1, <2>2, StillStep
<1>2. CASE SweepAbort
  <2>1. /\ UNCHANGED <<disk, handle, rows, ledger, req, now>>
        /\ sweep' = NoSweep
    BY <1>2 DEF SweepAbort, storageVars, quotaVars
  <2>2. SweepSound'
    BY <2>1 DEF SweepSound, NoSweep
  <2> QED
    BY <2>1, <2>2, StillStep
<1> QED
  BY <1>1, <1>2, ExclusiveDiscard, ExclusiveDelete DEF Sweep

-----------------------------------------------------------------------------
(* The theorems.                                                           *)

LEMMA InitXInv == Init => XInv
<1> SUFFICES ASSUME Init PROVE XInv
  OBVIOUS
<1>1. /\ \A c \in Callers : req[c].pc = "idle" /\ handle[c] = Closed
      /\ \A u \in Uploads : rows[u] = Unissued /\ disk[Staging(u)] = None
      /\ \A b \in Bodies : disk[Final(b)] = None
      /\ \A user \in Users, u \in Uploads : ledger[user][u] = 0
      /\ sweep.doomed = {}
  BY PathFacts DEF Init, StorageInit, QuotaInit, NoSweep, Idle
<1>2. \A c \in Callers : HoldsRow(c) /\ HoldsFile(c)
  BY <1>1 DEF HoldsRow, HoldsFile, PutSteps
<1>3. SoleTransfers /\ SweepSound
  BY <1>1 DEF SoleTransfers, SweepSound, PutSteps
<1>4. Uncharged /\ ChargedOnce
  BY <1>1, RowFacts DEF Uncharged, ChargedOnce, Stored, STORED
<1>5. ArtifactsComplete /\ NothingStranded
  BY <1>1 DEF ArtifactsComplete, NothingStranded, Exists
<1> QED
  BY <1>2, <1>3, <1>4, <1>5, InitIInv DEF XInv

LEMMA StepXInv == OneCredential /\ XInv /\ [Next]_vars => XInv'
<1> SUFFICES ASSUME OneCredential, XInv, [Next]_vars PROVE XInv'
  OBVIOUS
<1>1. IInv'
  BY StepIInv DEF XInv
<1>2. ASSUME NEW c \in Callers, Reserve(c) PROVE XInv'
  BY <1>1, <1>2, ExclusiveReads, ExclusiveInsert DEF Reserve
<1>3. ASSUME NEW c \in Callers, Put(c) PROVE XInv'
  BY <1>1, <1>3, ExclusivePutSelect, ExclusivePutOpen, ExclusivePutChunk,
     ExclusivePutOverrun, ExclusivePutMeasure, ExclusivePutRefuses,
     ExclusivePutLands, ExclusivePutCharge DEF Put
<1>4. ASSUME NEW c \in Callers, Commit(c) \/ Abort(c) PROVE XInv'
  BY <1>1, <1>4, ExclusiveCommit, ExclusiveAbort
<1>5. CASE Sweep \/ ClockTick \/ UNCHANGED vars
  BY <1>1, <1>5, ExclusiveSweep, ExclusiveClock
<1> QED
  BY <1>2, <1>3, <1>4, <1>5 DEF Next

\* What is true of every transfer that has its account to itself.
THEOREM ExclusiveInvariance ==
  ASSUME OneCredential PROVE Spec => []XInv
<1>1. XInv /\ [Next]_vars => XInv'
  BY StepXInv
<1> QED
  BY <1>1, InitXInv, PTL DEF Spec

\* An account with one credential is charged for each version once, and in
\* full, whatever crashes, retries and sweeps come between receipt and commit.
THEOREM VersionsChargedOnce ==
  ASSUME OneCredential PROVE Spec => []ChargedOnce
<1>1. XInv => ChargedOnce
  BY DEF XInv
<1> QED
  BY <1>1, ExclusiveInvariance, PTL

\* What has a final name is the whole artifact the name is the digest of.
THEOREM ArtifactsAreWhole ==
  ASSUME OneCredential PROVE Spec => []ArtifactsComplete
<1>1. XInv => ArtifactsComplete
  BY DEF XInv
<1> QED
  BY <1>1, ExclusiveInvariance, PTL

\* The sweep can find every staged file: a reservation still names it.
THEOREM StagedBytesAreReserved ==
  ASSUME OneCredential PROVE Spec => []NothingStranded
<1>1. XInv => NothingStranded
  BY DEF XInv
<1> QED
  BY <1>1, ExclusiveInvariance, PTL

LEMMA RankFacts ==
  /\ Rank("unissued") = 0 /\ Rank("reserved") = 1 /\ Rank("uploaded") = 2
  /\ Rank("gone") = 4 /\ Rank(CommittedState) = 3
  /\ \A u \in Uploads : TypeOK => Rank(rows[u].state) \in 0..4
  /\ \A row \in Row : Rank(row.state) \in 1..3
<1>1. /\ Rank("unissued") = 0 /\ Rank("reserved") = 1 /\ Rank("uploaded") = 2
      /\ Rank("gone") = 4 /\ Rank("verifying") = 3 /\ Rank("published") = 3
  BY DEF Rank
<1>2. \A row \in Row : Rank(row.state) \in 1..3
  BY <1>1 DEF Row, STORED
<1>3. ASSUME NEW u \in Uploads, TypeOK PROVE Rank(rows[u].state) \in 0..4
  BY <1>1, <1>2, <1>3, RowFacts DEF TypeOK, QuotaTypeOK
<1> QED
  BY <1>1, <1>2, <1>3 DEF CommittedState

\* Every version that changes moves on.
Forward ==
  \A u \in Uploads :
    rows'[u] # rows[u] => Rank(rows'[u].state) > Rank(rows[u].state)

LEMMA ForwardWrites ==
  ASSUME XInv, NEW c \in Callers,
         ReserveInsert(c) \/ PutCharge(c) \/ CommitWrite(c)
  PROVE  Forward
<1>1. /\ rows \in [Uploads -> Row \cup {Unissued, Gone}]
      /\ req \in [Callers -> Requests]
  BY DEF XInv, IInv, TypeOK, QuotaTypeOK
<1>2. CASE ReserveInsert(c) /\ rows' # rows
  <2>1. PICK u \in Uploads :
          /\ rows[u] = Unissued
          /\ rows' = [rows EXCEPT ![u] = Reserved(Account[c], req[c])]
    BY <1>2 DEF ReserveInsert
  <2>2. rows[u].state = "unissued" /\ rows'[u].state = "reserved"
    BY <1>1, <2>1, RowFacts DEF Reserved
  <2>3. Rank(rows[u].state) = 0 /\ Rank(rows'[u].state) = 1
    BY <2>2, RankFacts
  <2> QED
    BY <1>1, <2>1, <2>3 DEF Forward
<1>3. CASE PutCharge(c) /\ rows' # rows
  <2> DEFINE u == req[c].upload
             new == [rows[u] EXCEPT !.key = req[c].body, !.state = "uploaded"]
  <2>1. req[c].pc = "charging" /\ rows[u] # Gone
    BY <1>3 DEF PutCharge, At, tables
  <2>2. /\ u \in Uploads /\ rows[u] \in Row /\ rows[u].state = "reserved"
    BY <2>1, RowHeld, <1>1 DEF PutSteps, HoldsRow
  <2>3. rows' = [rows EXCEPT ![u] = new] /\ new.state = "uploaded"
    BY <1>3, <2>1, <2>2 DEF PutCharge, Row
  <2> HIDE DEF new
  <2>4. rows'[u].state = "uploaded"
    BY <1>1, <2>2, <2>3
  <2>5. Rank(rows[u].state) = 1 /\ Rank(rows'[u].state) = 2
    BY <2>2, <2>4, RankFacts
  <2> QED
    BY <1>1, <2>3, <2>5 DEF Forward
<1>4. CASE CommitWrite(c) /\ rows' # rows
  <2> DEFINE u == req[c].upload
             new == [rows[u] EXCEPT !.state = CommittedState]
  <2>1. req[c].pc = "publishing" /\ rows[u] # Gone
    BY <1>4 DEF CommitWrite, At
  <2>2. /\ u \in Uploads /\ rows[u] \in Row /\ rows[u].state = "uploaded"
    BY <1>1, <2>1, RequestOfStep, RowFacts
    DEF XInv, CommitRequests, HoldsRow
  <2>3. rows' = [rows EXCEPT ![u] = new] /\ new.state = CommittedState
    BY <1>4, <2>1, <2>2 DEF CommitWrite, Row
  <2> HIDE DEF new
  <2>4. rows'[u].state = CommittedState
    BY <1>1, <2>2, <2>3
  <2>5. Rank(rows[u].state) = 2 /\ Rank(rows'[u].state) = 3
    BY <2>2, <2>4, RankFacts
  <2> QED
    BY <1>1, <2>3, <2>5 DEF Forward
<1> QED
  BY <1>2, <1>3, <1>4 DEF Forward

LEMMA StepForward == OneCredential /\ XInv /\ [Next]_vars => Forward
<1> SUFFICES ASSUME XInv, [Next]_vars PROVE Forward
  OBVIOUS
<1>1. CASE UNCHANGED rows
  BY <1>1 DEF Forward
<1>2. CASE SweepDelete
  <2>1. \A u \in Uploads : rows'[u] = Gone \/ rows'[u] = rows[u]
    BY <1>2 DEF SweepDelete
  <2>2. \A u \in Uploads : rows[u] = Gone \/ Rank(rows[u].state) \in 0..3
    BY RankFacts, RowFacts DEF XInv, IInv, TypeOK, QuotaTypeOK
  <2> QED
    BY <2>1, <2>2, RankFacts, RowFacts DEF Forward
<1>3. ASSUME NEW c \in Callers, Put(c) PROVE PutCharge(c) \/ UNCHANGED rows
  BY <1>3
  DEF Put, PutSelect, PutOpen, PutChunk, PutOverrun, PutMeasure, PutDiscard,
      PutUnwind, AfterRefusal, PutPromote, PutDrop, PutReplace, quotaVars
<1>4. ASSUME NEW c \in Callers, Reserve(c) \/ Commit(c) \/ Abort(c)
      PROVE  ReserveInsert(c) \/ CommitWrite(c) \/ UNCHANGED rows
  BY <1>4
  DEF Reserve, ReserveBegin, ReserveCheck, Commit, CommitSelect, Abort,
      quotaVars
<1>5. Sweep \/ ClockTick \/ UNCHANGED vars => SweepDelete \/ UNCHANGED rows
  BY DEF Sweep, SweepSelect, SweepDiscard, SweepAbort, ClockTick, Tick,
         quotaVars, vars
<1> QED
  BY <1>1, <1>2, <1>3, <1>4, <1>5, ForwardWrites DEF Next

\* A version only moves forward through its states: a retried transfer or a
\* late commit never takes one back, and a swept row does not return.
THEOREM VersionsMoveForward ==
  ASSUME OneCredential PROVE Spec => LifecycleForward
<1>1. XInv /\ [Next]_vars
        => [\A u \in Uploads :
              rows'[u] # rows[u] =>
                Rank(rows'[u].state) > Rank(rows[u].state)]_vars
  BY StepForward DEF Forward
<1> QED
  BY <1>1, ExclusiveInvariance, PTL DEF Spec, LifecycleForward

=============================================================================
